---------------------------- MODULE SensorsProofs ----------------------------
(***************************************************************************)
(* Contacts, sensor states and presence, for any contacts, lights, units,  *)
(* curtains and tables: what has come to rest stays at rest.               *)
(***************************************************************************)
EXTENDS Sensors, TLAPS

Devices == Units \cup Curtains
Calls   == {None} \cup [dev : Devices, has : BOOLEAN]
Answers == {NoAnswer} \cup [dev : Lights, says : SUBSET SUBSET Inputs]
                      \cup [dev : Curtains, says : SUBSET BOOLEAN]

SensorsTypes ==
  /\ open \subseteq Inputs
  /\ shown \in [Lights -> SUBSET SUBSET Inputs]
  /\ asked \in [Curtains -> SUBSET BOOLEAN]
  /\ m_data_switch_status \subseteq Inputs
  /\ m_data_hukong \in Tables
  /\ m_data_sen_status \in [Codes -> BOOLEAN]
  /\ forced \in [Units -> 0 .. 2]
  /\ call \in [Threads -> Calls]
  /\ answer \in [Threads -> Answers]
  /\ told \in [Devices -> BOOLEAN]

LEMMA InitTypes == Init => SensorsTypes
BY DEF Init, SensorsTypes, Devices, Calls, Answers, Unknown

\* A table's curtains have codes, so their sensors have states.
LEMMA Codings ==
  ASSUME m_data_hukong \in Tables
  PROVE  /\ m_data_hukong.input \in [Inputs -> Codes]
         /\ m_data_hukong.curtain \in [Curtains -> Codes]
         /\ m_data_hukong.air \in [Human -> Codes]
BY SensorsAssumption DEF Table

LEMMA ProcessSenTypes ==
  ASSUME NEW table, NEW S, ProcessSen(table, S)
  PROVE  m_data_sen_status' \in [Codes -> BOOLEAN]
BY DEF ProcessSen

LEMMA PassHeadTypes ==
  ASSUME SensorsTypes, PassHead
  PROVE  /\ m_data_switch_status' \subseteq Inputs
         /\ m_data_sen_status' \in [Codes -> BOOLEAN]
<1>1. m_data_sen_status' \in [Codes -> BOOLEAN]
  BY ProcessSenTypes DEF PassHead
<1> QED
  BY <1>1 DEF PassHead, Sampled, SensorsTypes

LEMMA SayTypes ==
  ASSUME SensorsTypes, NEW t \in Threads, NEW d \in Devices, NEW has \in BOOLEAN, Say(t, d, has)
  PROVE  call' \in [Threads -> Calls]
BY DEF SensorsTypes, Say, Calls

LEMMA HearTypes ==
  ASSUME SensorsTypes, NEW t \in Threads, NEW d, NEW says, Hear(t, d, says),
         \/ d \in Lights /\ says \in SUBSET SUBSET Inputs
         \/ d \in Curtains /\ says \in SUBSET BOOLEAN
  PROVE  answer' \in [Threads -> Answers]
BY DEF SensorsTypes, Hear, Answers

LEMMA PresenceTypes ==
  ASSUME m_data_hukong \in Tables, NEW sen \in [Codes -> BOOLEAN]
  PROVE  /\ \A u \in Units : HasManByXinfeng(sen, u) \in BOOLEAN
         /\ \A c \in Curtains : HasManByCurtain(sen, c) \in BOOLEAN
BY Codings DEF HasManByXinfeng, HasManByCurtain

LEMMA RunTypes ==
  ASSUME SensorsTypes, Run
  PROVE  SensorsTypes'
<1>1. CASE Pass
  BY <1>1, PassHeadTypes DEF Pass, SensorsTypes, cache
<1>2. ASSUME NEW table \in Tables, Configure(table) PROVE SensorsTypes'
  BY <1>2, PassHeadTypes DEF Configure, SensorsTypes, cache
<1>3. ASSUME NEW l \in Lights, RelayLight(l) PROVE SensorsTypes'
  <2>1. PICK contacts \in shown[l] :
              LET now == (Sampled \ Of(l)) \cup contacts IN
              m_data_switch_status' = now /\ ProcessSen(m_data_hukong, now)
    BY <1>3 DEF RelayLight
  <2>2. m_data_switch_status' \subseteq Inputs
    BY <2>1 DEF SensorsTypes, Sampled
  <2>3. m_data_sen_status' \in [Codes -> BOOLEAN]
    BY <2>1, ProcessSenTypes
  <2> QED
    BY <1>3, <2>2, <2>3 DEF RelayLight, SensorsTypes, cache
<1>6. ASSUME NEW l \in Lights, RelaySetLight(l) PROVE SensorsTypes'
  <2>1. m_data_switch_status' \subseteq Inputs /\ m_data_sen_status' \in [Codes -> BOOLEAN]
    BY <1>6, PassHeadTypes DEF RelaySetLight
  <2>2. answer' \in [Threads -> Answers]
    <3>1. {open \cap Of(l)} \in SUBSET SUBSET Inputs
      BY DEF SensorsTypes
    <3> QED
      BY <1>6, <3>1, HearTypes DEF RelaySetLight, Threads
  <2> QED
    BY <1>6, <2>1, <2>2 DEF RelaySetLight, SensorsTypes, cache
<1>4. ASSUME NEW u \in Units, NEW someone \in BOOLEAN, RelayUnit(u, someone) PROVE SensorsTypes'
  <2>1. m_data_switch_status' \subseteq Inputs /\ m_data_sen_status' \in [Codes -> BOOLEAN]
    BY <1>4, PassHeadTypes DEF RelayUnit
  <2>2. HasManByXinfeng(m_data_sen_status', u) \in BOOLEAN
    BY <2>1, PresenceTypes DEF SensorsTypes
  <2>3. call' \in [Threads -> Calls]
    BY <1>4, <2>2, SayTypes DEF RelayUnit, Devices, Threads
  <2> QED
    BY <1>4, <2>1, <2>3 DEF RelayUnit, SensorsTypes, cache
<1>5. ASSUME NEW c \in Curtains, RelaySetCurtain(c) \/ RelayCurtain(c) PROVE SensorsTypes'
  <2>1. m_data_switch_status' \subseteq Inputs /\ m_data_sen_status' \in [Codes -> BOOLEAN]
    BY <1>5, PassHeadTypes DEF RelaySetCurtain, RelayCurtain
  <2>2. HasManByCurtain(m_data_sen_status', c) \in BOOLEAN
    BY <2>1, PresenceTypes DEF SensorsTypes
  <2>3. call' \in [Threads -> Calls]
    BY <1>5, <2>2, SayTypes DEF RelaySetCurtain, RelayCurtain, Devices, Threads, SensorsTypes
  <2> QED
    BY <1>5, <2>1, <2>3 DEF RelaySetCurtain, RelayCurtain, SensorsTypes, cache
<1> QED
  BY <1>1, <1>2, <1>3, <1>4, <1>5, <1>6 DEF Run

LEMMA RpcTypes ==
  ASSUME SensorsTypes, Rpc
  PROVE  SensorsTypes'
<1>1. ASSUME NEW u \in Units, Aircondition("rpc", u) PROVE SensorsTypes'
  <2>1. call' \in [Threads -> Calls]
    BY <1>1, PresenceTypes, SayTypes DEF Aircondition, SensorsTypes, Devices, Threads
  <2> QED
    BY <1>1, <2>1 DEF Aircondition, SensorsTypes, cache, sensors
<1>2. ASSUME NEW u \in Units, StartUnit(u) PROVE SensorsTypes'
  <2>1. call' \in [Threads -> Calls]
    BY <1>2, SayTypes DEF StartUnit, Devices, Threads
  <2>2. forced' \in [Units -> 0 .. 2]
    BY <1>2 DEF StartUnit, SensorsTypes
  <2> QED
    BY <1>2, <2>1, <2>2 DEF StartUnit, SensorsTypes, cache, sensors
<1>3. ASSUME NEW c \in Curtains, Curtain(c) PROVE SensorsTypes'
  <2>1. call' \in [Threads -> Calls]
    BY <1>3, PresenceTypes, SayTypes DEF Curtain, SensorsTypes, Devices, Threads
  <2> QED
    BY <1>3, <2>1 DEF Curtain, SensorsTypes, cache, sensors
<1>4. ASSUME NEW l \in Lights, SwitchLight(l) PROVE SensorsTypes'
  <2>1. {open \cap Of(l)} \in SUBSET SUBSET Inputs
    BY DEF SensorsTypes
  <2>2. answer' \in [Threads -> Answers]
    BY <1>4, <2>1, HearTypes DEF SwitchLight, Threads
  <2> QED
    BY <1>4, <2>2 DEF SwitchLight, SensorsTypes, cache, sensors
<1> QED
  BY <1>1, <1>2, <1>3, <1>4 DEF Rpc

LEMMA TimerTypes ==
  ASSUME SensorsTypes, TimerQuery
  PROVE  SensorsTypes'
<1>1. ASSUME NEW u \in Units, PollUnit(u) PROVE SensorsTypes'
  <2>1. call' \in [Threads -> Calls]
    <3>1. HasManByXinfeng(m_data_sen_status, u) \in BOOLEAN
      BY PresenceTypes DEF SensorsTypes
    <3> QED
      BY <1>1, <3>1, SayTypes DEF PollUnit, SensorsTypes, Devices, Threads
  <2>2. forced' \in [Units -> 0 .. 2]
    BY <1>1 DEF PollUnit, SensorsTypes
  <2> QED
    BY <1>1, <2>1, <2>2 DEF PollUnit, SensorsTypes, cache, sensors
<1>2. ASSUME NEW u \in Units, Aircondition("timer", u) PROVE SensorsTypes'
  <2>1. call' \in [Threads -> Calls]
    BY <1>2, PresenceTypes, SayTypes DEF Aircondition, SensorsTypes, Devices, Threads
  <2> QED
    BY <1>2, <2>1 DEF Aircondition, SensorsTypes, cache, sensors
<1>3. ASSUME NEW l \in Lights, PollLight(l) PROVE SensorsTypes'
  <2>1. {open \cap Of(l)} \in SUBSET SUBSET Inputs
    BY DEF SensorsTypes
  <2>2. answer' \in [Threads -> Answers]
    BY <1>3, <2>1, HearTypes DEF PollLight, Threads
  <2> QED
    BY <1>3, <2>2 DEF PollLight, SensorsTypes, cache, sensors
<1>4. ASSUME NEW c \in Curtains, PollCurtain(c) PROVE SensorsTypes'
  <2>1. {told[c]} \in SUBSET BOOLEAN
    BY DEF SensorsTypes, Devices
  <2>2. answer' \in [Threads -> Answers]
    BY <1>4, <2>1, HearTypes DEF PollCurtain, Threads
  <2> QED
    BY <1>4, <2>2 DEF PollCurtain, SensorsTypes, cache, sensors
<1>5. ASSUME NEW d \in Lights \cup Curtains, PollFails(d) PROVE SensorsTypes'
  <2>1. answer' \in [Threads -> Answers]
    BY <1>5, HearTypes DEF PollFails, Threads, Unknown
  <2> QED
    BY <1>5, <2>1 DEF PollFails, SensorsTypes, cache, sensors
<1> QED
  BY <1>1, <1>2, <1>3, <1>4, <1>5 DEF TimerQuery

LEMMA ExchangeTypes ==
  ASSUME SensorsTypes, NEW t \in Threads, Exchange(t) \/ ExchangeFails(t)
  PROVE  SensorsTypes'
<1>1. call[t].dev \in Devices /\ call[t].has \in BOOLEAN
  BY DEF Exchange, ExchangeFails, SensorsTypes, Calls
<1>2. call' \in [Threads -> Calls]
  BY DEF Exchange, ExchangeFails, SensorsTypes, Calls
<1>3. CASE Exchange(t)
  <2>1. answer' \in [Threads -> Answers]
    <3>1. CASE call[t].dev \in Curtains
      <4>1. {call[t].has} \in SUBSET BOOLEAN
        BY <1>1
      <4> QED
        BY <1>3, <3>1, <4>1, HearTypes DEF Exchange
    <3>2. CASE call[t].dev \notin Curtains
      BY <1>3, <3>2 DEF Exchange, SensorsTypes
    <3> QED
      BY <3>1, <3>2
  <2> QED
    BY <1>1, <1>2, <1>3, <2>1 DEF Exchange, SensorsTypes, sensors, cache
<1>4. CASE ExchangeFails(t)
  BY <1>2, <1>4 DEF ExchangeFails, SensorsTypes, sensors, cache
<1> QED
  BY <1>3, <1>4

\* An answer that is stored goes where its device has its place in the cache.
LEMMA StoreTypes ==
  ASSUME SensorsTypes, NEW t \in Threads, Store(t)
  PROVE  SensorsTypes'
<1> DEFINE d == answer[t].dev
           now(contacts) == (m_data_switch_status \ Of(d)) \cup contacts
<1>1. \/ d \in Lights /\ answer[t].says \in SUBSET SUBSET Inputs
      \/ d \in Curtains /\ answer[t].says \in SUBSET BOOLEAN
  BY DEF Store, SensorsTypes, Answers, NoAnswer
<1>2. /\ d \in Lights => answer[t].says \in SUBSET SUBSET Inputs
      /\ d \in Curtains => answer[t].says \in SUBSET BOOLEAN
  BY <1>1, SensorsAssumption
<1>3. shown' \in [Lights -> SUBSET SUBSET Inputs] /\ asked' \in [Curtains -> SUBSET BOOLEAN]
  BY <1>2 DEF Store, SensorsTypes
<1>4. m_data_switch_status' \subseteq Inputs /\ m_data_sen_status' \in [Codes -> BOOLEAN]
  <2>1. CASE t = "kongguan" /\ d \in Lights
    <3>1. PICK contacts \in answer[t].says :
                m_data_switch_status' = now(contacts) /\ ProcessSen(m_data_hukong, now(contacts))
      BY <2>1 DEF Store
    <3>2. now(contacts) \subseteq Inputs
      BY <1>2, <2>1, <3>1 DEF SensorsTypes
    <3> QED
      BY <3>1, <3>2, ProcessSenTypes
  <2>2. CASE ~(t = "kongguan" /\ d \in Lights)
    BY <2>2 DEF Store, SensorsTypes
  <2> QED
    BY <2>1, <2>2
<1>5. answer' \in [Threads -> Answers]
  BY DEF Store, SensorsTypes, Answers
<1> QED
  BY <1>3, <1>4, <1>5 DEF Store, SensorsTypes

\* The types of contacts, caches, states, calls and answers hold throughout.
THEOREM SensorsTyped == Spec => []SensorsTypes
<1>1. SensorsTypes /\ [Next]_vars => SensorsTypes'
  <2> SUFFICES ASSUME SensorsTypes, [Next]_vars PROVE SensorsTypes'
    OBVIOUS
  <2>1. ASSUME NEW i \in Inputs, Trip(i) PROVE SensorsTypes'
    BY <2>1 DEF Trip, SensorsTypes, sensors, cache
  <2>2. CASE UNCHANGED vars
    BY <2>2 DEF vars, SensorsTypes, sensors, cache
  <2> QED
    BY <2>1, <2>2, RunTypes, RpcTypes, TimerTypes, ExchangeTypes, StoreTypes
       DEF Next
<1> QED
  BY <1>1, InitTypes, PTL DEF Spec

-----------------------------------------------------------------------------
(***************************************************************************)
(* At rest.                                                                *)
(***************************************************************************)

\* What is read of settled sensor states is the presence there is.
LEMMA RestReads ==
  ASSUME SensorsTypes, NEW sen \in [Codes -> BOOLEAN],
         \A code \in Codes : sen[code] <=> code \in Tripped(Sensing)
  PROVE  /\ \A u \in Units : HasManByXinfeng(sen, u) = Presence(u)
         /\ \A c \in Curtains : HasManByCurtain(sen, c) = Presence(c)
<1>1. \A s \in Human : s \in Codes /\ s \in Sensing /\ (sen[s] <=> s \in Tripped(Human))
  BY DEF Human, Codes, Sensing, GetSenType, Tripped
<1>2. ASSUME NEW u \in Units PROVE HasManByXinfeng(sen, u) = Presence(u)
  <2>1. Tripped(Human) \subseteq Human
    BY DEF Tripped
  <2>2. HasManByXinfeng(sen, u) <=> Presence(u)
    BY <1>1, <2>1 DEF HasManByXinfeng, Presence
  <2> QED
    BY <2>2 DEF HasManByXinfeng, Presence
<1>3. ASSUME NEW c \in Curtains PROVE HasManByCurtain(sen, c) = Presence(c)
  <2>1. m_data_hukong.curtain[c] \in Codes /\ c \notin Units
    BY Codings, SensorsAssumption DEF SensorsTypes
  <2> QED
    BY <2>1 DEF HasManByCurtain, Presence
<1> QED
  BY <1>2, <1>3

\* A pass over settled contacts computes the settled states again.
LEMMA RestProcess ==
  ASSUME SensorsTypes, ProcessSen(m_data_hukong, open)
  PROVE  /\ m_data_sen_status' \in [Codes -> BOOLEAN]
         /\ \A code \in Codes : m_data_sen_status'[code] <=> code \in Tripped(Sensing)
BY DEF ProcessSen, Tripped, Sensing

\* The presence there is depends on contacts and tables only.
LEMMA RestPresence ==
  ASSUME UNCHANGED <<open, m_data_hukong>>
  PROVE  /\ \A d : Presence(d)' = Presence(d)
         /\ Tripped(Sensing)' = Tripped(Sensing)
BY DEF Presence, Tripped, Sensing

\* The parts of AtRest.
RunKnows     == /\ m_data_switch_status = open
                /\ \A code \in Codes : m_data_sen_status[code] <=> code \in Tripped(Sensing)
LightsShow   == \A l \in Lights : shown[l] \subseteq {open \cap Of(l)}
NoneForced   == \A u \in Units : forced[u] = 0
DevicesKnow  == \A d \in Devices : told[d] = Presence(d)
CurtainsShow == \A c \in Curtains : asked[c] \subseteq {told[c]}
CallsTell    == \A t \in Threads : call[t] # None => call[t].has = Presence(call[t].dev)
AnswersTell  == \A t \in Threads : answer[t].dev # 0 => answer[t].says \subseteq Says(answer[t].dev)
Parts        == /\ RunKnows /\ LightsShow /\ NoneForced /\ DevicesKnow /\ CurtainsShow
                /\ CallsTell /\ AnswersTell

LEMMA RestParts ==
  AtRest <=> Parts
BY DEF AtRest, Parts, RunKnows, LightsShow, NoneForced, DevicesKnow, CurtainsShow, CallsTell,
   AnswersTell, Devices

LEMMA RestPassHead ==
  ASSUME SensorsTypes, RunKnows, PassHead, UNCHANGED <<open, m_data_hukong>>
  PROVE  /\ RunKnows'
         /\ m_data_sen_status' \in [Codes -> BOOLEAN]
         /\ \A u \in Units : HasManByXinfeng(m_data_sen_status', u) = Presence(u)
         /\ \A c \in Curtains : HasManByCurtain(m_data_sen_status', c) = Presence(c)
<1>1. Sampled = open
  BY DEF Sampled, RunKnows
<1>2. ProcessSen(m_data_hukong, open) /\ m_data_switch_status' = open
  BY <1>1 DEF PassHead
<1>3. /\ m_data_sen_status' \in [Codes -> BOOLEAN]
      /\ \A code \in Codes : m_data_sen_status'[code] <=> code \in Tripped(Sensing)
  BY <1>2, RestProcess
<1>4. RunKnows'
  BY <1>2, <1>3, RestPresence DEF RunKnows
<1> QED
  BY <1>3, <1>4, RestReads

\* Who takes a call with the presence there is tells the truth.
LEMMA RestSay ==
  ASSUME SensorsTypes, CallsTell, UNCHANGED <<open, m_data_hukong>>,
         NEW t \in Threads, NEW d \in Devices, Say(t, d, Presence(d))
  PROVE  CallsTell'
<1>1. call' = [call EXCEPT ![t] = [dev |-> d, has |-> Presence(d)]]
  BY DEF Say
<1>2. ASSUME NEW x \in Threads, call'[x] # None PROVE call'[x].has = Presence(call'[x].dev)
  BY <1>1, <1>2 DEF CallsTell, SensorsTypes
<1> QED
  BY <1>2, RestPresence DEF CallsTell

\* Who hears what a light or a curtain answers now has the truth to store.
LEMMA RestHear ==
  ASSUME SensorsTypes, AnswersTell, UNCHANGED <<open, told>>,
         NEW t \in Threads, NEW d, NEW says \in SUBSET Says(d), Hear(t, d, says)
  PROVE  AnswersTell'
<1>1. answer' = [answer EXCEPT ![t] = [dev |-> d, says |-> says]]
  BY DEF Hear
<1>2. ASSUME NEW x \in Threads, answer'[x].dev # 0
      PROVE  answer'[x].says \subseteq Says(answer'[x].dev)
  BY <1>1, <1>2 DEF AnswersTell, SensorsTypes
<1> QED
  BY <1>2 DEF AnswersTell, Says

\* A step that leaves these alone leaves them settled.
LEMMA RestUnchanged ==
  ASSUME UNCHANGED <<open, m_data_hukong>>
  PROVE  /\ RunKnows /\ UNCHANGED <<m_data_switch_status, m_data_sen_status>> => RunKnows'
         /\ LightsShow /\ UNCHANGED shown => LightsShow'
         /\ NoneForced /\ UNCHANGED forced => NoneForced'
         /\ DevicesKnow /\ UNCHANGED told => DevicesKnow'
         /\ CurtainsShow /\ UNCHANGED <<asked, told>> => CurtainsShow'
         /\ CallsTell /\ UNCHANGED call => CallsTell'
         /\ AnswersTell /\ UNCHANGED <<answer, told>> => AnswersTell'
BY RestPresence DEF RunKnows, LightsShow, NoneForced, DevicesKnow, CurtainsShow, CallsTell,
   AnswersTell, Says

LEMMA RestPartsNext ==
  AtRest' <=> /\ RunKnows' /\ LightsShow' /\ NoneForced' /\ DevicesKnow' /\ CurtainsShow'
              /\ CallsTell' /\ AnswersTell'
BY DEF AtRest, RunKnows, LightsShow, NoneForced, DevicesKnow, CurtainsShow, CallsTell,
   AnswersTell, Devices

\* What the house has to leave alone for the rest to last.
Quietly ==
  /\ UNCHANGED <<open, m_data_hukong>>
  /\ ~\E u \in Units : StartUnit(u) \/ RelayUnit(u, TRUE)

\* The presence there is, read from settled states, is what every call takes along.
LEMMA RestReadsNow ==
  ASSUME SensorsTypes, RunKnows
  PROVE  /\ \A u \in Units : HasManByXinfeng(m_data_sen_status, u) = Presence(u)
         /\ \A c \in Curtains : HasManByCurtain(m_data_sen_status, c) = Presence(c)
BY RestReads DEF RunKnows, SensorsTypes

\* The presence of a device is a truth value.
LEMMA PresenceIs ==
  ASSUME NEW d \in Devices
  PROVE  Presence(d) \in BOOLEAN
<1>1. CASE d \in Units
  <2>1. Presence(d) = (\E s \in Tripped(Human) : m_data_hukong.air[s] = d)
    BY <1>1 DEF Presence
  <2> QED
    BY <2>1, Zenon
<1>2. CASE d \notin Units
  <2>1. Presence(d) = (m_data_hukong.curtain[d] \in Tripped(Sensing))
    BY <1>2 DEF Presence
  <2> QED
    BY <2>1
<1> QED
  BY <1>1, <1>2

LEMMA RestRun ==
  ASSUME SensorsTypes, AtRest, Run, Quietly
  PROVE  AtRest'
<1> USE DEF Quietly, Parts
<1>1. Parts
  BY RestParts
<1>2. ASSUME PassHead, UNCHANGED <<shown, asked, forced, told>>, AnswersTell',
             UNCHANGED call \/ \E d \in Devices : Say("kongguan", d, Presence(d))
      PROVE  AtRest'
  <2>1. RunKnows'
    BY <1>1, <1>2, RestPassHead
  <2>2. CallsTell'
    BY <1>1, <1>2, RestSay, RestUnchanged DEF Threads
  <2>3. LightsShow' /\ NoneForced' /\ DevicesKnow' /\ CurtainsShow'
    BY <1>1, <1>2, RestUnchanged
  <2> QED
    BY <1>2, <2>1, <2>2, <2>3, RestPartsNext
<1>3. CASE Pass
  BY <1>1, <1>2, <1>3, RestUnchanged DEF Pass, cache
<1>4. ASSUME NEW table \in Tables, Configure(table) PROVE AtRest'
  BY <1>1, <1>2, <1>4, RestUnchanged DEF Configure, cache
<1>5. ASSUME NEW l \in Lights, RelayLight(l) PROVE AtRest'
  <2>1. PICK contacts \in shown[l] :
              LET now == (Sampled \ Of(l)) \cup contacts IN
              m_data_switch_status' = now /\ ProcessSen(m_data_hukong, now)
    BY <1>5 DEF RelayLight
  <2>2. contacts = open \cap Of(l)
    BY <1>1, <2>1 DEF LightsShow
  <2>3. (Sampled \ Of(l)) \cup contacts = open
    BY <1>1, <2>2 DEF Sampled, RunKnows
  <2>4. ProcessSen(m_data_hukong, open) /\ m_data_switch_status' = open
    BY <2>1, <2>3
  <2>5. RunKnows'
    BY <2>4, RestProcess, RestPresence DEF RunKnows
  <2>6. LightsShow' /\ NoneForced' /\ DevicesKnow' /\ CurtainsShow' /\ CallsTell' /\ AnswersTell'
    BY <1>1, <1>5, RestUnchanged DEF RelayLight, cache
  <2> QED
    BY <2>5, <2>6, RestPartsNext
<1>9. ASSUME NEW l \in Lights, RelaySetLight(l) PROVE AtRest'
  <2>1. AnswersTell'
    BY <1>1, <1>9, RestHear DEF RelaySetLight, Threads, Says
  <2> QED
    BY <1>2, <1>9, <2>1 DEF RelaySetLight, cache
<1>6. ASSUME NEW u \in Units, RelayUnit(u, FALSE) PROVE AtRest'
  <2>1. HasManByXinfeng(m_data_sen_status', u) = Presence(u)
    BY <1>1, <1>6, RestPassHead DEF RelayUnit
  <2>2. (FALSE \/ HasManByXinfeng(m_data_sen_status', u)) = Presence(u)
    BY <2>1, PresenceIs DEF Devices
  <2>3. Say("kongguan", u, Presence(u))
    BY <1>6, <2>2 DEF RelayUnit
  <2> QED
    BY <1>1, <1>2, <1>6, <2>3, RestUnchanged DEF RelayUnit, cache, Devices
<1>7. ASSUME NEW c \in Curtains, RelaySetCurtain(c) \/ RelayCurtain(c) PROVE AtRest'
  <2>1. PassHead /\ UNCHANGED <<shown, asked, forced, told, answer>>
    BY <1>7 DEF RelaySetCurtain, RelayCurtain, cache
  <2>2. HasManByCurtain(m_data_sen_status', c) = Presence(c)
    BY <1>1, <2>1, RestPassHead
  <2>3. UNCHANGED call \/ Say("kongguan", c, Presence(c))
    BY <1>7, <2>2 DEF RelaySetCurtain, RelayCurtain
  <2> QED
    BY <1>1, <1>2, <2>1, <2>3, RestUnchanged DEF Devices
<1>8. ASSUME NEW u \in Units, NEW someone \in BOOLEAN, RelayUnit(u, someone) PROVE AtRest'
  <2>1. someone = FALSE
    BY <1>8
  <2> QED
    BY <1>6, <1>8, <2>1
<1> QED
  BY <1>3, <1>4, <1>5, <1>7, <1>8, <1>9 DEF Run

\* A call of an RPC client or of TimerQuery that is begun and changes nothing else.
LEMMA RestCall ==
  ASSUME SensorsTypes, AtRest, UNCHANGED <<open, shown, asked, sensors, answer, told>>,
         NEW t \in Threads, NEW d \in Devices, Say(t, d, Presence(d)), NoneForced'
  PROVE  AtRest'
<1> USE DEF Parts
<1>1. Parts
  BY RestParts
<1>2. UNCHANGED <<open, m_data_hukong, m_data_switch_status, m_data_sen_status>>
  BY DEF sensors
<1>3. CallsTell'
  BY <1>1, <1>2, RestSay
<1>4. RunKnows' /\ LightsShow' /\ DevicesKnow' /\ CurtainsShow' /\ AnswersTell'
  BY <1>1, <1>2, RestUnchanged
<1> QED
  BY <1>3, <1>4, RestPartsNext

LEMMA RestCalls ==
  ASSUME SensorsTypes, AtRest, Rpc \/ TimerQuery, Quietly
  PROVE  AtRest'
<1> USE DEF Quietly, Parts
<1>1. Parts
  BY RestParts
<1>2. ASSUME NEW t \in {"rpc", "timer"}, NEW u \in Units, Aircondition(t, u) PROVE AtRest'
  <2>1. Say(t, u, Presence(u))
    BY <1>1, <1>2, RestReadsNow DEF Aircondition
  <2>2. NoneForced'
    BY <1>1, <1>2, RestUnchanged DEF Aircondition
  <2> QED
    BY <1>2, <2>1, <2>2, RestCall DEF Aircondition, cache, Devices, Threads
<1>3. ASSUME NEW c \in Curtains, Curtain(c) PROVE AtRest'
  <2>1. Say("rpc", c, Presence(c))
    BY <1>1, <1>3, RestReadsNow DEF Curtain
  <2>2. NoneForced'
    BY <1>1, <1>3, RestUnchanged DEF Curtain
  <2> QED
    BY <1>3, <2>1, <2>2, RestCall DEF Curtain, cache, Devices, Threads
<1>4. ASSUME NEW u \in Units, PollUnit(u) PROVE AtRest'
  <2>1. (forced[u] > 0) = FALSE
    BY <1>1 DEF NoneForced
  <2>2. Say("timer", u, Presence(u))
    <3>1. HasManByXinfeng(m_data_sen_status, u) = Presence(u) /\ Presence(u) \in BOOLEAN
      BY <1>1, RestReadsNow, PresenceIs DEF Devices
    <3> QED
      BY <1>4, <2>1, <3>1 DEF PollUnit
  <2>3. NoneForced'
    BY <1>1, <1>4 DEF PollUnit, NoneForced, SensorsTypes
  <2> QED
    BY <1>4, <2>2, <2>3, RestCall DEF PollUnit, cache, Devices, Threads
<1>5. ASSUME NEW l \in Lights, PollLight(l) \/ SwitchLight(l) PROVE AtRest'
  <2>1. PICK t \in {"rpc", "timer"} : Hear(t, l, {open \cap Of(l)})
    BY <1>5 DEF PollLight, SwitchLight
  <2>2. UNCHANGED <<open, cache, sensors, forced, call, told>>
    BY <1>5 DEF PollLight, SwitchLight
  <2>3. AnswersTell'
    BY <1>1, <2>1, <2>2, RestHear DEF Threads, Says
  <2> QED
    BY <1>1, <2>2, <2>3, RestUnchanged, RestPartsNext DEF sensors, cache
<1>6. ASSUME NEW c \in Curtains, PollCurtain(c) PROVE AtRest'
  <2>1. {told[c]} \subseteq Says(c)
    BY SensorsAssumption DEF Says
  <2>2. AnswersTell'
    BY <1>1, <1>6, <2>1, RestHear DEF PollCurtain, Threads
  <2> QED
    BY <1>1, <1>6, <2>2, RestUnchanged, RestPartsNext DEF PollCurtain, sensors, cache
<1>7. ASSUME NEW d \in Lights \cup Curtains, PollFails(d) PROVE AtRest'
  <2>1. AnswersTell'
    BY <1>1, <1>7, RestHear DEF PollFails, Threads, Unknown
  <2> QED
    BY <1>1, <1>7, <2>1, RestUnchanged, RestPartsNext DEF PollFails, sensors, cache
<1> QED
  BY <1>2, <1>3, <1>4, <1>5, <1>6, <1>7 DEF Rpc, TimerQuery

LEMMA RestExchange ==
  ASSUME SensorsTypes, AtRest, NEW t \in Threads, Exchange(t) \/ ExchangeFails(t), Quietly
  PROVE  AtRest'
<1> USE DEF Quietly, Parts
<1>1. Parts
  BY RestParts
<1>2. CallsTell'
  <2>1. call' = [call EXCEPT ![t] = None]
    BY DEF Exchange, ExchangeFails
  <2>2. ASSUME NEW x \in Threads, call'[x] # None PROVE call'[x].has = Presence(call'[x].dev)
    BY <1>1, <2>1, <2>2 DEF CallsTell, SensorsTypes
  <2> QED
    BY <2>2, RestPresence DEF CallsTell
<1>3. CASE Exchange(t)
  <2>1. call[t].has = Presence(call[t].dev) /\ call[t].dev \in Devices
    BY <1>1, <1>3 DEF Exchange, CallsTell, SensorsTypes, Calls
  <2>2. told' = told
    BY <1>1, <1>3, <2>1 DEF Exchange, DevicesKnow, SensorsTypes
  <2>3. DevicesKnow'
    BY <1>1, <2>2, RestUnchanged
  <2>4. AnswersTell'
    <3>1. CASE call[t].dev \in Curtains
      <4>1. {call[t].has} \subseteq Says(call[t].dev)
        BY <1>1, <2>1, <3>1, SensorsAssumption DEF Says, DevicesKnow
      <4> QED
        BY <1>1, <1>3, <2>2, <3>1, <4>1, RestHear DEF Exchange
    <3>2. CASE call[t].dev \notin Curtains
      BY <1>1, <1>3, <2>2, <3>2, RestUnchanged DEF Exchange
    <3> QED
      BY <3>1, <3>2
  <2> QED
    BY <1>1, <1>2, <1>3, <2>2, <2>3, <2>4, RestUnchanged, RestPartsNext DEF Exchange, sensors, cache
<1>4. CASE ExchangeFails(t)
  BY <1>1, <1>2, <1>4, RestUnchanged, RestPartsNext DEF ExchangeFails, sensors, cache
<1> QED
  BY <1>3, <1>4

\* An answer that agrees with its device is stored without harm.
LEMMA RestStore ==
  ASSUME SensorsTypes, AtRest, NEW t \in Threads, Store(t), Quietly
  PROVE  AtRest'
<1> DEFINE d == answer[t].dev
           now(contacts) == (m_data_switch_status \ Of(d)) \cup contacts
<1> USE DEF Quietly, Parts
<1>1. Parts
  BY RestParts
<1>2. answer[t].says \subseteq Says(d)
  BY <1>1 DEF Store, AnswersTell
<1>3. LightsShow'
  BY <1>1, <1>2 DEF Store, LightsShow, Says, SensorsTypes, Of
<1>4. CurtainsShow'
  BY <1>1, <1>2, SensorsAssumption DEF Store, CurtainsShow, Says, SensorsTypes
<1>5. AnswersTell'
  <2>1. answer' = [answer EXCEPT ![t] = NoAnswer] /\ UNCHANGED told
    BY DEF Store
  <2>2. ASSUME NEW x \in Threads, answer'[x].dev # 0
        PROVE  answer'[x].says \subseteq Says(answer'[x].dev)
    BY <1>1, <2>1, <2>2 DEF AnswersTell, SensorsTypes, NoAnswer
  <2> QED
    BY <2>1, <2>2 DEF AnswersTell, Says
<1>6. RunKnows'
  <2>1. CASE t = "kongguan" /\ d \in Lights
    <3>1. PICK contacts \in answer[t].says :
                m_data_switch_status' = now(contacts) /\ ProcessSen(m_data_hukong, now(contacts))
      BY <2>1 DEF Store
    <3>2. contacts = open \cap Of(d)
      BY <1>2, <2>1, <3>1 DEF Says
    <3>3. now(contacts) = open
      BY <1>1, <3>2 DEF RunKnows
    <3>4. ProcessSen(m_data_hukong, open) /\ m_data_switch_status' = open
      BY <3>1, <3>3
    <3> QED
      BY <3>4, RestProcess, RestPresence DEF RunKnows
  <2>2. CASE ~(t = "kongguan" /\ d \in Lights)
    BY <1>1, <2>2, RestUnchanged DEF Store
  <2> QED
    BY <2>1, <2>2
<1>7. NoneForced' /\ DevicesKnow' /\ CallsTell'
  BY <1>1, RestUnchanged DEF Store
<1> QED
  BY <1>3, <1>4, <1>5, <1>6, <1>7, RestPartsNext

\* What has come to rest stays at rest until a contact, a table or an order to
\* overrule the sensors changes it, for any house: no poll, cached answer,
\* relayed frame, call or failure brings an older presence back.
THEOREM RestAlwaysLasts == Spec => RestLasts
<1>1. ASSUME SensorsTypes, AtRest, [Next]_vars, Quietly PROVE AtRest'
  <2>1. ASSUME NEW i \in Inputs, Trip(i) PROVE FALSE
    BY <1>1, <2>1 DEF Trip, Quietly
  <2>2. CASE UNCHANGED vars
    <3>1. /\ RunKnows' /\ LightsShow' /\ NoneForced' /\ DevicesKnow' /\ CurtainsShow' /\ CallsTell'
          /\ AnswersTell'
      BY <1>1, <2>2, RestParts, RestUnchanged DEF Parts, vars, cache, sensors
    <3> QED
      BY <3>1, RestPartsNext
  <2> QED
    BY <1>1, <2>1, <2>2, RestRun, RestCalls, RestExchange, RestStore DEF Next
<1>2. SensorsTypes /\ [Next]_vars =>
        [/\ AtRest
         /\ UNCHANGED <<open, m_data_hukong>>
         /\ ~\E u \in Units : StartUnit(u) \/ RelayUnit(u, TRUE)
         => AtRest']_vars
  BY <1>1 DEF Quietly
<1> QED
  BY <1>2, SensorsTyped, PTL DEF Spec, RestLasts
=============================================================================
