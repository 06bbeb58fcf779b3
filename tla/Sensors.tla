------------------------------- MODULE Sensors -------------------------------
(***************************************************************************)
(* How a tripped contact becomes presence and alarms (RepeatComm).         *)
(*                                                                         *)
(* Each pass of RepeatComm::Run reads the contacts of the household        *)
(* controller; those of the light controllers arrive when the master asks  *)
(* for a light, from the answer TimerQuery last left in the query cache.   *)
(* ProcessSen turns contacts into sensor states by the tables the master   *)
(* sends, RPC clients read these as presence and alarms, and fresh-air     *)
(* units and curtains are told of presence by whoever addresses them.      *)
(*                                                                         *)
(* Run holds m_mutex for a whole pass, its exchanges on the bus included.  *)
(* RPC calls and TimerQuery hold it to read and exchange without it, so    *)
(* what they say may be old.  So may what they hear: an answer goes into   *)
(* the cache after the bus is free again, when another thread may have had *)
(* and stored a newer one.  Once TimerQuery has polled a kind of device    *)
(* nobody else's queries of that kind leave the cache (Transform), so they *)
(* are no steps here.                                                      *)
(***************************************************************************)
EXTENDS Naturals, FiniteSets

CONSTANTS
    Inputs,     \* contacts: those of the controller and of the lights
    Lights,     \* addresses of the light controllers
    Dev,        \* Inputs -> {0} \cup Lights: whose contact it is, 0 the controller's
    Units,      \* addresses of the fresh-air units
    Curtains,   \* addresses of the curtains
    Tables,     \* the tables the master may send
    MaxTrips,   \* bound: changes of a contact
    MaxCalls,   \* bound: commands from RPC clients and from the master
    MaxTables,  \* bound: tables sent
    MaxFaults   \* bound: exchanges that fail

Human == 1 .. 8
Water == 9 .. 12
Gas == 13
Codes == 0 .. 15
GetSenType(code) ==
    CASE code \in Human -> "human" [] code \in Water -> "water"
      [] code = Gas -> "gas" [] OTHER -> "null"

\* Of the tables: the code of each contact, the unit each sensor is linked to,
\* the sensor of each curtain, the number of presence probes.
Table == [input : [Inputs -> Codes], air : [Human -> Codes],
          curtain : [Curtains -> Codes], probes : Nat]
Threads == {"kongguan", "timer", "rpc"}

ASSUME SensorsAssumption ==
    /\ Dev \in [Inputs -> {0} \cup Lights] /\ 0 \notin Lights
    /\ Units \cap Curtains = {} /\ 0 \notin Units \cup Curtains
    /\ Lights \cap Curtains = {}
    /\ Tables \subseteq Table /\ Tables # {}

VARIABLES
    open,                  \* the contacts that are open: tripped
    shown,                 \* cache: the open contacts each light last answered
    asked,                 \* cache: what each curtain last said it was told
    m_data_switch_status,  \* the open contacts as Run knows them
    m_data_hukong,         \* the tables
    m_data_sen_status,     \* sensor states by code
    forced,                \* polls of a unit that still have to say "someone"
    call,                  \* the presence a thread is about to send, and to whom
    answer,                \* what a thread was told by whom and has still to store
    told,                  \* what each unit and curtain was last told
    budget                 \* trips, calls, tables and faults so far

cache == <<shown, asked>>
sensors == <<m_data_switch_status, m_data_hukong, m_data_sen_status>>
vars == <<open, cache, sensors, forced, call, answer, told, budget>>

\* A cache has at most one answer of a device; a poll that failed has none.
Unknown == {}
None == [dev |-> 0, has |-> FALSE]
NoAnswer == [dev |-> 0, says |-> Unknown]
Idle(t) == call[t] = None /\ answer[t].dev = 0
Hear(t, d, says) == answer' = [answer EXCEPT ![t] = [dev |-> d, says |-> says]]
Of(d) == {i \in Inputs : Dev[i] = d}
Spend(k, max) == budget[k] < max /\ budget' = [budget EXCEPT ![k] = @ + 1]

Init ==
    /\ open = {}
    /\ shown = [l \in Lights |-> Unknown]
    /\ asked = [c \in Curtains |-> Unknown]
    /\ m_data_switch_status = {}
    /\ m_data_hukong \in Tables
    /\ m_data_sen_status = [code \in Codes |-> FALSE]
    /\ forced = [u \in Units |-> 0]
    /\ call = [t \in Threads |-> None]
    /\ answer = [t \in Threads |-> NoAnswer]
    /\ told \in [Units \cup Curtains -> BOOLEAN]
    /\ budget = [k \in {"trips", "calls", "tables", "faults"} |-> 0]
-----------------------------------------------------------------------------
(* A pass of Run.                                                          *)

MutexFree == Idle("kongguan")

\* A sensor is tripped if any contact bound to it is.
ProcessSen(table, switches) ==
    m_data_sen_status' =
        [code \in Codes |->
            GetSenType(code) # "null" /\ \E i \in switches : table.input[i] = code]

\* The head of each pass: the controller's own contacts are read.
Sampled == (open \cap Of(0)) \cup (m_data_switch_status \ Of(0))

PassHead ==
    /\ MutexFree
    /\ m_data_switch_status' = Sampled
    /\ ProcessSen(m_data_hukong, Sampled)

Pass ==
    /\ PassHead
    /\ UNCHANGED <<open, cache, m_data_hukong, forced, call, answer, told, budget>>

\* 0x41: new tables; the sensor states follow with the next pass.
Configure(table) ==
    /\ PassHead
    /\ Spend("tables", MaxTables)
    /\ m_data_hukong' = table
    /\ UNCHANGED <<open, cache, forced, call, answer, told>>

\* Mutant: the answer of one light replaces the contacts of all.
RelayLightAlone(l) ==
    /\ MutexFree
    /\ \E contacts \in shown[l] :
         m_data_switch_status' = contacts /\ ProcessSen(m_data_hukong, contacts)
    /\ UNCHANGED <<open, cache, m_data_hukong, forced, call, answer, told, budget>>

\* 0x44: the contacts of the light come with its answer, out of the cache.
RelayLight(l) ==
    /\ MutexFree
    /\ \E contacts \in shown[l] :
         LET now == (Sampled \ Of(l)) \cup contacts IN
         m_data_switch_status' = now /\ ProcessSen(m_data_hukong, now)
    /\ UNCHANGED <<open, cache, m_data_hukong, forced, call, answer, told, budget>>

\* 0x43: the light itself answers; Run holds m_mutex until it has stored that.
RelaySetLight(l) ==
    /\ PassHead
    /\ Spend("calls", MaxCalls)
    /\ Hear("kongguan", l, {open \cap Of(l)})
    /\ UNCHANGED <<open, cache, m_data_hukong, forced, call, told>>

HasManByXinfeng(sen, u) == \E s \in Human : m_data_hukong.air[s] = u /\ sen[s]
HasManByCurtain(sen, c) == sen[m_data_hukong.curtain[c]]

Say(t, d, has) == call' = [call EXCEPT ![t] = [dev |-> d, has |-> has]]

\* 0x47: the master's own "someone" overrules the sensors.
RelayUnit(u, someone) ==
    /\ PassHead
    /\ Spend("calls", MaxCalls)
    /\ Say("kongguan", u, someone \/ HasManByXinfeng(m_data_sen_status', u))
    /\ UNCHANGED <<open, cache, m_data_hukong, forced, answer, told>>

\* 0x45
RelaySetCurtain(c) ==
    /\ PassHead
    /\ Spend("calls", MaxCalls)
    /\ Say("kongguan", c, HasManByCurtain(m_data_sen_status', c))
    /\ UNCHANGED <<open, cache, m_data_hukong, forced, answer, told>>

\* Mutant: what the curtain was told is not compared.
RelayCurtainOnly(c) ==
    /\ PassHead
    /\ asked[c] # Unknown
    /\ UNCHANGED <<open, cache, m_data_hukong, forced, call, answer, told, budget>>

\* 0x46: a curtain whose answer does not match the sensors is told at once.
\* (So is one that does not know season, sun or temperature: for its presence
\* that is RelaySetCurtain.)
RelayCurtain(c) ==
    /\ PassHead
    /\ asked[c] # Unknown
    /\ IF asked[c] # {HasManByCurtain(m_data_sen_status', c)}
         THEN Say("kongguan", c, HasManByCurtain(m_data_sen_status', c))
         ELSE UNCHANGED call
    /\ UNCHANGED <<open, cache, m_data_hukong, forced, answer, told, budget>>
-----------------------------------------------------------------------------
(* Calls of RPC clients, and TimerQuery.                                    *)

\* aircondition, from RPC or with a changed fire alarm from TimerQuery
Aircondition(t, u) ==
    /\ MutexFree /\ Idle(t)
    /\ Spend("calls", MaxCalls)
    /\ Say(t, u, HasManByXinfeng(m_data_sen_status, u))
    /\ UNCHANGED <<open, cache, sensors, forced, answer, told>>

\* aircondition_svm that turns the unit on: it has to hear "someone", now and
\* in the next two polls.
StartUnit(u) ==
    /\ MutexFree /\ Idle("rpc")
    /\ Spend("calls", MaxCalls)
    /\ forced' = [forced EXCEPT ![u] = 2]
    /\ Say("rpc", u, TRUE)
    /\ UNCHANGED <<open, cache, sensors, answer, told>>

Curtain(c) ==
    /\ MutexFree /\ Idle("rpc")
    /\ Spend("calls", MaxCalls)
    /\ Say("rpc", c, HasManByCurtain(m_data_sen_status, c))
    /\ UNCHANGED <<open, cache, sensors, forced, answer, told>>

\* Mutant: the polls are not counted.
PollUnitForced(u) ==
    /\ MutexFree /\ Idle("timer")
    /\ Say("timer", u, forced[u] > 0 \/ HasManByXinfeng(m_data_sen_status, u))
    /\ UNCHANGED <<open, cache, sensors, forced, answer, told, budget>>

\* query_aircondition of TimerQuery
PollUnit(u) ==
    /\ MutexFree /\ Idle("timer")
    /\ Say("timer", u, forced[u] > 0 \/ HasManByXinfeng(m_data_sen_status, u))
    /\ forced' = [forced EXCEPT ![u] = IF @ > 0 THEN @ - 1 ELSE 0]
    /\ UNCHANGED <<open, cache, sensors, answer, told, budget>>

\* light_switch of an RPC client
SwitchLight(l) ==
    /\ Idle("rpc")
    /\ Spend("calls", MaxCalls)
    /\ Hear("rpc", l, {open \cap Of(l)})
    /\ UNCHANGED <<open, cache, sensors, forced, call, told>>

PollLight(l) ==
    /\ Idle("timer")
    /\ Hear("timer", l, {open \cap Of(l)})
    /\ UNCHANGED <<open, cache, sensors, forced, call, told, budget>>

PollCurtain(c) ==
    /\ Idle("timer")
    /\ Hear("timer", c, {told[c]})
    /\ UNCHANGED <<open, cache, sensors, forced, call, told, budget>>

\* A poll that fails is going to erase what it should have refreshed.
PollFails(d) ==
    /\ Idle("timer")
    /\ Spend("faults", MaxFaults)
    /\ Hear("timer", d, Unknown)
    /\ UNCHANGED <<open, cache, sensors, forced, call, told>>

\* The exchange on the bus; a curtain repeats what it was told.
Exchange(t) ==
    /\ call[t] # None
    /\ told' = [told EXCEPT ![call[t].dev] = call[t].has]
    /\ call' = [call EXCEPT ![t] = None]
    /\ IF call[t].dev \in Curtains THEN Hear(t, call[t].dev, {call[t].has}) ELSE UNCHANGED answer
    /\ UNCHANGED <<open, cache, sensors, forced, budget>>

ExchangeFails(t) ==
    /\ call[t] # None
    /\ Spend("faults", MaxFaults)
    /\ call' = [call EXCEPT ![t] = None]
    /\ UNCHANGED <<open, cache, sensors, forced, answer, told>>

\* The bus is free again: the answer goes into the cache, and Run keeps the
\* contacts of the light it has set.
Store(t) ==
    LET d == answer[t].dev IN
    /\ d # 0
    /\ shown' = [l \in Lights |-> IF l = d THEN answer[t].says ELSE shown[l]]
    /\ asked' = [c \in Curtains |-> IF c = d THEN answer[t].says ELSE asked[c]]
    /\ IF t = "kongguan" /\ d \in Lights
         THEN \E contacts \in answer[t].says :
                LET now == (m_data_switch_status \ Of(d)) \cup contacts IN
                m_data_switch_status' = now /\ ProcessSen(m_data_hukong, now)
         ELSE UNCHANGED <<m_data_switch_status, m_data_sen_status>>
    /\ answer' = [answer EXCEPT ![t] = NoAnswer]
    /\ UNCHANGED <<open, m_data_hukong, forced, call, told, budget>>
-----------------------------------------------------------------------------
\* The house: a contact opens or closes.
Trip(i) ==
    /\ Spend("trips", MaxTrips)
    /\ open' = IF i \in open THEN open \ {i} ELSE open \cup {i}
    /\ UNCHANGED <<cache, sensors, forced, call, answer, told>>

Run ==
    \/ Pass
    \/ \E table \in Tables : Configure(table)
    \/ \E l \in Lights : RelayLight(l) \/ RelaySetLight(l)
    \/ \E u \in Units, someone \in BOOLEAN : RelayUnit(u, someone)
    \/ \E c \in Curtains : RelaySetCurtain(c) \/ RelayCurtain(c)

Rpc ==
    \/ \E u \in Units : Aircondition("rpc", u) \/ StartUnit(u)
    \/ \E c \in Curtains : Curtain(c)
    \/ \E l \in Lights : SwitchLight(l)

TimerQuery ==
    \/ \E u \in Units : PollUnit(u) \/ Aircondition("timer", u)
    \/ \E l \in Lights : PollLight(l)
    \/ \E c \in Curtains : PollCurtain(c)
    \/ \E d \in Lights \cup Curtains : PollFails(d)

Next ==
    \/ Run
    \/ Rpc
    \/ TimerQuery
    \/ \E t \in Threads : Exchange(t) \/ ExchangeFails(t) \/ Store(t)
    \/ \E i \in Inputs : Trip(i)

Spec == Init /\ [][Next]_vars

\* Run loops, exchanges end (Transform, BusReleased), TimerQuery polls every
\* device again and again (TimerQuery, EveryDevicePolled) and the master asks
\* for every light and curtain again and again.
Fairness ==
    /\ WF_vars(Pass)
    /\ \A t \in Threads : WF_vars(Exchange(t)) /\ WF_vars(Store(t))
    /\ \A u \in Units : SF_vars(PollUnit(u))
    /\ \A l \in Lights : SF_vars(PollLight(l)) /\ SF_vars(RelayLight(l))
    /\ \A c \in Curtains : SF_vars(PollCurtain(c)) /\ SF_vars(RelayCurtain(c))

FairSpec == Spec /\ Fairness
-----------------------------------------------------------------------------
(* What RPC clients read.                                                   *)

\* As many sensors as there are probes, whatever their numbers.
Reported == {s \in Human : s <= m_data_hukong.probes}
GetSenStatus == {s \in Reported : m_data_sen_status[s]}
QueryInnerAlarm ==
    [water |-> \E s \in Water : m_data_sen_status[s], gas |-> m_data_sen_status[Gas]]

(* Properties.                                                             *)

Tripped(S) == {s \in S : \E i \in open : m_data_hukong.input[i] = s}

\* When contacts and tables have come to rest, RPC clients read the presence
\* of the sensors they are shown and the alarms exactly as the contacts bound to
\* them are open, whatever was polled, relayed, lost or cached before.
SensorsSettle ==
    <>[](/\ GetSenStatus = Tripped(Reported)
         /\ QueryInnerAlarm = [water |-> Tripped(Water) # {}, gas |-> Tripped({Gas}) # {}])

\* A fresh-air unit ends up with the presence of the sensors linked to it:
\* an order to start it, the master's "someone" and answers under way when the
\* sensors changed do not last.
UnitsFollow ==
    \A u \in Units :
        <>[](told[u] = \E s \in Tripped(Human) : m_data_hukong.air[s] = u)

\* So does a curtain that is linked to a presence sensor, though TimerQuery
\* only asks and never tells it.
CurtainsFollow ==
    \A c \in Curtains :
        <>[](m_data_hukong.curtain[c] \in Human =>
                (told[c] <=> m_data_hukong.curtain[c] \in Tripped(Human)))

\* What the contacts and tables as they are have to tell of a device.
Sensing == {code \in Codes : GetSenType(code) # "null"}
Presence(d) == IF d \in Units THEN \E s \in Tripped(Human) : m_data_hukong.air[s] = d
                              ELSE m_data_hukong.curtain[d] \in Tripped(Sensing)

\* What a light or a curtain answers now.
Says(d) == IF d \in Lights THEN {open \cap Of(d)} ELSE {told[d]}

\* Whatever knows of the contacts knows them as they are: Run, the cache, the
\* sensor states, the devices, the threads that are about to tell them and the
\* answers that have still to be stored.
AtRest ==
    /\ m_data_switch_status = open
    /\ \A l \in Lights : shown[l] \subseteq {open \cap Of(l)}
    /\ \A code \in Codes : m_data_sen_status[code] <=> code \in Tripped(Sensing)
    /\ \A u \in Units : forced[u] = 0
    /\ \A d \in Units \cup Curtains : told[d] = Presence(d)
    /\ \A c \in Curtains : asked[c] \subseteq {told[c]}
    /\ \A t \in Threads : call[t] # None => call[t].has = Presence(call[t].dev)
    /\ \A t \in Threads : answer[t].dev # 0 => answer[t].says \subseteq Says(answer[t].dev)

\* What has come to rest stays at rest until the house changes it: a contact, a
\* new table, an order to overrule the sensors.  No poll, no cached answer, no
\* relayed frame, no other call and no failure brings an older presence back.
RestLasts ==
    [][/\ AtRest
       /\ UNCHANGED <<open, m_data_hukong>>
       /\ ~\E u \in Units : StartUnit(u) \/ RelayUnit(u, TRUE)
       => AtRest']_vars

\* The protocol document gives a curtain the codes 1 to 8 of the presence
\* sensors and 9 for "not linked": a leak is nobody's presence, so a curtain is
\* only told of someone when a presence sensor is tripped.
LeaksAreNoPresence ==
    [][\A t \in Threads :
         (call'[t] # call[t] /\ call'[t].dev \in Curtains /\ call'[t].has)
            => \E s \in Human : m_data_sen_status'[s]]_vars
=============================================================================
