------------------------------ MODULE Settings ------------------------------
(***************************************************************************)
(* The settings of RepeatComm (src/src/repeat_comm.cpp) and their file     *)
(* /etc/server485.dat: m_data_setting, m_data_hukong and m_data_others,    *)
(* which frames of the master unit and RPC calls change, Save writes one   *)
(* section at a time and Load reads back when the program starts.          *)
(*                                                                         *)
(* m_data_setting is a function from the fields the program knows to their *)
(* values, 0 being what a frame says when it leaves a field open.  Answers *)
(* are not modelled, nor what lives for them only (m_bInnerAirDetection);  *)
(* m_bFireAlarm and m_isDevChange are in TimerQuery.                       *)
(***************************************************************************)
EXTENDS Integers, FiniteSets

CONSTANTS Fields,       \* fields of m_data_setting
          Vals,         \* their values; 0: left open
          Guarded,      \* fields that keep their old value if left open
          Compared,     \* fields whose change makes the program save
          ByRpc,        \* fields that RPC calls set
          Ranged,       \* fields whose RPC call refuses a value out of range
          LIGHT,        \* the light-off time, one of the guarded fields
          TEMP,         \* the room temperature, not compared
          Default,      \* m_data_setting as the constructor sets it
          Frames,       \* contents of the 0x81 frames
          Offered,      \* values RPC callers offer
          Counts, COUNT_MAX,       \* device counts: the values of a byte, the cap
          Rooms, MAX_ROOM,         \* room numbers, the cap
          DefaultCount, DefaultRoom,
          Delivered,    \* sections the file holds at first
          MaxFaults     \* bound: failed saves

Sections == {"setting", "hukong", "others"}
None     == -1          \* no temperature to pass on

ASSUME FieldAssumption ==
  /\ Vals \subseteq Nat /\ 0 \in Vals
  /\ Guarded \subseteq Compared /\ Compared \subseteq Fields /\ ByRpc \subseteq Fields
  /\ LIGHT \in Guarded /\ Guarded \subseteq Ranged
  /\ TEMP \in Fields \ Compared
  /\ Default \in [Fields -> Vals]
  /\ \A f \in Guarded : Default[f] # 0
  /\ Frames \subseteq [Fields -> Vals]
  /\ "hukong" \notin Fields /\ "internet" \notin Fields

ASSUME CountAssumption ==
  /\ COUNT_MAX \in Nat /\ Counts \subseteq Nat /\ 0 .. COUNT_MAX \subseteq Counts
  /\ MAX_ROOM \in Nat \ {0} /\ Rooms \subseteq Nat /\ 0 .. MAX_ROOM \subseteq Rooms
  /\ DefaultCount \in Counts
  /\ DefaultRoom \in 1 .. MAX_ROOM
  /\ Delivered \subseteq Sections
  /\ MaxFaults \in Nat

Hukong == [count : Counts, room : Rooms]
DefaultHukong == [count |-> DefaultCount, room |-> DefaultRoom]

VARIABLES
  setting,       \* m_data_setting
  hukong,        \* m_data_hukong: device counts and room number
  internet,      \* m_data_others.isInternet
  sync,          \* m_sync_xinfeng_temp, None for -1
  bindChange,    \* m_isBindChange
  written,       \* sections of the data file that have been written
  fileSetting, fileHukong, fileInternet,    \* their contents
  client,        \* where the caller of is_bind_change is
  answer,        \* bTemp of IsBindChange
  faults,        \* failed saves so far
  unsaved,       \* history: what was changed since it was saved last
  stale,         \* history: the tables have changed since the caller read them
  missed         \* history: a change fell between reading and clearing the flag

memVars    == <<setting, hukong, internet, sync>>
fileVars   == <<written, fileSetting, fileHukong, fileInternet>>
clientVars == <<client, answer, missed>>
vars == <<memVars, bindChange, fileVars, clientVars, faults, unsaved, stale>>

\* Load reads every section into the same buffer: past the end of the file it
\* still holds the section read before, or was never written at all.
LoadedHukong ==
  CASE "hukong" \in written -> {fileHukong}
    [] "hukong" \notin written /\ "others" \in written -> {DefaultHukong}
    [] written = {"setting"} -> Hukong
    [] written = {} -> {DefaultHukong}

\* Sections never written have their initial contents here: the defaults.
LoadedSetting  == fileSetting
LoadedInternet == fileInternet

\* The constructor: defaults, then Load.
Init ==
  /\ written = Delivered
  /\ fileSetting = Default
  /\ fileHukong = DefaultHukong
  /\ fileInternet = FALSE
  /\ setting = LoadedSetting
  /\ hukong \in LoadedHukong
  /\ internet = LoadedInternet
  /\ sync = None
  /\ bindChange = TRUE
  /\ client = "idle"
  /\ answer = FALSE
  /\ faults = 0
  /\ unsaved = {}
  /\ stale = TRUE
  /\ missed = FALSE

-----------------------------------------------------------------------------
(* Save.                                                                   *)

\* Section s is written from the memory it keeps; items are what it holds.
\* If the file cannot be opened nothing is written.
Save(s, items, newSetting, newHukong, newInternet) ==
  \/ /\ written' = written \cup {s}
     /\ fileSetting' = IF s = "setting" THEN newSetting ELSE fileSetting
     /\ fileHukong' = IF s = "hukong" THEN newHukong ELSE fileHukong
     /\ fileInternet' = IF s = "others" THEN newInternet ELSE fileInternet
     /\ unsaved' = unsaved \ items
     /\ UNCHANGED faults
  \/ /\ faults < MaxFaults
     /\ faults' = faults + 1
     /\ unsaved' = unsaved \cup items
     /\ UNCHANGED fileVars

NoSave(changed) ==
  /\ unsaved' = unsaved \cup changed
  /\ UNCHANGED <<fileVars, faults>>

-----------------------------------------------------------------------------
(* Frames of the master unit, under m_mutex.                               *)

\* Mutant: a field left open is taken over.
MergeOpen(frame) == frame

\* A guarded field that the frame leaves open keeps its old value.
Merge(frame) ==
  [f \in Fields |-> IF f \in Guarded /\ frame[f] = 0 THEN setting[f] ELSE frame[f]]

\* Mutant: only the guarded fields are compared.
ChangedGuarded(frame) == \E f \in Guarded : setting[f] # frame[f]

\* The comparison before Save: with the frame, not with what is taken over.
Changed(frame) == \E f \in Compared : setting[f] # frame[f]

\* A temperature that RPC has set wins over that of the frame, once.
Override(s) == IF sync = None THEN s ELSE [s EXCEPT ![TEMP] = sync]

\* 0x81.  The temperature of RPC comes in after the save.
SetFrame(frame) ==
  /\ setting' = Override(Merge(frame))
  /\ sync' = None
  /\ LET relit == frame[LIGHT] # 0 /\ frame[LIGHT] # setting[LIGHT] IN
     /\ bindChange' = (bindChange \/ relit)
     /\ stale' = (stale \/ relit)
  /\ \/ /\ Changed(frame)
        /\ Save("setting", Fields \ {TEMP}, Merge(frame), hukong, internet)
     \/ /\ ~Changed(frame)
        /\ NoSave({})
  /\ UNCHANGED <<hukong, internet, clientVars>>

\* 0x01: the query frame keeps no field of these, but takes RPC's temperature over.
QueryFrame ==
  /\ sync # None
  /\ setting' = Override(setting)
  /\ sync' = None
  /\ NoSave({})
  /\ UNCHANGED <<hukong, internet, bindChange, stale, clientVars>>

\* 0x47 for a fresh-air unit also sets the room temperature.
UnitFrame(t) ==
  /\ setting' = [setting EXCEPT ![TEMP] = t]
  /\ NoSave({})
  /\ UNCHANGED <<hukong, internet, sync, bindChange, stale, clientVars>>

Least(a, b) == IF a < b THEN a ELSE b

\* Mutant: room 0 is taken over.
NormalZero(h) == [count |-> Least(h.count, COUNT_MAX), room |-> Least(h.room, MAX_ROOM)]

\* The checks on a 0x41 frame.
Normal(h) ==
  [count |-> Least(h.count, COUNT_MAX),
   room  |-> IF h.room = 0 THEN 1 ELSE Least(h.room, MAX_ROOM)]

\* 0x41.
HukongFrame(h) ==
  /\ hukong' = Normal(h)
  /\ bindChange' = TRUE
  /\ stale' = TRUE
  /\ Save("hukong", {"hukong"}, setting, Normal(h), internet)
  /\ UNCHANGED <<setting, internet, sync, clientVars>>

-----------------------------------------------------------------------------
(* RPC calls.                                                              *)

\* Mutant: the flag is not raised.
SetFieldQuiet(f, v) ==
  /\ v \in Vals
  /\ f \in Ranged => v # 0
  /\ setting' = [setting EXCEPT ![f] = v]
  /\ bindChange' = bindChange
  /\ stale' = (stale \/ f = LIGHT)
  /\ NoSave({f})
  /\ UNCHANGED <<hukong, internet, sync, clientVars>>

\* SetLightOffTime, SetCurtainOffTime, SetDustTime and SetXinfengTimeCtrl
\* refuse a value out of range, SetXinfengWindarea takes what fits its field;
\* none of them saves.
SetField(f, v) ==
  /\ v \in Vals
  /\ f \in Ranged => v # 0
  /\ setting' = [setting EXCEPT ![f] = v]
  /\ bindChange' = (bindChange \/ f = LIGHT)
  /\ stale' = (stale \/ f = LIGHT)
  /\ NoSave({f})
  /\ UNCHANGED <<hukong, internet, sync, clientVars>>

\* aircondition for unit 1 leaves the temperature for the master unit.
Aircondition(t) ==
  /\ sync' = t
  /\ NoSave({})
  /\ UNCHANGED <<setting, hukong, internet, bindChange, stale, clientVars>>

\* set_device_count saves, the scan for devices does not; neither checks caps.
SetDeviceCount(n, bSave) ==
  LET h == [hukong EXCEPT !.count = n] IN
  /\ hukong' = h
  /\ bindChange' = TRUE
  /\ stale' = TRUE
  /\ IF bSave THEN Save("hukong", {"hukong"}, setting, h, internet) ELSE NoSave({"hukong"})
  /\ UNCHANGED <<setting, internet, sync, clientVars>>

SetTimeSynInternet(b) ==
  /\ internet' = b
  /\ Save("others", {"internet"}, setting, hukong, b)
  /\ UNCHANGED <<setting, hukong, sync, bindChange, stale, clientVars>>

\* SetTime notes that there is a network, but does not save it.
SetTime ==
  /\ internet' = TRUE
  /\ NoSave({"internet"})
  /\ UNCHANGED <<setting, hukong, sync, bindChange, stale, clientVars>>

\* is_bind_change, without a lock: read the flag, ...
ReadBindChange ==
  /\ client = "idle"
  /\ answer' = bindChange
  /\ client' = "clear"
  /\ UNCHANGED <<memVars, bindChange, fileVars, missed, faults, unsaved, stale>>

\* ... clear it, return what was read.
ClearBindChange ==
  /\ client = "clear"
  /\ bindChange' = FALSE
  /\ client' = IF answer THEN "fetch" ELSE "idle"
  /\ answer' = FALSE
  /\ missed' = (missed \/ (bindChange /\ ~answer))
  /\ UNCHANGED <<memVars, fileVars, faults, unsaved, stale>>

\* The caller reads the tables again: humansen_to_dev, get_light_off_time.
FetchTables ==
  /\ client = "fetch"
  /\ client' = "idle"
  /\ stale' = FALSE
  /\ missed' = FALSE
  /\ UNCHANGED <<memVars, bindChange, fileVars, answer, faults, unsaved>>

-----------------------------------------------------------------------------
(* The program ends at any point between two handlers and starts again.    *)

Restart ==
  /\ setting' = LoadedSetting
  /\ hukong' \in LoadedHukong
  /\ internet' = LoadedInternet
  /\ sync' = None
  /\ bindChange' = TRUE
  /\ unsaved' = {}
  /\ stale' = TRUE
  /\ client' = "idle"
  /\ answer' = FALSE
  /\ missed' = FALSE
  /\ UNCHANGED <<fileVars, faults>>

-----------------------------------------------------------------------------

MasterUnit ==
  \/ \E frame \in Frames : SetFrame(frame)
  \/ QueryFrame
  \/ \E t \in Vals : UnitFrame(t)
  \/ \E h \in Hukong : HukongFrame(h)

RpcCall ==
  \/ \E f \in ByRpc, v \in Offered : SetField(f, v)
  \/ \E t \in Vals \ {0} : Aircondition(t)
  \/ \E n \in Counts, bSave \in BOOLEAN : SetDeviceCount(n, bSave)
  \/ \E b \in BOOLEAN : SetTimeSynInternet(b)
  \/ SetTime
  \/ ReadBindChange
  \/ ClearBindChange
  \/ FetchTables

Next == MasterUnit \/ RpcCall \/ Restart

Spec == Init /\ [][Next]_vars

-----------------------------------------------------------------------------
(* Properties.                                                             *)

Items == Fields \cup {"hukong", "internet"}

TypeOK ==
  /\ setting \in [Fields -> Vals]
  /\ hukong \in Hukong
  /\ internet \in BOOLEAN
  /\ sync \in Vals \cup {None}
  /\ bindChange \in BOOLEAN
  /\ written \in SUBSET Sections
  /\ fileSetting \in [Fields -> Vals]
  /\ fileHukong \in Hukong
  /\ fileInternet \in BOOLEAN
  /\ client \in {"idle", "clear", "fetch"}
  /\ answer \in BOOLEAN
  /\ faults \in Nat
  /\ unsaved \in SUBSET Items
  /\ stale \in BOOLEAN
  /\ missed \in BOOLEAN

\* Fields a frame leaves open keep a valid value, in memory and, because they
\* are put back before Save, in the file and after a restart
\* (repeat_comm.cpp:913-970; query_light_offtime has no answer for 0).
TimesValid == \A f \in Guarded : setting[f] # 0 /\ fileSetting[f] # 0

\* Once the hukong section exists (see RoomNotZero for the time before),
\* a restart loses nothing but the temperature and what is listed in unsaved:
\* fields set by RPC, device counts found by the scan, SetTime's network note
\* and sections whose save failed.  In particular a 0x81 frame leaves nothing
\* unsaved that it changed, although it compares before the open fields are
\* put back and saves before RPC's temperature comes in.
Durable ==
  /\ \A f \in Compared \ unsaved : setting[f] = LoadedSetting[f]
  /\ "hukong" \in written \ unsaved => hukong = fileHukong
  /\ "internet" \notin unsaved => internet = LoadedInternet

\* Whoever changes a table that callers of is_bind_change keep raises the flag;
\* a caller misses a change only if it falls between reading and clearing the
\* flag (IsBindChange).
BindAnnounced == stale => bindChange \/ client = "fetch" \/ missed

\* repeat_comm.cpp:1097 sees to it that room and floor are never 0.
RoomNotZero == hukong.room # 0
=============================================================================
