--------------------------- MODULE SettingsProofs ---------------------------
(***************************************************************************)
(* The settings and their file, for any fields, values, caps and failed    *)
(* saves: types, valid times, what a restart can lose, and who misses a    *)
(* change of the tables.  Durable and BindAnnounced are inductive beside   *)
(* the types, TimesValid too; RoomNotZero needs a data file that holds the *)
(* hukong section from the start.                                          *)
(***************************************************************************)
EXTENDS Settings, TLAPS

-----------------------------------------------------------------------------
(* Operators.                                                              *)

\* What Save does to the file and its bookkeeping, whether or not it succeeds.
LEMMA SaveTypes ==
  ASSUME TypeOK, NEW s \in Sections, NEW items \in SUBSET Items,
         NEW ns \in [Fields -> Vals], NEW nh \in Hukong, NEW ni \in BOOLEAN,
         Save(s, items, ns, nh, ni)
  PROVE  /\ written' \in SUBSET Sections /\ written \subseteq written'
         /\ fileSetting' \in {fileSetting, ns} /\ fileHukong' \in {fileHukong, nh}
         /\ fileInternet' \in BOOLEAN
         /\ faults' \in Nat /\ unsaved' \in SUBSET Items
<1>1. CASE /\ written' = written \cup {s}
           /\ fileSetting' = IF s = "setting" THEN ns ELSE fileSetting
           /\ fileHukong' = IF s = "hukong" THEN nh ELSE fileHukong
           /\ fileInternet' = IF s = "others" THEN ni ELSE fileInternet
           /\ unsaved' = unsaved \ items
           /\ UNCHANGED faults
  <2>1. fileInternet' \in BOOLEAN
    BY <1>1, Zenon DEF TypeOK
  <2> QED
    BY <1>1, <2>1 DEF TypeOK
<1>2. CASE /\ faults' = faults + 1
           /\ unsaved' = unsaved \cup items
           /\ UNCHANGED fileVars
  <2>1. fileInternet' \in BOOLEAN
    BY <1>2, Zenon DEF TypeOK, fileVars
  <2> QED
    BY <1>2, <2>1 DEF TypeOK, fileVars
<1> QED
  BY <1>1, <1>2 DEF Save

\* What is taken over from a frame is well typed and valid.
LEMMA MergeFacts ==
  ASSUME TypeOK, TimesValid, NEW frame \in Frames
  PROVE  /\ Merge(frame) \in [Fields -> Vals]
         /\ \A f \in Guarded : Merge(frame)[f] # 0
  BY FieldAssumption DEF Merge, TypeOK, TimesValid

\* RPC's temperature changes no other field.
LEMMA OverrideFacts ==
  ASSUME TypeOK, NEW s \in [Fields -> Vals]
  PROVE  /\ Override(s) \in [Fields -> Vals]
         /\ \A f \in Compared : Override(s)[f] = s[f]
<1>1. CASE sync = None
  BY <1>1, FieldAssumption DEF Override
<1>2. CASE sync # None
  BY <1>2, FieldAssumption DEF Override, TypeOK
<1> QED
  BY <1>1, <1>2

\* A 0x41 frame leaves a record within the caps and a room number.
LEMMA NormalFacts ==
  ASSUME NEW h \in Hukong
  PROVE  Normal(h) \in Hukong /\ Normal(h).room # 0
<1>1. h.count \in Nat /\ h.room \in Nat /\ h.count \in Counts /\ h.room \in Rooms
  BY CountAssumption DEF Hukong
<1>2. Least(h.count, COUNT_MAX) \in Counts
  BY <1>1, CountAssumption DEF Least
<1>3. (IF h.room = 0 THEN 1 ELSE Least(h.room, MAX_ROOM)) \in 1 .. MAX_ROOM
  BY <1>1, CountAssumption DEF Least
<1>4. 1 .. MAX_ROOM \subseteq Rooms /\ 0 \notin 1 .. MAX_ROOM
  BY CountAssumption
<1> QED
  BY <1>2, <1>3, <1>4 DEF Normal, Hukong

LEMMA LoadedTypes == TypeOK => LoadedHukong \subseteq Hukong
  BY CountAssumption DEF TypeOK, LoadedHukong, DefaultHukong, Hukong, Sections
-----------------------------------------------------------------------------
(* Types.                                                                  *)

\* The Boolean variables, and the others.
Flags == /\ internet \in BOOLEAN /\ bindChange \in BOOLEAN /\ fileInternet \in BOOLEAN
         /\ answer \in BOOLEAN /\ stale \in BOOLEAN /\ missed \in BOOLEAN

Data == /\ setting \in [Fields -> Vals] /\ hukong \in Hukong /\ sync \in Vals \cup {None}
        /\ written \in SUBSET Sections
        /\ fileSetting \in [Fields -> Vals] /\ fileHukong \in Hukong
        /\ client \in {"idle", "clear", "fetch"}
        /\ faults \in Nat /\ unsaved \in SUBSET Items

LEMMA TypeParts == TypeOK <=> Flags /\ Data
  BY DEF TypeOK, Flags, Data

LEMMA InitTypes == Init => TypeOK
<1> SUFFICES ASSUME Init PROVE TypeOK
  OBVIOUS
<1>1. Flags
  BY Zenon DEF Init, Flags, LoadedInternet
<1>2. fileSetting \in [Fields -> Vals] /\ fileHukong \in Hukong /\ written \in SUBSET Sections
  BY FieldAssumption, CountAssumption DEF Init, DefaultHukong, Hukong
<1>3. hukong \in Hukong
  BY <1>2 DEF Init, LoadedHukong, DefaultHukong, Hukong, Sections
<1>4. Data
  BY <1>2, <1>3, FieldAssumption, CountAssumption DEF Init, Data, LoadedSetting, Items
<1> QED
  BY <1>1, <1>4, TypeParts

LEMMA NextTypes == TypeOK /\ [Next]_vars => TypeOK'
<1> SUFFICES ASSUME TypeOK, [Next]_vars PROVE TypeOK'
  OBVIOUS
<1>1. ASSUME NEW frame \in Frames, SetFrame(frame) PROVE TypeOK'
  <2>1. Merge(frame) \in [Fields -> Vals]
    BY FieldAssumption DEF Merge, TypeOK
  <2>2. Fields \ {TEMP} \in SUBSET Items /\ "setting" \in Sections
    BY DEF Items, Sections
  <2>3. /\ setting' = Override(Merge(frame)) /\ sync' = None
        /\ UNCHANGED <<hukong, client>>
    BY <1>1 DEF SetFrame, clientVars
  <2>4. /\ written' \in SUBSET Sections /\ fileSetting' \in [Fields -> Vals]
        /\ fileHukong' \in Hukong /\ fileInternet' \in BOOLEAN
        /\ faults' \in Nat /\ unsaved' \in SUBSET Items
    <3>1. hukong \in Hukong /\ internet \in BOOLEAN /\ fileSetting \in [Fields -> Vals]
            /\ fileHukong \in Hukong
      BY DEF TypeOK
    <3>2. CASE Save("setting", Fields \ {TEMP}, Merge(frame), hukong, internet)
      BY <2>1, <2>2, <3>1, <3>2, SaveTypes
    <3>3. CASE NoSave({})
      BY <3>3 DEF NoSave, fileVars, TypeOK
    <3> QED
      BY <1>1, <3>2, <3>3 DEF SetFrame
  <2>5. setting' \in [Fields -> Vals]
    BY <2>1, <2>3, OverrideFacts
  <2>6. Data'
    BY <2>3, <2>4, <2>5 DEF Data, TypeOK
  <2>7. bindChange' \in BOOLEAN /\ stale' \in BOOLEAN /\ UNCHANGED <<internet, answer, missed>>
    BY <1>1, Zenon DEF SetFrame, clientVars
  <2>8. Flags'
    BY <2>4, <2>7, Zenon DEF Flags, TypeOK
  <2> QED
    BY <2>6, <2>8, Zenon DEF TypeOK, Flags, Data
<1>2. CASE QueryFrame
  <2>1. setting' \in [Fields -> Vals]
    BY <1>2, OverrideFacts DEF QueryFrame, TypeOK
  <2>2. Data'
    BY <1>2, <2>1 DEF QueryFrame, NoSave, fileVars, clientVars, Data, TypeOK
  <2>3. Flags'
    BY <1>2, Zenon DEF QueryFrame, NoSave, fileVars, clientVars, Flags, TypeOK
  <2> QED
    BY <2>2, <2>3, Zenon DEF TypeOK, Flags, Data
<1>3. ASSUME NEW t \in Vals, UnitFrame(t) PROVE TypeOK'
  <2>1. Data'
    BY <1>3, FieldAssumption, CountAssumption DEF UnitFrame, NoSave, fileVars, clientVars, memVars, Data, TypeOK, Items
  <2>2. Flags'
    BY <1>3, Zenon DEF UnitFrame, NoSave, fileVars, clientVars, memVars, Flags, TypeOK
  <2> QED
    BY <2>1, <2>2, Zenon DEF TypeOK, Flags, Data
<1>4. ASSUME NEW h \in Hukong, HukongFrame(h) PROVE TypeOK'
  <2>1. Normal(h) \in Hukong /\ {"hukong"} \in SUBSET Items /\ "hukong" \in Sections
    BY NormalFacts DEF Items, Sections
  <2>2. /\ hukong' = Normal(h) /\ bindChange' = TRUE /\ stale' = TRUE
        /\ Save("hukong", {"hukong"}, setting, Normal(h), internet)
        /\ UNCHANGED <<setting, internet, sync, client, answer, missed>>
    BY <1>4 DEF HukongFrame, clientVars
  <2>3. setting \in [Fields -> Vals] /\ internet \in BOOLEAN
    BY DEF TypeOK
  <2>4. /\ written' \in SUBSET Sections /\ fileSetting' \in {fileSetting, setting}
        /\ fileHukong' \in {fileHukong, Normal(h)} /\ fileInternet' \in BOOLEAN
        /\ faults' \in Nat /\ unsaved' \in SUBSET Items
    BY <2>1, <2>2, <2>3, SaveTypes
  <2>5. Data'
    BY <2>1, <2>2, <2>4 DEF Data, TypeOK
  <2>6. Flags'
    BY <2>2, <2>4, Zenon DEF Flags, TypeOK
  <2> QED
    BY <2>5, <2>6, Zenon DEF TypeOK, Flags, Data
<1>5. ASSUME NEW f \in ByRpc, NEW v \in Offered, SetField(f, v) PROVE TypeOK'
  <2>1. Data'
    BY <1>5, FieldAssumption, CountAssumption DEF SetField, NoSave, fileVars, clientVars, memVars, Data, TypeOK, Items
  <2>2. Flags'
    BY <1>5, Zenon DEF SetField, NoSave, fileVars, clientVars, memVars, Flags, TypeOK
  <2> QED
    BY <2>1, <2>2, Zenon DEF TypeOK, Flags, Data
<1>6. ASSUME NEW t \in Vals \ {0}, Aircondition(t) PROVE TypeOK'
  <2>1. Data'
    BY <1>6, FieldAssumption, CountAssumption DEF Aircondition, NoSave, fileVars, clientVars, memVars, Data, TypeOK, Items
  <2>2. Flags'
    BY <1>6, Zenon DEF Aircondition, NoSave, fileVars, clientVars, memVars, Flags, TypeOK
  <2> QED
    BY <2>1, <2>2, Zenon DEF TypeOK, Flags, Data
<1>7. ASSUME NEW n \in Counts, NEW bSave \in BOOLEAN, SetDeviceCount(n, bSave) PROVE TypeOK'
  <2> DEFINE h == [hukong EXCEPT !.count = n]
  <2>1. h \in Hukong /\ {"hukong"} \in SUBSET Items /\ "hukong" \in Sections
    BY DEF Items, Sections, TypeOK, Hukong
  <2>2. /\ hukong' = h /\ bindChange' = TRUE /\ stale' = TRUE
        /\ \/ Save("hukong", {"hukong"}, setting, h, internet)
           \/ NoSave({"hukong"})
        /\ UNCHANGED <<setting, internet, sync, client, answer, missed>>
    BY <1>7 DEF SetDeviceCount, clientVars
  <2>3. /\ setting \in [Fields -> Vals] /\ internet \in BOOLEAN
        /\ fileSetting \in [Fields -> Vals] /\ fileHukong \in Hukong
    BY DEF TypeOK
  <2> HIDE DEF h
  <2>4. /\ written' \in SUBSET Sections /\ fileSetting' \in [Fields -> Vals]
        /\ fileHukong' \in Hukong /\ fileInternet' \in BOOLEAN
        /\ faults' \in Nat /\ unsaved' \in SUBSET Items
    <3>1. CASE Save("hukong", {"hukong"}, setting, h, internet)
      BY <2>1, <2>3, <3>1, SaveTypes
    <3>2. CASE NoSave({"hukong"})
      BY <2>1, <3>2 DEF NoSave, fileVars, TypeOK
    <3> QED
      BY <2>2, <3>1, <3>2
  <2>5. Data'
    BY <2>1, <2>2, <2>4 DEF Data, TypeOK
  <2>6. Flags'
    BY <2>2, <2>4, Zenon DEF Flags, TypeOK
  <2> QED
    BY <2>5, <2>6, Zenon DEF TypeOK, Flags, Data
<1>8. ASSUME NEW b \in BOOLEAN, SetTimeSynInternet(b) PROVE TypeOK'
  <2>1. /\ internet' = b /\ Save("others", {"internet"}, setting, hukong, b)
        /\ UNCHANGED <<setting, hukong, sync, bindChange, stale, client, answer, missed>>
    BY <1>8 DEF SetTimeSynInternet, clientVars
  <2>2. /\ {"internet"} \in SUBSET Items /\ "others" \in Sections
        /\ setting \in [Fields -> Vals] /\ hukong \in Hukong
    BY DEF Items, Sections, TypeOK
  <2>3. /\ written' \in SUBSET Sections /\ fileSetting' \in {fileSetting, setting}
        /\ fileHukong' \in {fileHukong, hukong} /\ fileInternet' \in BOOLEAN
        /\ faults' \in Nat /\ unsaved' \in SUBSET Items
    BY <2>1, <2>2, <1>8, SaveTypes
  <2>4. Data'
    BY <2>1, <2>3 DEF Data, TypeOK
  <2>5. Flags'
    BY <2>1, <2>3, <1>8, Zenon DEF Flags, TypeOK
  <2> QED
    BY <2>4, <2>5, Zenon DEF TypeOK, Flags, Data
<1>9. CASE SetTime
  <2>1. Data'
    BY <1>9, FieldAssumption, CountAssumption DEF SetTime, NoSave, fileVars, clientVars, memVars, Data, TypeOK, Items
  <2>2. Flags'
    BY <1>9, Zenon DEF SetTime, NoSave, fileVars, clientVars, memVars, Flags, TypeOK
  <2> QED
    BY <2>1, <2>2, Zenon DEF TypeOK, Flags, Data
<1>10. CASE ReadBindChange
  <2>1. Data'
    BY <1>10, FieldAssumption, CountAssumption DEF ReadBindChange, NoSave, fileVars, clientVars, memVars, Data, TypeOK, Items
  <2>2. Flags'
    BY <1>10, Zenon DEF ReadBindChange, NoSave, fileVars, clientVars, memVars, Flags, TypeOK
  <2> QED
    BY <2>1, <2>2, Zenon DEF TypeOK, Flags, Data
<1>11. CASE ClearBindChange
  <2>1. Data'
    BY <1>11, FieldAssumption, CountAssumption DEF ClearBindChange, NoSave, fileVars, clientVars, memVars, Data, TypeOK, Items
  <2>2. Flags'
    BY <1>11, Zenon DEF ClearBindChange, NoSave, fileVars, clientVars, memVars, Flags, TypeOK
  <2> QED
    BY <2>1, <2>2, Zenon DEF TypeOK, Flags, Data
<1>12. CASE FetchTables
  <2>1. Data'
    BY <1>12, FieldAssumption, CountAssumption DEF FetchTables, NoSave, fileVars, clientVars, memVars, Data, TypeOK, Items
  <2>2. Flags'
    BY <1>12, Zenon DEF FetchTables, NoSave, fileVars, clientVars, memVars, Flags, TypeOK
  <2> QED
    BY <2>1, <2>2, Zenon DEF TypeOK, Flags, Data
<1>13. CASE Restart
  <2>1. hukong' \in Hukong
    BY <1>13, LoadedTypes DEF Restart
  <2>2. Data'
    BY <1>13, <2>1 DEF Restart, LoadedSetting, fileVars, Data, TypeOK
  <2>3. Flags'
    BY <1>13, Zenon DEF Restart, LoadedInternet, fileVars, Flags, TypeOK
  <2> QED
    BY <2>2, <2>3, Zenon DEF TypeOK, Flags, Data
<1>14. CASE UNCHANGED vars
  <2>1. Data'
    BY <1>14 DEF vars, fileVars, clientVars, memVars, Data, TypeOK
  <2>2. Flags'
    BY <1>14, Zenon DEF vars, fileVars, clientVars, memVars, Flags, TypeOK
  <2> QED
    BY <2>1, <2>2, Zenon DEF TypeOK, Flags, Data
<1> QED
  BY <1>1, <1>2, <1>3, <1>4, <1>5, <1>6, <1>7, <1>8, <1>9, <1>10, <1>11, <1>12, <1>13, <1>14
     DEF Next, MasterUnit, RpcCall

\* Every reachable state of the settings and their file is well typed; in
\* particular RPC callers cannot set a time that is out of range.
THEOREM TypeCorrect == Spec => []TypeOK
  BY InitTypes, NextTypes, PTL DEF Spec
-----------------------------------------------------------------------------
(* Valid times.                                                            *)

LEMMA InitTimes == Init => TimesValid
  BY FieldAssumption DEF Init, LoadedSetting, TimesValid

LEMMA NextTimes == TypeOK /\ TimesValid /\ [Next]_vars => TimesValid'
<1> SUFFICES ASSUME TypeOK /\ TimesValid, [Next]_vars PROVE TimesValid'
  OBVIOUS
<1>1. ASSUME NEW frame \in Frames, SetFrame(frame) PROVE TimesValid'
  <2>1. /\ Merge(frame) \in [Fields -> Vals]
        /\ \A f \in Guarded : Merge(frame)[f] # 0
    BY MergeFacts
  <2>2. \A f \in Guarded : setting'[f] # 0
    BY <1>1, <2>1, OverrideFacts, FieldAssumption DEF SetFrame
  <2>3. fileSetting' \in {fileSetting, Merge(frame)}
    BY <1>1 DEF SetFrame, Save, NoSave, fileVars
  <2> QED
    BY <2>1, <2>2, <2>3 DEF TimesValid
<1>2. CASE QueryFrame
  <2>1. \A f \in Guarded : setting'[f] = setting[f]
    BY <1>2, OverrideFacts, FieldAssumption DEF QueryFrame, TypeOK
  <2> QED
    BY <1>2, <2>1 DEF QueryFrame, NoSave, fileVars, TimesValid
<1>3. ASSUME NEW t \in Vals, UnitFrame(t) PROVE TimesValid'
  BY <1>3, FieldAssumption DEF UnitFrame, NoSave, fileVars, TimesValid, TypeOK
<1>4. ASSUME NEW h \in Hukong, HukongFrame(h) PROVE TimesValid'
  BY <1>4 DEF HukongFrame, Save, fileVars, TimesValid
<1>5. ASSUME NEW f \in ByRpc, NEW v \in Offered, SetField(f, v) PROVE TimesValid'
  BY <1>5, FieldAssumption DEF SetField, NoSave, fileVars, TimesValid, TypeOK
<1>6. ASSUME NEW t \in Vals \ {0}, Aircondition(t) PROVE TimesValid'
  BY <1>6 DEF Aircondition, NoSave, fileVars, memVars, TimesValid
<1>7. ASSUME NEW n \in Counts, NEW bSave \in BOOLEAN, SetDeviceCount(n, bSave) PROVE TimesValid'
  BY <1>7 DEF SetDeviceCount, Save, NoSave, fileVars, TimesValid
<1>8. ASSUME NEW b \in BOOLEAN, SetTimeSynInternet(b) PROVE TimesValid'
  BY <1>8 DEF SetTimeSynInternet, Save, fileVars, TimesValid
<1>9. CASE SetTime
  BY <1>9 DEF SetTime, NoSave, fileVars, memVars, TimesValid
<1>10. CASE ReadBindChange
  BY <1>10 DEF ReadBindChange, NoSave, fileVars, memVars, TimesValid
<1>11. CASE ClearBindChange
  BY <1>11 DEF ClearBindChange, NoSave, fileVars, memVars, TimesValid
<1>12. CASE FetchTables
  BY <1>12 DEF FetchTables, NoSave, fileVars, memVars, TimesValid
<1>13. CASE Restart
  BY <1>13 DEF Restart, LoadedSetting, fileVars, TimesValid
<1>14. CASE UNCHANGED vars
  BY <1>14 DEF vars, memVars, fileVars, TimesValid
<1> QED
  BY <1>1, <1>2, <1>3, <1>4, <1>5, <1>6, <1>7, <1>8, <1>9, <1>10, <1>11, <1>12, <1>13, <1>14
     DEF Next, MasterUnit, RpcCall

\* No frame that leaves a field open, no RPC call and no restart ever leaves an
\* invalid time in memory or in the file.
THEOREM TimesCorrect == Spec => []TimesValid
<1>1. Init => TypeOK /\ TimesValid
  BY InitTypes, InitTimes
<1>2. TypeOK /\ TimesValid /\ [Next]_vars => (TypeOK /\ TimesValid)'
  BY NextTypes, NextTimes
<1> QED
  BY <1>1, <1>2, PTL DEF Spec

-----------------------------------------------------------------------------
(* What a restart can lose.                                                *)

\* The three parts of Durable.
SettingKept  == \A f \in Compared \ unsaved : setting[f] = fileSetting[f]
HukongKept   == "hukong" \in written \ unsaved => hukong = fileHukong
InternetKept == "internet" \notin unsaved => internet = fileInternet

LEMMA DurableParts == Durable <=> SettingKept /\ HukongKept /\ InternetKept
  BY Zenon DEF Durable, SettingKept, HukongKept, InternetKept, LoadedSetting, LoadedInternet

LEMMA InitDurable == Init => SettingKept /\ HukongKept /\ InternetKept
<1> SUFFICES ASSUME Init PROVE SettingKept /\ HukongKept /\ InternetKept
  OBVIOUS
<1>1. SettingKept
  BY DEF Init, SettingKept, LoadedSetting
<1>2. HukongKept
  BY DEF Init, HukongKept, LoadedHukong
<1>3. InternetKept
  BY Zenon DEF Init, InternetKept, LoadedInternet
<1> QED
  BY <1>1, <1>2, <1>3

LEMMA NextSettingKept == TypeOK /\ TimesValid /\ SettingKept /\ [Next]_vars => SettingKept'
<1> SUFFICES ASSUME TypeOK /\ TimesValid /\ SettingKept, [Next]_vars PROVE SettingKept'
  OBVIOUS
<1>1. ASSUME NEW frame \in Frames, SetFrame(frame) PROVE SettingKept'
  <2>1. Merge(frame) \in [Fields -> Vals]
    BY MergeFacts
  <2>2. \A f \in Compared : setting'[f] = Merge(frame)[f]
    BY <1>1, <2>1, OverrideFacts DEF SetFrame
  <2>3. CASE ~Changed(frame) /\ NoSave({})
    <3>1. \A f \in Compared : Merge(frame)[f] = setting[f]
      BY <2>3, FieldAssumption DEF Changed, Merge
    <3> QED
      BY <2>2, <2>3, <3>1 DEF NoSave, fileVars, SettingKept
  <2>4. CASE Save("setting", Fields \ {TEMP}, Merge(frame), hukong, internet)
    <3>1. CASE fileSetting' = Merge(frame)
      BY <2>2, <3>1 DEF SettingKept
    <3>2. CASE unsaved' = unsaved \cup (Fields \ {TEMP})
      BY <3>2, FieldAssumption DEF SettingKept
    <3> QED
      BY <2>4, <3>1, <3>2 DEF Save
  <2> QED
    BY <1>1, <2>3, <2>4 DEF SetFrame
<1>2. CASE QueryFrame
  <2>1. \A f \in Compared : setting'[f] = setting[f]
    BY <1>2, OverrideFacts DEF QueryFrame, TypeOK
  <2> QED
    BY <1>2, <2>1 DEF QueryFrame, NoSave, fileVars, SettingKept
<1>3. ASSUME NEW t \in Vals, UnitFrame(t) PROVE SettingKept'
  BY <1>3, FieldAssumption DEF UnitFrame, NoSave, fileVars, SettingKept, TypeOK
<1>4. ASSUME NEW h \in Hukong, HukongFrame(h) PROVE SettingKept'
  BY <1>4, FieldAssumption DEF HukongFrame, Save, fileVars, SettingKept
<1>5. ASSUME NEW f \in ByRpc, NEW v \in Offered, SetField(f, v) PROVE SettingKept'
  BY <1>5, FieldAssumption DEF SetField, NoSave, fileVars, SettingKept, TypeOK
<1>6. ASSUME NEW t \in Vals \ {0}, Aircondition(t) PROVE SettingKept'
  BY <1>6 DEF Aircondition, NoSave, fileVars, memVars, SettingKept
<1>7. ASSUME NEW n \in Counts, NEW bSave \in BOOLEAN, SetDeviceCount(n, bSave) PROVE SettingKept'
  BY <1>7, FieldAssumption DEF SetDeviceCount, Save, NoSave, fileVars, SettingKept
<1>8. ASSUME NEW b \in BOOLEAN, SetTimeSynInternet(b) PROVE SettingKept'
  BY <1>8, FieldAssumption DEF SetTimeSynInternet, Save, fileVars, SettingKept
<1>9. CASE SetTime
  BY <1>9 DEF SetTime, NoSave, fileVars, memVars, SettingKept
<1>10. CASE ReadBindChange
  BY <1>10 DEF ReadBindChange, NoSave, fileVars, memVars, SettingKept
<1>11. CASE ClearBindChange
  BY <1>11 DEF ClearBindChange, NoSave, fileVars, memVars, SettingKept
<1>12. CASE FetchTables
  BY <1>12 DEF FetchTables, NoSave, fileVars, memVars, SettingKept
<1>13. CASE Restart
  BY <1>13 DEF Restart, LoadedSetting, fileVars, SettingKept
<1>14. CASE UNCHANGED vars
  BY <1>14 DEF vars, memVars, fileVars, SettingKept
<1> QED
  BY <1>1, <1>2, <1>3, <1>4, <1>5, <1>6, <1>7, <1>8, <1>9, <1>10, <1>11, <1>12, <1>13, <1>14
     DEF Next, MasterUnit, RpcCall

LEMMA NextHukongKept == TypeOK /\ HukongKept /\ [Next]_vars => HukongKept'
<1> SUFFICES ASSUME TypeOK /\ HukongKept, [Next]_vars PROVE HukongKept'
  OBVIOUS
<1>1. ASSUME NEW frame \in Frames, SetFrame(frame) PROVE HukongKept'
  <2>1. hukong' = hukong
    BY <1>1 DEF SetFrame
  <2>2. CASE Save("setting", Fields \ {TEMP}, Merge(frame), hukong, internet)
    BY <2>1, <2>2, FieldAssumption DEF Save, fileVars, HukongKept
  <2>3. CASE NoSave({})
    BY <2>1, <2>3 DEF NoSave, fileVars, HukongKept
  <2> QED
    BY <1>1, <2>2, <2>3 DEF SetFrame
<1>2. CASE QueryFrame
  BY <1>2, FieldAssumption DEF QueryFrame, NoSave, fileVars, memVars, HukongKept
<1>3. ASSUME NEW t \in Vals, UnitFrame(t) PROVE HukongKept'
  BY <1>3, FieldAssumption DEF UnitFrame, NoSave, fileVars, memVars, HukongKept
<1>4. ASSUME NEW h \in Hukong, HukongFrame(h) PROVE HukongKept'
  BY <1>4 DEF HukongFrame, Save, fileVars, HukongKept
<1>5. ASSUME NEW f \in ByRpc, NEW v \in Offered, SetField(f, v) PROVE HukongKept'
  BY <1>5, FieldAssumption DEF SetField, NoSave, fileVars, memVars, HukongKept
<1>6. ASSUME NEW t \in Vals \ {0}, Aircondition(t) PROVE HukongKept'
  BY <1>6, FieldAssumption DEF Aircondition, NoSave, fileVars, memVars, HukongKept
<1>7. ASSUME NEW n \in Counts, NEW bSave \in BOOLEAN, SetDeviceCount(n, bSave) PROVE HukongKept'
  BY <1>7 DEF SetDeviceCount, Save, NoSave, fileVars, HukongKept
<1>8. ASSUME NEW b \in BOOLEAN, SetTimeSynInternet(b) PROVE HukongKept'
  BY <1>8 DEF SetTimeSynInternet, Save, fileVars, HukongKept
<1>9. CASE SetTime
  BY <1>9, FieldAssumption DEF SetTime, NoSave, fileVars, memVars, HukongKept
<1>10. CASE ReadBindChange
  BY <1>10, FieldAssumption DEF ReadBindChange, NoSave, fileVars, memVars, HukongKept
<1>11. CASE ClearBindChange
  BY <1>11, FieldAssumption DEF ClearBindChange, NoSave, fileVars, memVars, HukongKept
<1>12. CASE FetchTables
  BY <1>12, FieldAssumption DEF FetchTables, NoSave, fileVars, memVars, HukongKept
<1>13. CASE Restart
  BY <1>13 DEF Restart, LoadedHukong, fileVars, HukongKept
<1>14. CASE UNCHANGED vars
  BY <1>14 DEF vars, memVars, fileVars, HukongKept
<1> QED
  BY <1>1, <1>2, <1>3, <1>4, <1>5, <1>6, <1>7, <1>8, <1>9, <1>10, <1>11, <1>12, <1>13, <1>14
     DEF Next, MasterUnit, RpcCall

LEMMA NextInternetKept == TypeOK /\ InternetKept /\ [Next]_vars => InternetKept'
<1> SUFFICES ASSUME TypeOK /\ InternetKept, [Next]_vars PROVE InternetKept'
  OBVIOUS
<1>1. ASSUME NEW frame \in Frames, SetFrame(frame) PROVE InternetKept'
  <2>1. fileInternet' = fileInternet /\ ("internet" \notin unsaved' => "internet" \notin unsaved)
    BY <1>1, FieldAssumption DEF SetFrame, Save, NoSave, fileVars, memVars
  <2>2. internet' = internet
    BY <1>1 DEF SetFrame, memVars
  <2> QED
    BY <2>1, <2>2, Zenon DEF InternetKept
<1>2. CASE QueryFrame
  <2>1. fileInternet' = fileInternet /\ ("internet" \notin unsaved' => "internet" \notin unsaved)
    BY <1>2, FieldAssumption DEF QueryFrame, Save, NoSave, fileVars, memVars
  <2>2. internet' = internet
    BY <1>2 DEF QueryFrame, memVars
  <2> QED
    BY <2>1, <2>2, Zenon DEF InternetKept
<1>3. ASSUME NEW t \in Vals, UnitFrame(t) PROVE InternetKept'
  <2>1. fileInternet' = fileInternet /\ ("internet" \notin unsaved' => "internet" \notin unsaved)
    BY <1>3, FieldAssumption DEF UnitFrame, Save, NoSave, fileVars, memVars
  <2>2. internet' = internet
    BY <1>3 DEF UnitFrame, memVars
  <2> QED
    BY <2>1, <2>2, Zenon DEF InternetKept
<1>4. ASSUME NEW h \in Hukong, HukongFrame(h) PROVE InternetKept'
  <2>1. fileInternet' = fileInternet /\ ("internet" \notin unsaved' => "internet" \notin unsaved)
    BY <1>4, FieldAssumption DEF HukongFrame, Save, NoSave, fileVars, memVars
  <2>2. internet' = internet
    BY <1>4 DEF HukongFrame, memVars
  <2> QED
    BY <2>1, <2>2, Zenon DEF InternetKept
<1>5. ASSUME NEW f \in ByRpc, NEW v \in Offered, SetField(f, v) PROVE InternetKept'
  <2>1. fileInternet' = fileInternet /\ ("internet" \notin unsaved' => "internet" \notin unsaved)
    BY <1>5, FieldAssumption DEF SetField, Save, NoSave, fileVars, memVars
  <2>2. internet' = internet
    BY <1>5 DEF SetField, memVars
  <2> QED
    BY <2>1, <2>2, Zenon DEF InternetKept
<1>6. ASSUME NEW t \in Vals \ {0}, Aircondition(t) PROVE InternetKept'
  <2>1. fileInternet' = fileInternet /\ ("internet" \notin unsaved' => "internet" \notin unsaved)
    BY <1>6, FieldAssumption DEF Aircondition, Save, NoSave, fileVars, memVars
  <2>2. internet' = internet
    BY <1>6 DEF Aircondition, memVars
  <2> QED
    BY <2>1, <2>2, Zenon DEF InternetKept
<1>7. ASSUME NEW n \in Counts, NEW bSave \in BOOLEAN, SetDeviceCount(n, bSave) PROVE InternetKept'
  <2>1. fileInternet' = fileInternet /\ ("internet" \notin unsaved' => "internet" \notin unsaved)
    BY <1>7, FieldAssumption DEF SetDeviceCount, Save, NoSave, fileVars, memVars
  <2>2. internet' = internet
    BY <1>7 DEF SetDeviceCount, memVars
  <2> QED
    BY <2>1, <2>2, Zenon DEF InternetKept
<1>8. ASSUME NEW b \in BOOLEAN, SetTimeSynInternet(b) PROVE InternetKept'
  <2>1. internet' = b /\ Save("others", {"internet"}, setting, hukong, b)
    BY <1>8 DEF SetTimeSynInternet
  <2>2. fileInternet' = b \/ "internet" \in unsaved'
    BY <2>1, Zenon DEF Save
  <2> QED
    BY <2>1, <2>2, Zenon DEF InternetKept
<1>9. CASE SetTime
  BY <1>9 DEF SetTime, NoSave, InternetKept
<1>10. CASE ReadBindChange
  <2>1. fileInternet' = fileInternet /\ ("internet" \notin unsaved' => "internet" \notin unsaved)
    BY <1>10, FieldAssumption DEF ReadBindChange, Save, NoSave, fileVars, memVars
  <2>2. internet' = internet
    BY <1>10 DEF ReadBindChange, memVars
  <2> QED
    BY <2>1, <2>2, Zenon DEF InternetKept
<1>11. CASE ClearBindChange
  <2>1. fileInternet' = fileInternet /\ ("internet" \notin unsaved' => "internet" \notin unsaved)
    BY <1>11, FieldAssumption DEF ClearBindChange, Save, NoSave, fileVars, memVars
  <2>2. internet' = internet
    BY <1>11 DEF ClearBindChange, memVars
  <2> QED
    BY <2>1, <2>2, Zenon DEF InternetKept
<1>12. CASE FetchTables
  <2>1. fileInternet' = fileInternet /\ ("internet" \notin unsaved' => "internet" \notin unsaved)
    BY <1>12, FieldAssumption DEF FetchTables, Save, NoSave, fileVars, memVars
  <2>2. internet' = internet
    BY <1>12 DEF FetchTables, memVars
  <2> QED
    BY <2>1, <2>2, Zenon DEF InternetKept
<1>13. CASE Restart
  BY <1>13, Zenon DEF Restart, LoadedInternet, fileVars, InternetKept
<1>14. CASE UNCHANGED vars
  BY <1>14, Zenon DEF vars, memVars, fileVars, InternetKept
<1> QED
  BY <1>1, <1>2, <1>3, <1>4, <1>5, <1>6, <1>7, <1>8, <1>9, <1>10, <1>11, <1>12, <1>13, <1>14
     DEF Next, MasterUnit, RpcCall

\* A restart at any point loses nothing but the temperature and what unsaved
\* lists: what RPC set, what the scan counted, sections whose save failed.
THEOREM DurableCorrect == Spec => []Durable
<1> DEFINE Inv == TypeOK /\ TimesValid /\ SettingKept /\ HukongKept /\ InternetKept
<1>1. Init => Inv
  BY InitTypes, InitTimes, InitDurable
<1>2. Inv /\ [Next]_vars => Inv'
  BY NextTypes, NextTimes, NextSettingKept, NextHukongKept, NextInternetKept
<1>3. Inv => Durable
  BY DurableParts
<1> QED
  BY <1>1, <1>2, <1>3, PTL DEF Spec

-----------------------------------------------------------------------------
(* Who misses a change of the tables.                                      *)

LEMMA NextAnnounced == TypeOK /\ BindAnnounced /\ [Next]_vars => BindAnnounced'
<1> SUFFICES ASSUME TypeOK /\ BindAnnounced, [Next]_vars PROVE BindAnnounced'
  OBVIOUS
<1>1. ASSUME NEW frame \in Frames, SetFrame(frame) PROVE BindAnnounced'
  BY <1>1 DEF SetFrame, clientVars, BindAnnounced
<1>2. CASE QueryFrame
  BY <1>2, Zenon DEF QueryFrame, memVars, clientVars, BindAnnounced
<1>3. ASSUME NEW t \in Vals, UnitFrame(t) PROVE BindAnnounced'
  BY <1>3, Zenon DEF UnitFrame, memVars, clientVars, BindAnnounced
<1>4. ASSUME NEW h \in Hukong, HukongFrame(h) PROVE BindAnnounced'
  BY <1>4, Zenon DEF HukongFrame, memVars, clientVars, BindAnnounced
<1>5. ASSUME NEW f \in ByRpc, NEW v \in Offered, SetField(f, v) PROVE BindAnnounced'
  BY <1>5, Zenon DEF SetField, memVars, clientVars, BindAnnounced
<1>6. ASSUME NEW t \in Vals \ {0}, Aircondition(t) PROVE BindAnnounced'
  BY <1>6, Zenon DEF Aircondition, memVars, clientVars, BindAnnounced
<1>7. ASSUME NEW n \in Counts, NEW bSave \in BOOLEAN, SetDeviceCount(n, bSave) PROVE BindAnnounced'
  BY <1>7, Zenon DEF SetDeviceCount, memVars, clientVars, BindAnnounced
<1>8. ASSUME NEW b \in BOOLEAN, SetTimeSynInternet(b) PROVE BindAnnounced'
  BY <1>8, Zenon DEF SetTimeSynInternet, memVars, clientVars, BindAnnounced
<1>9. CASE SetTime
  BY <1>9, Zenon DEF SetTime, memVars, clientVars, BindAnnounced
<1>10. CASE ReadBindChange
  BY <1>10 DEF ReadBindChange, BindAnnounced
<1>11. CASE ClearBindChange
  <2>1. CASE answer
    BY <1>11, <2>1 DEF ClearBindChange, BindAnnounced
  <2>2. CASE ~answer
    BY <1>11, <2>2 DEF ClearBindChange, BindAnnounced
  <2> QED
    BY <2>1, <2>2
<1>12. CASE FetchTables
  BY <1>12, Zenon DEF FetchTables, memVars, clientVars, BindAnnounced
<1>13. CASE Restart
  BY <1>13, Zenon DEF Restart, memVars, clientVars, BindAnnounced
<1>14. CASE UNCHANGED vars
  BY <1>14, Zenon DEF vars, clientVars, BindAnnounced
<1> QED
  BY <1>1, <1>2, <1>3, <1>4, <1>5, <1>6, <1>7, <1>8, <1>9, <1>10, <1>11, <1>12, <1>13, <1>14
     DEF Next, MasterUnit, RpcCall

\* A caller of is_bind_change whose tables are out of date will be told, unless
\* the change fell between the reading and the clearing of the flag.
THEOREM BindCorrect == Spec => []BindAnnounced
<1>1. Init => TypeOK /\ BindAnnounced
  BY InitTypes DEF Init, BindAnnounced
<1>2. TypeOK /\ BindAnnounced /\ [Next]_vars => (TypeOK /\ BindAnnounced)'
  BY NextTypes, NextAnnounced
<1> QED
  BY <1>1, <1>2, PTL DEF Spec

-----------------------------------------------------------------------------
(* Room numbers.                                                           *)

RoomInv ==
  /\ "hukong" \in written
  /\ RoomNotZero
  /\ fileHukong.room # 0

LEMMA InitRoom == Init /\ "hukong" \in Delivered => RoomInv
  BY CountAssumption DEF Init, RoomInv, RoomNotZero, LoadedHukong, DefaultHukong

LEMMA NextRoom == TypeOK /\ RoomInv /\ [Next]_vars => RoomInv'
<1> SUFFICES ASSUME TypeOK /\ RoomInv, [Next]_vars PROVE RoomInv'
  OBVIOUS
<1>1. ASSUME NEW frame \in Frames, SetFrame(frame) PROVE RoomInv'
  BY <1>1 DEF SetFrame, Save, NoSave, fileVars, RoomInv, RoomNotZero
<1>2. CASE QueryFrame
  BY <1>2 DEF QueryFrame, NoSave, fileVars, memVars, RoomInv, RoomNotZero
<1>3. ASSUME NEW t \in Vals, UnitFrame(t) PROVE RoomInv'
  BY <1>3 DEF UnitFrame, NoSave, fileVars, memVars, RoomInv, RoomNotZero
<1>4. ASSUME NEW h \in Hukong, HukongFrame(h) PROVE RoomInv'
  BY <1>4, NormalFacts DEF HukongFrame, Save, fileVars, RoomInv, RoomNotZero
<1>5. ASSUME NEW f \in ByRpc, NEW v \in Offered, SetField(f, v) PROVE RoomInv'
  BY <1>5 DEF SetField, NoSave, fileVars, memVars, RoomInv, RoomNotZero
<1>6. ASSUME NEW t \in Vals \ {0}, Aircondition(t) PROVE RoomInv'
  BY <1>6 DEF Aircondition, NoSave, fileVars, memVars, RoomInv, RoomNotZero
<1>7. ASSUME NEW n \in Counts, NEW bSave \in BOOLEAN, SetDeviceCount(n, bSave) PROVE RoomInv'
  <2>1. hukong'.room = hukong.room
    BY <1>7 DEF SetDeviceCount, TypeOK, Hukong
  <2>2. fileHukong' \in {fileHukong, hukong'} /\ "hukong" \in written'
    BY <1>7 DEF SetDeviceCount, Save, NoSave, fileVars, RoomInv
  <2> QED
    BY <2>1, <2>2 DEF RoomInv, RoomNotZero
<1>8. ASSUME NEW b \in BOOLEAN, SetTimeSynInternet(b) PROVE RoomInv'
  BY <1>8 DEF SetTimeSynInternet, Save, fileVars, RoomInv, RoomNotZero
<1>9. CASE SetTime
  BY <1>9 DEF SetTime, NoSave, fileVars, memVars, RoomInv, RoomNotZero
<1>10. CASE ReadBindChange
  BY <1>10 DEF ReadBindChange, NoSave, fileVars, memVars, RoomInv, RoomNotZero
<1>11. CASE ClearBindChange
  BY <1>11 DEF ClearBindChange, NoSave, fileVars, memVars, RoomInv, RoomNotZero
<1>12. CASE FetchTables
  BY <1>12 DEF FetchTables, NoSave, fileVars, memVars, RoomInv, RoomNotZero
<1>13. CASE Restart
  BY <1>13 DEF Restart, LoadedHukong, fileVars, RoomInv, RoomNotZero
<1>14. CASE UNCHANGED vars
  BY <1>14 DEF vars, memVars, fileVars, RoomInv, RoomNotZero
<1> QED
  BY <1>1, <1>2, <1>3, <1>4, <1>5, <1>6, <1>7, <1>8, <1>9, <1>10, <1>11, <1>12, <1>13, <1>14
     DEF Next, MasterUnit, RpcCall

\* If the data file holds the hukong section from the start, no frame, RPC call
\* or restart makes the room number 0: Load never reads past the end of the file.
THEOREM RoomCorrect == ASSUME "hukong" \in Delivered PROVE Spec => []RoomNotZero
<1>1. Init => TypeOK /\ RoomInv
  BY InitTypes, InitRoom
<1>2. TypeOK /\ RoomInv /\ [Next]_vars => (TypeOK /\ RoomInv)'
  BY NextTypes, NextRoom
<1>3. RoomInv => RoomNotZero
  BY DEF RoomInv
<1> QED
  BY <1>1, <1>2, <1>3, PTL DEF Spec
=============================================================================
