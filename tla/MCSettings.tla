----------------------------- MODULE MCSettings -----------------------------
(* Instances of Settings: the light-off time, the wind area and the room     *)
(* temperature stand for the guarded, the compared and the transient fields. *)
EXTENDS Settings, TLC

MCFields   == {"light", "area", "temp"}
MCVals     == 0 .. 2
MCGuarded  == {"light"}
MCCompared == {"light", "area"}
MCRanged   == {"light"}
MCDefault  == [f \in MCFields |-> 1]
MCFrames   == {s \in [MCFields -> MCVals] : s["area"] # 0 /\ s["temp"] = 2}
MCOffered  == 0 .. 3
MCCounts   == 0 .. 2
MCRooms    == 0 .. 1
UsedFile   == Sections
NoFile     == {}
=============================================================================
