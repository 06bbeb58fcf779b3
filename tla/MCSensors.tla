------------------------------ MODULE MCSensors ------------------------------
(* Instances of Sensors: a contact of the controller and one of a light, a   *)
(* fresh-air unit and a curtain.                                             *)
EXTENDS Sensors, TLC

MCDev == "door" :> 0 @@ "sink" :> 11

Links(door, sink, first, second, curtain, probes) ==
    [input |-> "door" :> door @@ "sink" :> sink,
     air |-> [s \in Human |-> CASE s = 1 -> first [] s = 2 -> second [] OTHER -> 9],
     curtain |-> [c \in Curtains |-> curtain],
     probes |-> probes]

\* Both contacts on sensor 1, with the unit and the curtain; gas, and sensor 2,
\* which is beyond the one probe, with the unit and an unlinked curtain.
MCTables == {Links(1, 1, 1, 9, 1, 5), Links(13, 2, 9, 1, 9, 1)}

\* Bound: at first the unit and the curtain take it that nobody is there.
MCInit == Init /\ \A d \in Units \cup Curtains : ~told[d]
MCSpec == MCInit /\ [][Next]_vars /\ Fairness

\* Bound: of a call, a new table and a failure, two at most.
Few == budget["calls"] + budget["tables"] + budget["faults"] <= 2

UnlinkedCurtain == {Links(1, 9, 1, 9, 9, 5)}
=============================================================================
