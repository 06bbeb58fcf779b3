---------------------------- MODULE MCTransform ----------------------------
(* Instances of Transform: one kind of device with its query ("q"), its     *)
(* command ("s") and its type request ("i"); one RPC thread, the kongguan   *)
(* thread and TimerQuery.                                                   *)
EXTENDS Transform, TLC

MCPolled   == {"q"}
MCCommands == {"s"}
MCInfos    == {"i"}
MCTrans    == ("s" :> "q")
MCNoInfos  == {}
OneRpc     == {"rpc"}
NoRpc      == {}
=============================================================================
