--------------------------- MODULE MCKongguanLink ---------------------------
(* Instances of KongguanLink.  The check sums are sums of bytes: the query of *)
(* light 3 (3 + 0x44) and that of curtain 1 (1 + 0x46) have the same one.     *)
EXTENDS KongguanLink, TLC

LightQuery   == "light3"
CurtainQuery == "curtain1"
SetLight     == "setlight"
Settings     == "settings"
BadSet       == "badset"

TwoQueries  == {LightQuery, CurtainQuery}
AllRequests == TwoQueries \cup {SetLight, Settings, BadSet}

CheckSums == 1 .. 4
CheckSum  == [r \in AllRequests |-> CASE r \in TwoQueries -> 1 [] r = SetLight -> 2
                                      [] r = Settings -> 3 [] r = BadSet -> 4]

Bad     == {BadSet}
Inner   == {Settings}
SetCmds == {SetLight, BadSet}
Blinds  == {CurtainQuery}
=============================================================================
