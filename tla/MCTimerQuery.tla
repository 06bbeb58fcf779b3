---------------------------- MODULE MCTimerQuery ----------------------------
(* Instances of TimerQuery: one light, up to two fresh-air units, a meter.  *)
EXTENDS TimerQuery, TLC

Count(l, a, m) == [k \in Kinds |-> CASE k = "light" -> l [] k = AIR -> a
                                     [] k = METER -> m [] OTHER -> 0]

OneOfEach == Count(1, 1, 1)
TwoUnits  == Count(1, 2, 1)

\* Two lights are more than COUNT_MAX allows.
SomeCounts == {Count(1, 1, 0), Count(2, 1, 1)}
UnitCounts == {Count(0, 2, 0), Count(1, 1, 1)}

NoFire    == {FALSE}
NoLight   == {<<"light", 1>>}

\* counts, time frames, set commands, alarms, RPC commands, failed queries
\* and failed alarm frames
Allow(c, y, s, a, r, q, f) ==
  "counts" :> c @@ "sync" :> y @@ "set" :> s @@ "alarm" :> a @@ "rpc" :> r
    @@ "query" :> q @@ "send" :> f

SafetyBudget == Allow(1, 1, 1, 1, 1, 1, 1)
LiveBudget   == Allow(1, 1, 1, 2, 0, 1, 0)
=============================================================================
