--------------------------- MODULE MCTimerChecker ---------------------------
(* Small instance of TimerChecker: a timer that runs at every second has a   *)
(* chain of its own, before the chain that the two others share.           *)
EXTENDS TimerChecker

CONSTANTS a, b, d

MCKeys     == {a, b, d}
MCBucket   == (a :> 1) @@ (b :> 1) @@ (d :> 0)
\* The key of a begins that of b.
MCMatches  == (a :> {a, b}) @@ (b :> {b}) @@ (d :> {d})
MCInterval == (a :> 1) @@ (b :> 2) @@ (d :> 0)
MCDelay    == (a :> 0) @@ (b :> 1) @@ (d :> 0)
MCOneTime  == {a}
=============================================================================
