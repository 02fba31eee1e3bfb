------------------------ MODULE MCBackgroundControl ------------------------
(* Somebody usually arrives (or leaves) at the next hour; it is hot, and   *)
(* still or with a breeze that would do instead of the air conditioner.    *)
EXTENDS BackgroundControl, TLC

Mild == [plausible |-> TRUE, outsideBad |-> FALSE, hot |-> FALSE, hotByDefault |-> FALSE,
         humid |-> FALSE, breeze |-> FALSE, cooler |-> FALSE, cold |-> FALSE, hold |-> FALSE,
         windowSeen |-> TRUE, airconSeen |-> TRUE]
HotAndStill == [Mild EXCEPT !.hot = TRUE, !.hotByDefault = TRUE]
HotAndFresh == [HotAndStill EXCEPT !.breeze = TRUE]

Morning(c) == [pattern |-> 0 :> "empty" @@ 1 :> "occupied", climate |-> c]
Evening(c) == [pattern |-> 0 :> "occupied" @@ 1 :> "empty", climate |-> c]
MCDays == {Morning(HotAndStill), Morning(HotAndFresh), Evening(HotAndFresh)}
MCLearnedDays == {Morning(HotAndStill), Evening(HotAndFresh)}
=============================================================================
