----------------------------- MODULE LatestValue -----------------------------
(***************************************************************************)
(* What a tokio watch channel promises one receiver: it may miss values,   *)
(* but never the last one, and what it takes is never older than what it   *)
(* took before.                                                            *)
(***************************************************************************)
VARIABLES
    latest,     \* the value last sent
    taken,      \* the value the receiver took last
    owed        \* the receiver will look again

registerVars == <<latest, taken, owed>>

CONSTANTS Values, Nothing

Init == latest = Nothing /\ taken = Nothing /\ owed = FALSE

Send(v) == latest' = v /\ owed' = TRUE /\ UNCHANGED taken

(* It may have to look again although it took the newest: the value was    *)
(* sent between the wakeup and the look.                                   *)
Take == owed /\ taken' = latest /\ owed' \in BOOLEAN /\ UNCHANGED latest

Next == (\E v \in Values : Send(v)) \/ Take

Spec == Init /\ [][Next]_registerVars
-----------------------------------------------------------------------------
(* A receiver that waits has what was sent last.                           *)
NothingMissed == owed \/ taken = latest
=============================================================================
