----------------------------- MODULE MCEventLog -----------------------------
(* A small instance of LogHistory for TLC.                                 *)
EXTENDS LogHistory

\* One reader at a time, and readings apart from transitions: they share no step.
OneByOne == {{"sleep", "wake", "timeline"}, {"sleep_failed", "browse"},
             {"samples", "chart"}, {"samples", "fail", "restart"}}

\* One chart within the retention of the temperatures, one that reaches past it.
ShortAndLong == {[window |-> 2, bucket |-> 1], [window |-> 4, bucket |-> 2]}

CoolAndHot == {40, 60}

OldOrNone == {{}} \cup {{[ts |-> 0, disk |-> d, celsius |-> 40]} : d \in Disks}

\* A page that is drawn reads nothing more, and what it is judged by only fades:
\* behaviours go on from the states in which it was never opened.
Undrawn == page.at \notin {"drawn", "charted"}

\* Where there are no readings, pruning them is no step to wait for.
AtOnce == tick.at = "prunetemps" /\ "samples" \notin workload => tick' = Idle

SymmetricDisks == Permutations(Disks)
=============================================================================
