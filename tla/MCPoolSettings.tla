--------------------------- MODULE MCPoolSettings ---------------------------
(* Small instances of PoolSettings for TLC.                                *)
EXTENDS PoolSettings, TLC

NoExtra == [k \in {} |-> ""]

Plain == [branches |-> "two", cache_files |-> "auto-full", cache_writeback |-> FALSE,
          moveonenospc |-> TRUE, passthrough |-> "off", extra |-> NoExtra]

Rich     == [Plain EXCEPT !.branches = "three", !.cache_writeback = TRUE,
                          !.extra = [k \in {"cache.attr", "inodecalc"} |-> "typed"]]
Direct   == [Plain EXCEPT !.cache_files = "off"]
Override == [Plain EXCEPT !.branches = "three", !.extra = [k \in {"cache.files"} |-> "off"]]

\* A form with passthrough on is what the passthrough fix saves.
SomeForms == {Plain, Rich, Direct, Override}

SomeValues   == {"off", "auto-full", "rw", "true", "false", "default", "typed"}
SomeBranches == {"two", "three"}

AllRequests == RequestKinds
Overlapping == {"save", "unmount", "passthrough"}
AllTrouble  == TroubleKinds
EitherAge   == BOOLEAN
=============================================================================
