------------------------------ MODULE MCSleep ------------------------------
(* Small instances of SleepHistory for TLC.                                *)
EXTENDS SleepHistory

AllRequests == RequestKinds
WakeOnly    == {"up"}
SleepOnly   == {"down"}
PolicyOnly  == {"policy"}
ButtonsOnly == {"down", "up"}
AllButSettings == {"down", "up", "policy"}
NoRequests  == {}

Everything  == EventKinds
Answering   == EventKinds \ {"noanswer"}
NoEvents    == {}

On          == [enabled |-> TRUE, default_idle |-> 0]
AlwaysOn    == {On}
AnySettings == Settings
OnByDefault == {[enabled |-> TRUE, default_idle |-> 1]}
Unconfigured == {NoPolicy}
Configured  == {2}
AnyPolicy   == IdleChoices \cup {NoPolicy}
=============================================================================
