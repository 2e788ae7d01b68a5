---------------------------- MODULE SleepHistory ----------------------------
(***************************************************************************)
(* What the sleep monitor promises over time.  The variables below only    *)
(* observe SleepMonitor: each is a function of the step that was taken,    *)
(* none constrains it.                                                     *)
(***************************************************************************)
EXTENDS SleepMonitor

CONSTANT Watch  \* which observers record: {"rows", "wake", "change", "io", "failure", "log"}

VARIABLES
  outside,      \* did something else move the drive since it was last read?  A
                \* command that was given up counts as something else
  outsideSeen,  \* ... as of the reading the current visit works with
  phantom,      \* disks with an "external" row that nothing external caused
  wokenAt,      \* when a manual wake was last completed
  changedAt,    \* when an idle time was last changed through the policy form
  countedIO,    \* last I/O while the entry held counters to compare with; what
                \* falls between tick's `now` and the counters is taken for `now`
  ioSeen,       \* countedIO at the moment tick read the counters
  failedAt,     \* last failed automatic spin-down, if nothing has excused it
  logged        \* has a row been written since the disk was first remembered?

hist  == <<outside, outsideSeen, phantom, wokenAt, changedAt, countedIO, ioSeen, failedAt, logged>>
hvars == <<vars, hist>>

LongAgo == -RetryAfter

HistInit ==
  /\ outside = [d \in Disks |-> FALSE] /\ outsideSeen = FALSE
  /\ phantom = {}
  /\ wokenAt = [d \in Disks |-> 0] /\ changedAt = [d \in Disks |-> 0]
  /\ countedIO = [d \in Disks |-> 0] /\ ioSeen = [d \in Disks |-> 0]
  /\ failedAt = [d \in Disks |-> LongAgo]
  /\ logged = [d \in Disks |-> FALSE]

-----------------------------------------------------------------------------
\* The drive moved although neither the monitor nor a request did anything.
MovedOutside(d) == spin'[d] # spin[d] /\ tickVars' = tickVars /\ req' = req

\* A command moved the drive, and whoever ran it was told that it failed.
MovedUnknown(d) ==
  /\ spin'[d] # spin[d]
  /\ \/ d = cur /\ CommandFails
     \/ \E c \in Clients : /\ req[c].disk = d /\ req[c].pc \in {"down", "up"}
                          /\ req'[c].pc \in {"idle", "down", "up"}

\* A request has just written its row about d.
Logged(d) == \E c \in Clients : /\ req[c].disk = d
                                /\ req[c].pc \in {"downsettle", "upsettle"}
                                /\ req'[c].pc \in {"notesleep", "notewake"}

\* A request replaces or drops the entry of d.
Renewed(d) == \E c \in Clients : /\ req[c].disk = d
                                 /\ NoteSleep(c) \/ NoteWake(c) \/ Forget(c)

Compared(d) == Known(d) => tracked[d].counters # NoCounters

ReadsDrive == tpc = "probe" /\ tpc' = "store" /\ entry'.state # "unknown"

StillOutside(d) ==
  /\ outside[d] /\ spin'[d] = spin[d]
  /\ ~Logged(d) /\ ~(d = cur /\ (ReadsDrive \/ Verified))

Fails == tries = 1 /\ (CommandFails \/ NotVerified)

History ==
  /\ outside' = [d \in Disks |->
       "rows" \in Watch /\ (MovedOutside(d) \/ MovedUnknown(d) \/ StillOutside(d))]
  /\ outsideSeen' = IF ReadsDrive THEN outside[cur] ELSE outsideSeen
  /\ phantom' = IF "rows" \in Watch /\ Store /\ (WakeRow \/ SleepRow) /\ ~outsideSeen
                  THEN phantom \cup {cur} ELSE phantom
  /\ wokenAt' = [d \in Disks |->
       IF "wake" \in Watch /\ \E c \in Clients : req[c].disk = d /\ NoteWake(c) THEN clock ELSE wokenAt[d]]
  /\ changedAt' = [d \in Disks |->
       IF "change" \in Watch /\ \E c \in Clients : req[c].disk = d /\ Forget(c) THEN clock ELSE changedAt[d]]
  /\ countedIO' = [d \in Disks |->
       IF "io" \in Watch /\ io'[d] # io[d] /\ Compared(d)
       THEN IF tpc = "list" THEN tnow ELSE clock
       ELSE countedIO[d]]
  /\ ioSeen' = IF ReadCounters THEN countedIO ELSE ioSeen
  /\ failedAt' = [d \in Disks |->
       IF "failure" \in Watch /\ d = cur /\ Fails THEN clock
       ELSE IF Renewed(d) \/ tracked'[d].state = "none"
               \/ (spin[d] = "standby" /\ spin'[d] = "active")
       THEN LongAgo ELSE failedAt[d]]
  /\ logged' = [d \in Disks |->
       "log" \in Watch /\ tracked'[d].state # "none" /\ (logged[d] \/ lastRow'[d] # lastRow[d])]

HInit == Init /\ HistInit
HNext == Next /\ History
HSpec == HInit /\ [][HNext]_hvars

HFairSpec == HSpec /\ Fairness

-----------------------------------------------------------------------------
\* The step in which the monitor decides to spin the current disk down.
Decides == tpc = "store" /\ tpc' = "down"

(* The monitor never puts a disk to sleep that was used within its idle    *)
(* time: test_io_resets_the_idle_clock, for every interleaving of ticks,   *)
(* requests and I/O.  Only I/O whose counters the entry could be compared  *)
(* with counts: monitor.py:148-153 chose that for the manual notes.  I/O   *)
(* that comes after a tick has taken its `now`, while it lists the disks,  *)
(* is stamped with that `now` (line 156): for it the idle time is short by *)
(* what lsblk, findmnt and zpool took.                                     *)
IdleMeansUnused == [][Decides => tnow - ioSeen[cur] >= limit[cur]]_hvars

(* A manual wake gives the disk its full idle time before the monitor may  *)
(* stop it again (note_manual_wake, monitor.py:89-92).                     *)
FullIdleAfterWake == [][Decides => clock - wokenAt[cur] >= limit[cur]]_hvars

(* Changing a disk's idle time restarts its idle clock (api/sleep.py:260). *)
FullIdleAfterChange == [][Decides => clock - changedAt[cur] >= limit[cur]]_hvars

(* A disk gets its full idle time again from whatever a user does to it:   *)
(* the two properties above.                                               *)
FullIdleAgain == FullIdleAfterWake /\ FullIdleAfterChange

(* A drive that refused every command is left alone for RETRY_AFTER, unless*)
(* it really woke up since, was handled by a user, or was forgotten        *)
(* (monitor.py:28-31).                                                     *)
BackoffHolds == [][Decides => clock - failedAt[cur] >= RetryAfter]_hvars

(* A row that says a drive moved on its own, or was woken by something     *)
(* else, is only written when that happened (monitor.py:258-260 and the    *)
(* docstrings of forget and note_manual_wake), or when a command of the    *)
(* application's own moved it and was given up (disksleep.py:253-255).     *)
NoPhantomRow == phantom = {}

(* Between two ticks, with no request under way, the newest row about a    *)
(* disk agrees with what the monitor last saw, once there is a row since   *)
(* the disk was first remembered (the rows before that are from before a   *)
(* restart or a changed policy): the timeline is not upside down until the *)
(* next transition.                                                        *)
LogMatchesState ==
  Quiet => \A d \in Disks :
    logged[d] => (lastRow[d].event = "sleep" <=> tracked[d].state = "standby")

(* The log is true of the drives: the two properties above.                *)
LogIsTrue == NoPhantomRow /\ LogMatchesState
=============================================================================
