---------------------------- MODULE SleepMonitor ----------------------------
(***************************************************************************)
(* The disk sleep monitor (storage/monitor.py) together with the requests  *)
(* of storage/api/sleep.py that act on the same disks.                     *)
(*                                                                         *)
(* One monitor thread runs tick() over and over; every request runs in a   *)
(* worker thread of its own.  They share the drives, state.json (always    *)
(* written under state_store.lock, so a locked section is one step), the   *)
(* event log, and the monitor's dictionary _tracked, which no lock guards. *)
(* A step boundary is placed wherever a thread runs a command on the drive *)
(* or gives another thread the chance to touch _tracked between a read of  *)
(* it and the write computed from that read.                               *)
(***************************************************************************)
EXTENDS Integers, FiniteSets

CONSTANTS
  Disks,        \* the rotational disks, by their by-id name
  Clients,      \* worker threads that may serve a request at the same time
  IdleChoices,  \* IDLE_CHOICES; 0 means "never"
  RetryAfter,   \* RETRY_AFTER
  Methods,      \* how many spin-down (and spin-up) commands the chain has
  MaxTime,      \* bound: the clock stops here
  MaxIO,        \* bound: requests completed per disk in /proc/diskstats
  Requests,     \* which requests users send: see RequestKinds
  Environment,  \* which events the surroundings produce: see EventKinds
  FirstSettings, FirstPolicies, \* what state.json may hold at the start
  Overlap       \* FALSE: requests arrive one at a time and between two ticks

RequestKinds == {"down", "up", "policy", "settings", "takeover"}

EventKinds == {"io",       \* the block layer reaches a disk
               "standby",  \* the drive's own timer, or another program, stops it
               "wake",     \* a passthrough command wakes it: no block I/O
               "noanswer", \* hdparm -C fails or prints nothing usable
               "refuse",   \* the drive ignores or rejects a command
               "timeout",  \* a command moves the drive, and is given up all the same
               "vanish",   \* lsblk fails, or a disk is unplugged
               "dbfail",   \* the event log cannot be written
               "restart"}  \* the service is restarted

NoPolicy   == -1           \* no entry for the disk in state.disk_sleep
NoCounters == -1           \* the None that the manual notes leave in "counters"

ASSUME SleepAssumption ==
  /\ IsFiniteSet(Disks) /\ Disks # {}
  /\ IdleChoices \subseteq Nat /\ 0 \in IdleChoices
  /\ RetryAfter \in Nat /\ MaxTime \in Nat /\ MaxIO \in Nat
  /\ Methods \in Nat \ {0}
  /\ Requests \subseteq RequestKinds /\ Environment \subseteq EventKinds
  /\ FirstSettings \subseteq [enabled : BOOLEAN, default_idle : IdleChoices]
  /\ FirstPolicies \subseteq IdleChoices \cup {NoPolicy}
  /\ Overlap \in BOOLEAN

VARIABLES
  clock,     \* time.time()
  spin,      \* what each drive is really doing
  io,        \* completed-request counter of each disk
  settings,  \* state.disk_sleep_settings: enabled and the default idle time
  policy,    \* state.disk_sleep: the idle time of each configured disk
  tracked,   \* monitor._tracked
  lastRow,   \* newest SLEEP or WAKE row of the event log for each disk
  tpc,       \* where the monitor thread is
  tnow,      \* tick's `now`, taken once at its start
  limit,     \* idle time that applies to each disk in the state tick loaded
  stats,     \* the counters tick read
  seen,      \* tick's `disks`
  todo,      \* disks the loop has still to visit
  cur,       \* the disk being visited
  was,       \* previous["state"]
  entry,     \* the entry being built
  linked,    \* whether _tracked still holds that very entry object
  tries,     \* methods left in the chain the monitor is walking
  req        \* the request each worker thread is serving

driveVars == <<clock, spin, io>>
savedVars == <<settings, policy>>
localVars == <<tnow, limit, stats, seen, todo, cur, was, entry, linked, tries>>
tickVars  == <<tpc, localVars>>
vars      == <<driveVars, savedVars, tracked, lastRow, tickVars, req>>

-----------------------------------------------------------------------------
Time        == 0..MaxTime
PowerStates == {"active", "standby", "unknown"}
Settings    == [enabled : BOOLEAN, default_idle : IdleChoices]

\* state "none" stands for a disk that has no entry in _tracked.
Entry == [state       : PowerStates \cup {"none"},
          idle_since  : Time,
          counters    : {NoCounters} \cup (0..MaxIO),
          we_slept_it : BOOLEAN,
          retry_after : 0..(MaxTime + RetryAfter)]

NoEntry == [state |-> "none", idle_since |-> 0, counters |-> NoCounters,
            we_slept_it |-> FALSE, retry_after |-> 0]

Row == [event  : {"none", "sleep", "wake"},
        reason : {"none", "external", "manual", "timeout"}]

NoRow == [event |-> "none", reason |-> "none"]

TickSteps    == {"sleep", "list", "scan", "probe", "store", "down", "settle"}
RequestSteps == {"idle", "down", "downsettle", "notesleep", "remember",
                 "up", "upsettle", "notewake", "forget"}

NoRequest == [pc |-> "idle", disk |-> CHOOSE d \in Disks : TRUE, tries |-> 0]

(* The model never leaves its types: every field keeps its range.          *)
TypeOK ==
  /\ clock \in Time
  /\ spin \in [Disks -> {"active", "standby"}]
  /\ io \in [Disks -> 0..MaxIO]
  /\ settings \in Settings
  /\ policy \in [Disks -> IdleChoices \cup {NoPolicy}]
  /\ tracked \in [Disks -> Entry]
  /\ lastRow \in [Disks -> Row]
  /\ tpc \in TickSteps
  /\ tnow \in Time
  /\ limit \in [Disks -> IdleChoices]
  /\ stats \in [Disks -> 0..MaxIO]
  /\ seen \in SUBSET Disks
  /\ todo \in SUBSET Disks
  /\ cur \in Disks
  /\ was \in PowerStates \cup {"none"}
  /\ entry \in Entry
  /\ linked \in BOOLEAN
  /\ tries \in 0..Methods
  /\ req \in [Clients -> [pc : RequestSteps, disk : Disks, tries : 0..Methods]]

-----------------------------------------------------------------------------
Known(d) == tracked[d].state # "none"

\* Fault: the default for disks without a policy is forgotten.
EffectiveIdleNoDefault(d) == policy[d]

\* policy.idle_seconds if policy else settings.default_idle_seconds
EffectiveIdle(d) == IF policy[d] = NoPolicy THEN settings.default_idle ELSE policy[d]

\* 0 when the monitor must not spin the disk down at all.
Limit(d) == IF settings.enabled THEN EffectiveIdle(d) ELSE 0

\* What hdparm -C may report.
Readings(d) == {spin[d]} \cup (IF "noanswer" \in Environment THEN {"unknown"} ELSE {})

\* What lsblk may list.
Listings == IF "vanish" \in Environment THEN SUBSET Disks ELSE {Disks}

Quiet == tpc = "sleep" /\ \A c \in Clients : req[c].pc = "idle"

Init ==
  /\ clock = 0
  /\ spin \in [Disks -> {"active", "standby"}]
  /\ io = [d \in Disks |-> 0]
  /\ settings \in FirstSettings
  /\ policy \in [Disks -> FirstPolicies]
  /\ tracked = [d \in Disks |-> NoEntry]
  /\ lastRow = [d \in Disks |-> NoRow]
  /\ tpc = "sleep"
  /\ tnow = 0
  /\ limit = [d \in Disks |-> 0]
  /\ stats = [d \in Disks |-> 0]
  /\ seen = {} /\ todo = {}
  /\ cur = NoRequest.disk
  /\ was = "none" /\ entry = NoEntry /\ linked = FALSE /\ tries = 0
  /\ req = [c \in Clients |-> NoRequest]

-----------------------------------------------------------------------------
(* The monitor thread *)

\* The locals of a tick that has returned or raised are gone.
TickOver ==
  /\ tpc' = "sleep"
  /\ tnow' = 0 /\ tries' = 0
  /\ limit' = [d \in Disks |-> 0] /\ stats' = [d \in Disks |-> 0]
  /\ seen' = {} /\ todo' = {} /\ cur' = NoRequest.disk
  /\ was' = "none" /\ entry' = NoEntry /\ linked' = FALSE

\* Back at the top of the loop: the locals of the last visit are dead.
NextDisk ==
  /\ tpc' = "scan"
  /\ cur' = NoRequest.disk
  /\ was' = "none" /\ entry' = NoEntry /\ linked' = FALSE /\ tries' = 0
  /\ UNCHANGED <<tnow, limit, stats, seen, todo>>

\* load_state() and now.
Begin ==
  /\ tpc = "sleep"
  /\ Overlap \/ Quiet
  /\ tnow' = clock
  /\ limit' = [d \in Disks |-> Limit(d)]
  /\ tpc' = "list"
  /\ UNCHANGED <<driveVars, savedVars, tracked, lastRow, stats, seen, todo, cur, was, entry, linked,
                 tries, req>>

\* list_sleep_disks(), which runs commands, then read_diskstats(): what reaches
\* a disk meanwhile is in the counters already.
ReadCounters ==
  /\ tpc = "list"
  /\ \E S \in Listings : seen' = S /\ todo' = S
  /\ stats' = io
  /\ tpc' = "scan"
  /\ UNCHANGED <<driveVars, savedVars, tracked, lastRow, tnow, limit, cur, was, entry, linked, tries,
                 req>>

\* Fault: a missing or changed counter never restarts the idle clock.
TouchedNever(d) == FALSE

\* The block layer reached the disk since the counters in its entry were read.
Touched(d) == tracked[d].counters # NoCounters /\ tracked[d].counters # stats[d]

\* Reads _tracked and builds the new entry from what was there.
Visit(d) ==
  LET previous == tracked[d]
  IN /\ tpc = "scan" /\ d \in todo
     /\ cur' = d
     /\ todo' = todo \ {d}
     /\ was' = previous.state
     /\ entry' = [state       |-> "unknown",
                  idle_since  |-> IF ~Known(d) \/ Touched(d) THEN tnow
                                  ELSE previous.idle_since,
                  counters    |-> stats[d],
                  we_slept_it |-> previous.we_slept_it,
                  retry_after |-> previous.retry_after]
     /\ linked' = FALSE
     /\ tpc' = "probe"
     /\ UNCHANGED <<driveVars, savedVars, tracked, lastRow, tnow, limit, stats, seen, tries, req>>

Probe ==
  /\ tpc = "probe"
  /\ \E s \in Readings(cur) : entry' = [entry EXCEPT !.state = s]
  /\ tpc' = "store"
  /\ UNCHANGED <<driveVars, savedVars, tracked, lastRow, tnow, limit, stats, seen, todo, cur,
                 was, linked, tries, req>>

Changed  == was # "none" /\ was # entry.state /\ entry.state # "unknown"

\* Fault: only the wakes of disks the application stopped are logged.
WakeRowOursOnly == Changed /\ was = "standby" /\ entry.we_slept_it

WakeRow  == Changed /\ was = "standby"
SleepRow == Changed /\ entry.state = "standby"

\* Fault: the flags of the previous sleep survive the wake.
SettledKeepsFlags == entry

\* The entry with its flags set for a disk this application stopped, or not.
Flagged(e, state, ours) == [state |-> state, idle_since |-> e.idle_since, counters |-> e.counters,
                            we_slept_it |-> ours, retry_after |-> 0]

Settled == IF Changed /\ entry.state = "active" THEN Flagged(entry, "active", FALSE) ELSE entry

\* Faults: the backoff is not consulted; the comparison is strict.
DueNoBackoff(e) == limit[cur] > 0 /\ e.state = "active" /\ tnow - e.idle_since >= limit[cur]
DueTooLate(e)   == /\ limit[cur] > 0 /\ e.state = "active"
                   /\ tnow - e.idle_since > limit[cur] /\ tnow >= e.retry_after

Due(e) == /\ limit[cur] > 0
          /\ e.state = "active"
          /\ tnow - e.idle_since >= limit[cur]
          /\ tnow >= e.retry_after

\* Logs an observed transition, puts the entry in _tracked, and decides.
Store ==
  /\ tpc = "store"
  /\ lastRow' = IF WakeRow THEN [lastRow EXCEPT ![cur] = [event |-> "wake", reason |-> "external"]]
                ELSE IF SleepRow
                THEN [lastRow EXCEPT ![cur] = [event |-> "sleep", reason |-> "external"]]
                ELSE lastRow
  /\ tracked' = [tracked EXCEPT ![cur] = Settled]
  /\ IF Due(Settled)
       THEN /\ tpc' = "down"
            /\ entry' = Settled /\ linked' = TRUE /\ tries' = Methods
            /\ UNCHANGED <<tnow, limit, stats, seen, todo, cur, was>>
       ELSE NextDisk
  /\ UNCHANGED <<driveVars, savedVars, req>>

\* eventlog.record raises: nothing is stored and _loop abandons the tick.
StoreFails ==
  /\ tpc = "store" /\ (WakeRow \/ SleepRow) /\ "dbfail" \in Environment
  /\ TickOver
  /\ UNCHANGED <<driveVars, savedVars, tracked, lastRow, req>>

\* _spin_down gave up.  The entry object is updated whether or not _tracked
\* still refers to it; a SLEEP_FAILED row is neither a SLEEP nor a WAKE.
GiveUp ==
  /\ tracked' = IF linked THEN [tracked EXCEPT ![cur].retry_after = clock + RetryAfter]
                ELSE tracked
  /\ UNCHANGED lastRow
  /\ NextDisk \/ ("dbfail" \in Environment /\ TickOver)

\* One command of the chain reaches the drive, which may ignore it.
Command ==
  /\ tpc = "down"
  /\ \/ spin' = [spin EXCEPT ![cur] = "standby"]
     \/ "refuse" \in Environment /\ UNCHANGED spin
  /\ tpc' = "settle"
  /\ UNCHANGED <<clock, io, savedVars, tracked, lastRow, localVars, req>>

\* The command itself fails, or is given up after it has moved the drive: no
\* settling, no verification, next method.
CommandFails ==
  /\ tpc = "down"
  /\ \/ "refuse" \in Environment /\ UNCHANGED spin
     \/ "timeout" \in Environment /\ spin' = [spin EXCEPT ![cur] = "standby"]
  /\ IF tries > 1
       THEN /\ tries' = tries - 1
            /\ UNCHANGED <<tpc, tracked, lastRow, tnow, limit, stats, seen, todo, cur, was,
                           entry, linked>>
       ELSE GiveUp
  /\ UNCHANGED <<clock, io, savedVars, req>>

\* hdparm -C after the command says standby: the spin-down succeeded.
Verified ==
  /\ tpc = "settle" /\ "standby" \in Readings(cur)
  /\ tracked' = IF linked
                  THEN [tracked EXCEPT ![cur] = Flagged(tracked[cur], "standby", TRUE)]
                  ELSE tracked
  /\ \/ /\ lastRow' = [lastRow EXCEPT ![cur] = [event |-> "sleep", reason |-> "timeout"]]
        /\ NextDisk
     \/ /\ "dbfail" \in Environment
        /\ TickOver
        /\ UNCHANGED lastRow
  /\ UNCHANGED <<driveVars, savedVars, req>>

\* It says anything else: next method, or give up.
NotVerified ==
  /\ tpc = "settle" /\ Readings(cur) # {"standby"}
  /\ IF tries > 1
       THEN /\ tries' = tries - 1
            /\ tpc' = "down"
            /\ UNCHANGED <<tracked, lastRow, tnow, limit, stats, seen, todo, cur, was, entry,
                           linked>>
       ELSE GiveUp
  /\ UNCHANGED <<driveVars, savedVars, req>>

\* Entries of disks that were not listed are dropped; the tick returns.
Finish ==
  /\ tpc = "scan" /\ todo = {}
  /\ tracked' = [d \in Disks |-> IF d \in seen THEN tracked[d] ELSE NoEntry]
  /\ TickOver
  /\ UNCHANGED <<driveVars, savedVars, lastRow, req>>

Tick == \/ Begin \/ ReadCounters \/ Probe \/ Store \/ StoreFails \/ Command \/ CommandFails
        \/ Verified \/ NotVerified \/ Finish
        \/ \E d \in Disks : Visit(d)

-----------------------------------------------------------------------------
(* The requests *)

Arrive(c, kind) ==
  /\ kind \in Requests
  /\ req[c].pc = "idle"
  /\ Overlap \/ Quiet

Goto(c, pc) == req' = [req EXCEPT ![c].pc = pc]

Done(c) == req' = [req EXCEPT ![c] = NoRequest]

\* _tracked[by_id] is replaced or dropped: the object a tick holds is no
\* longer the one in the dictionary.
Unlink(d) == linked' = (linked /\ d # cur)

Log(d, event) == lastRow' = [lastRow EXCEPT ![d] = [event |-> event, reason |-> "manual"]]

unlinkedVars == <<tpc, tnow, limit, stats, seen, todo, cur, was, entry, tries>>

SpinDownNow(c, d) ==
  /\ Arrive(c, "down")
  /\ req' = [req EXCEPT ![c] = [pc |-> "down", disk |-> d, tries |-> Methods]]
  /\ UNCHANGED <<driveVars, savedVars, tracked, lastRow, tickVars>>

SpinUpNow(c, d) ==
  /\ Arrive(c, "up")
  /\ req' = [req EXCEPT ![c] = [pc |-> "up", disk |-> d, tries |-> Methods]]
  /\ UNCHANGED <<driveVars, savedVars, tracked, lastRow, tickVars>>

\* The next method of the chain, or the 409 that ends the request.
TryNext(c, pc) ==
  IF req[c].tries > 1
    THEN req' = [req EXCEPT ![c] = [pc |-> pc, disk |-> req[c].disk, tries |-> req[c].tries - 1]]
    ELSE Done(c)

DownCommand(c) ==
  /\ req[c].pc = "down"
  /\ \/ /\ spin' = [spin EXCEPT ![req[c].disk] = "standby"]
        /\ Goto(c, "downsettle") \/ ("timeout" \in Environment /\ TryNext(c, "down"))
     \/ /\ "refuse" \in Environment
        /\ UNCHANGED spin
        /\ Goto(c, "downsettle") \/ TryNext(c, "down")
  /\ UNCHANGED <<clock, io, savedVars, tracked, lastRow, tickVars>>

\* Verified asleep: the row is written (or raises: a 500 and no note).
DownVerified(c) ==
  /\ req[c].pc = "downsettle" /\ "standby" \in Readings(req[c].disk)
  /\ \/ Log(req[c].disk, "sleep") /\ Goto(c, "notesleep")
     \/ "dbfail" \in Environment /\ Done(c) /\ UNCHANGED lastRow
  /\ UNCHANGED <<driveVars, savedVars, tracked, tickVars>>

DownNotVerified(c) ==
  /\ req[c].pc = "downsettle" /\ Readings(req[c].disk) # {"standby"}
  /\ TryNext(c, "down")
  /\ UNCHANGED <<driveVars, savedVars, tracked, lastRow, tickVars>>

ManualSleep(d) == [state |-> "standby", idle_since |-> clock, counters |-> NoCounters,
                   we_slept_it |-> TRUE, retry_after |-> 0]

\* note_manual_sleep
NoteSleep(c) ==
  /\ req[c].pc = "notesleep"
  /\ tracked' = [tracked EXCEPT ![req[c].disk] = ManualSleep(req[c].disk)]
  /\ Unlink(req[c].disk)
  /\ Goto(c, "remember")
  /\ UNCHANGED <<driveVars, savedVars, lastRow, unlinkedVars>>

\* The method that worked is saved.  A disk without a policy gets a new
\* DiskSleepPolicy(), whose idle_seconds is 0.
Remember(c) ==
  /\ req[c].pc = "remember"
  /\ policy' = [policy EXCEPT ![req[c].disk] = IF @ = NoPolicy THEN 0 ELSE @]
  /\ Done(c)
  /\ UNCHANGED <<driveVars, settings, tracked, lastRow, tickVars>>

\* sg_start, or a direct read, which /proc/diskstats counts.
UpCommand(c) ==
  /\ req[c].pc = "up"
  /\ \/ /\ spin' = [spin EXCEPT ![req[c].disk] = "active"]
        /\ \/ UNCHANGED io
           \/ /\ io[req[c].disk] < MaxIO
              /\ io' = [io EXCEPT ![req[c].disk] = @ + 1]
        /\ Goto(c, "upsettle") \/ ("timeout" \in Environment /\ TryNext(c, "up"))
     \/ /\ "refuse" \in Environment
        /\ UNCHANGED <<spin, io>>
        /\ Goto(c, "upsettle") \/ TryNext(c, "up")
  /\ UNCHANGED <<clock, savedVars, tracked, lastRow, tickVars>>

UpVerified(c) ==
  /\ req[c].pc = "upsettle" /\ "active" \in Readings(req[c].disk)
  /\ \/ Log(req[c].disk, "wake") /\ Goto(c, "notewake")
     \/ "dbfail" \in Environment /\ Done(c) /\ UNCHANGED lastRow
  /\ UNCHANGED <<driveVars, savedVars, tracked, tickVars>>

UpNotVerified(c) ==
  /\ req[c].pc = "upsettle" /\ Readings(req[c].disk) # {"active"}
  /\ TryNext(c, "up")
  /\ UNCHANGED <<driveVars, savedVars, tracked, lastRow, tickVars>>

ManualWake(d) == [state |-> "active", idle_since |-> clock, counters |-> NoCounters,
                  we_slept_it |-> FALSE, retry_after |-> 0]

\* note_manual_wake
NoteWake(c) ==
  /\ req[c].pc = "notewake"
  /\ tracked' = [tracked EXCEPT ![req[c].disk] = ManualWake(req[c].disk)]
  /\ Unlink(req[c].disk)
  /\ Done(c)
  /\ UNCHANGED <<driveVars, savedVars, lastRow, unlinkedVars>>

\* PUT /sleep/policy: saved under the lock, then monitor.forget.
SetPolicy(c, d, idle) ==
  /\ Arrive(c, "policy")
  /\ policy' = [policy EXCEPT ![d] = idle]
  /\ req' = [req EXCEPT ![c] = [pc |-> "forget", disk |-> d, tries |-> 0]]
  /\ UNCHANGED <<driveVars, settings, tracked, lastRow, tickVars>>

\* Fault: the entry stays.
ForgottenNot(d) == tracked[d]

Forgotten(d) == NoEntry

Forget(c) ==
  /\ req[c].pc = "forget"
  /\ tracked' = [tracked EXCEPT ![req[c].disk] = Forgotten(req[c].disk)]
  /\ Unlink(req[c].disk)
  /\ Done(c)
  /\ UNCHANGED <<driveVars, savedVars, lastRow, unlinkedVars>>

SetSettings(c, s) ==
  /\ Arrive(c, "settings")
  /\ settings' = s
  /\ UNCHANGED <<driveVars, policy, tracked, lastRow, tickVars, req>>

\* POST /sleep/takeover: the timings imported from hd-idle, for the disks
\* lsblk lists.  _tracked is left alone.
Takeover(c, imported, idle) ==
  /\ Arrive(c, "takeover")
  /\ policy' = [d \in Disks |-> IF d \in imported THEN idle[d] ELSE policy[d]]
  /\ UNCHANGED <<driveVars, settings, tracked, lastRow, tickVars, req>>

Serve(c) == \/ DownCommand(c) \/ DownVerified(c) \/ DownNotVerified(c) \/ NoteSleep(c)
            \/ Remember(c) \/ UpCommand(c) \/ UpVerified(c) \/ UpNotVerified(c)
            \/ NoteWake(c) \/ Forget(c)

Call(c) == \/ \E d \in Disks : SpinDownNow(c, d) \/ SpinUpNow(c, d)
           \/ \E d \in Disks, idle \in IdleChoices : SetPolicy(c, d, idle)
           \/ \E s \in Settings : SetSettings(c, s)
           \/ \E imported \in SUBSET Disks, idle \in [Disks -> IdleChoices] :
                Takeover(c, imported, idle)

-----------------------------------------------------------------------------
(* The surroundings *)

Advance ==
  /\ clock < MaxTime
  /\ clock' = clock + 1
  /\ UNCHANGED <<spin, io, savedVars, tracked, lastRow, tickVars, req>>

DiskIO(d) ==
  /\ "io" \in Environment /\ io[d] < MaxIO
  /\ io' = [io EXCEPT ![d] = @ + 1]
  /\ spin' = [spin EXCEPT ![d] = "active"]
  /\ UNCHANGED <<clock, savedVars, tracked, lastRow, tickVars, req>>

OutsideStandby(d) ==
  /\ "standby" \in Environment /\ spin[d] = "active"
  /\ spin' = [spin EXCEPT ![d] = "standby"]
  /\ UNCHANGED <<clock, io, savedVars, tracked, lastRow, tickVars, req>>

OutsideWake(d) ==
  /\ "wake" \in Environment /\ spin[d] = "standby"
  /\ spin' = [spin EXCEPT ![d] = "active"]
  /\ UNCHANGED <<clock, io, savedVars, tracked, lastRow, tickVars, req>>

\* state.json and the event log survive; _tracked and every thread do not.
Restart ==
  /\ "restart" \in Environment
  /\ tracked' = [d \in Disks |-> NoEntry]
  /\ TickOver
  /\ req' = [c \in Clients |-> NoRequest]
  /\ UNCHANGED <<driveVars, savedVars, lastRow>>

Outside == Advance \/ Restart \/ \E d \in Disks : DiskIO(d) \/ OutsideStandby(d) \/ OutsideWake(d)

Next == Tick \/ Outside \/ \E c \in Clients : Serve(c) \/ Call(c)

Spec == Init /\ [][Next]_vars

\* _loop reschedules tick for ever and survives its exceptions; a worker
\* thread that has started a request finishes it.  Nobody has to call, and
\* nothing has to happen to a disk.
Fairness == WF_vars(Tick) /\ \A c \in Clients : WF_vars(Serve(c))

FairSpec == Spec /\ Fairness

-----------------------------------------------------------------------------
(* A disk is remembered as put to sleep by this application only while it  *)
(* is not known to spin.  Requests and a tick replace entries under each   *)
(* other's feet, and an orphaned entry object may still be updated         *)
(* (monitor.py:163-168, 277-280).                                          *)
OursIsNotSpinning ==
  \A d \in Disks : tracked[d].we_slept_it => tracked[d].state \in {"standby", "unknown"}

(* A disk whose idle time has elapsed, as far as the monitor can know.     *)
Overdue(d) ==
  /\ Limit(d) > 0
  /\ spin[d] = "active" /\ tracked[d].state = "active"
  /\ tracked[d].counters = io[d]
  /\ clock - tracked[d].idle_since >= Limit(d)
  /\ clock >= tracked[d].retry_after

(* The monitor does not leave an overdue disk spinning: sooner or later it *)
(* sleeps, or is used, or refuses and is backed off, or its policy changes.*)
OverdueIsHandled == \A d \in Disks : Overdue(d) ~> ~Overdue(d)
=============================================================================
