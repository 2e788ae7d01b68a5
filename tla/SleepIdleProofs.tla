-------------------------- MODULE SleepIdleProofs --------------------------
(***************************************************************************)
(* What the monitor promises over time, for every number of disks and      *)
(* worker threads.  For every environment: it never decides to stop a disk *)
(* that was used within its idle time.  With requests between two ticks:   *)
(* a disk gets its full idle time again after a request, a drive that      *)
(* refuses is left alone for a while, and the log is true of the drives.   *)
(***************************************************************************)
EXTENDS SleepProofs

-----------------------------------------------------------------------------
(* The inductive invariant, in parts.                                      *)

\* What the observers hold.
ObserverTypes ==
  /\ countedIO \in [Disks -> Nat] /\ ioSeen \in [Disks -> Nat]
  /\ \A d \in Disks : countedIO[d] <= clock

\* An entry accounts for all I/O up to its idle_since, unless its counters
\* are behind, in which case the next visit restarts the idle clock.
Accounts(d) ==
  Known(d) =>
    /\ tracked[d].counters = NoCounters => countedIO[d] <= tracked[d].idle_since
    /\ tracked[d].counters # NoCounters =>
         /\ tracked[d].counters <= io[d]
         /\ tracked[d].counters = io[d] => countedIO[d] <= tracked[d].idle_since

\* What a tick read at its start is old, but consistent.
Reading(d) ==
  /\ tpc = "list" => countedIO[d] <= tnow
  /\ tpc \notin {"sleep", "list"} =>
       /\ stats[d] <= io[d]
       /\ ioSeen[d] <= countedIO[d] /\ ioSeen[d] <= tnow
       /\ stats[d] = io[d] => countedIO[d] = ioSeen[d]

\* A disk the tick has not visited yet: if its counters look unchanged, its
\* idle clock has not been restarted since the I/O the tick knows of.
Awaiting(d) ==
  d \in todo /\ Known(d) /\ tracked[d].counters = stats[d] => ioSeen[d] <= tracked[d].idle_since

\* The entry under construction accounts for that I/O as well.
Visiting ==
  tpc \in {"probe", "store"} =>
    /\ entry.counters = stats[cur] /\ ioSeen[cur] <= entry.idle_since
    /\ entry.state # "none"

Held == /\ tpc \in {"probe", "store", "down", "settle"} => cur \notin todo
        /\ tpc \in {"sleep", "list"} => todo = {}
        /\ linked => Known(cur) /\ tpc \in {"down", "settle"}

IdleInv ==
  /\ TypeOK
  /\ ObserverTypes
  /\ tnow <= clock
  /\ \A d \in Disks : Accounts(d) /\ Reading(d) /\ Awaiting(d)
  /\ Visiting
  /\ Held

-----------------------------------------------------------------------------
LEMMA Numbers ==
  ASSUME TypeOK
  PROVE  /\ clock \in Nat /\ tnow \in Nat
         /\ \A d \in Disks : /\ io[d] \in Nat /\ stats[d] \in Nat
                             /\ tracked[d].idle_since \in Nat /\ tracked[d].counters \in Int
                             /\ limit[d] \in Nat
         /\ entry.idle_since \in Nat /\ entry.counters \in Int
         /\ cur \in Disks /\ todo \subseteq Disks
  <1>1. clock \in Nat /\ tnow \in Nat /\ cur \in Disks /\ todo \subseteq Disks
    BY SleepAssumption DEF TypeOK, Time
  <1>2. \A e \in Entry : e.idle_since \in Nat /\ e.counters \in Int
    BY SleepAssumption DEF Entry, Time, NoCounters
  <1>3. entry \in Entry /\ \A d \in Disks : tracked[d] \in Entry
    BY DEF TypeOK
  <1>4. \A d \in Disks : io[d] \in Nat /\ stats[d] \in Nat /\ limit[d] \in Nat
    <2>1. 0..MaxIO \subseteq Nat /\ IdleChoices \subseteq Nat
      BY SleepAssumption
    <2>2. \A d \in Disks : io[d] \in 0..MaxIO /\ stats[d] \in 0..MaxIO /\ limit[d] \in IdleChoices
      BY DEF TypeOK
    <2> QED BY <2>1, <2>2
  <1> QED BY <1>1, <1>2, <1>3, <1>4

\* Time and the request counters never go back.
LEMMA Forwards ==
  ASSUME TypeOK, Next
  PROVE  clock' >= clock /\ \A d \in Disks : io'[d] >= io[d]
  <1> USE Numbers DEF driveVars
  <1>1. CASE Tick
    <2>1. clock' = clock /\ io' = io
      BY <1>1 DEF Tick, Begin, ReadCounters, Visit, Probe, Store, StoreFails, Command, CommandFails, Verified,
         NotVerified, Finish
    <2> QED BY <2>1
  <1>2. CASE Outside
    BY <1>2 DEF Outside, Advance, Restart, DiskIO, OutsideStandby, OutsideWake, TypeOK
  <1>3. ASSUME NEW c \in Clients, Serve(c) PROVE clock' >= clock /\ \A d \in Disks : io'[d] >= io[d]
    BY <1>3 DEF Serve, DownCommand, DownVerified, DownNotVerified, NoteSleep, Remember, UpCommand,
       UpVerified, UpNotVerified, NoteWake, Forget, TypeOK
  <1>4. ASSUME NEW c \in Clients, Call(c) PROVE clock' >= clock /\ \A d \in Disks : io'[d] >= io[d]
    BY <1>4 DEF Call, SpinDownNow, SpinUpNow, SetPolicy, SetSettings, Takeover
  <1> QED BY <1>1, <1>2, <1>3, <1>4 DEF Next

\* What one step may do to the observers.
LEMMA Observed ==
  ASSUME IdleInv, Next, History
  PROVE  /\ ObserverTypes'
         /\ \A d \in Disks :
              \/ countedIO'[d] = countedIO[d]
              \/ /\ countedIO'[d] = IF tpc = "list" THEN tnow ELSE clock
                 /\ io'[d] # io[d] /\ Compared(d)
         /\ ~(tpc = "list" /\ tpc' = "scan") => ioSeen' = ioSeen
         /\ ReadCounters => ioSeen' = countedIO
  <1> USE DEF IdleInv
  <1>1. \A d \in Disks : countedIO'[d] =
          IF "io" \in Watch /\ io'[d] # io[d] /\ Compared(d)
          THEN IF tpc = "list" THEN tnow ELSE clock
          ELSE countedIO[d]
    BY DEF History
  <1>2. countedIO' \in [Disks -> Nat]
    BY Numbers DEF History, ObserverTypes
  <1>3. /\ ~(tpc = "list" /\ tpc' = "scan") => ioSeen' = ioSeen
        /\ ReadCounters => ioSeen' = countedIO
        /\ ioSeen' \in {ioSeen, countedIO}
    BY DEF History, ReadCounters
  <1>4. clock' \in Nat /\ clock' >= clock
    BY Forwards, NextTypeOK, Numbers DEF TypeOK, Time
  <1>5. ObserverTypes'
    BY <1>1, <1>2, <1>3, <1>4, Numbers DEF ObserverTypes
  <1> QED BY <1>1, <1>3, <1>5

-----------------------------------------------------------------------------
(* The parts of the invariant, one kind of step at a time.                 *)

Parts == /\ \A d \in Disks : Accounts(d) /\ Reading(d) /\ Awaiting(d)
         /\ Visiting
         /\ Held

\* Steps that touch neither the entries nor the thread of the monitor.
LEMMA QuietStep ==
  ASSUME IdleInv, Next, History, tracked' = tracked, tickVars' = tickVars
  PROVE  Parts'
  <1> USE DEF tickVars, localVars
  <1>1. ~(tpc = "list" /\ tpc' = "scan")
    OBVIOUS
  <1>2. ioSeen' = ioSeen
    BY <1>1, Observed
  <1>3. ASSUME NEW d \in Disks PROVE Accounts(d)' /\ Reading(d)' /\ Awaiting(d)'
    <2>1. /\ io'[d] >= io[d] /\ io'[d] \in Nat
          /\ countedIO'[d] \in Nat
          /\ \/ countedIO'[d] = countedIO[d]
             \/ /\ countedIO'[d] = IF tpc = "list" THEN tnow ELSE clock
                /\ io'[d] # io[d] /\ Compared(d)
          /\ tnow <= clock
          /\ io[d] \in Nat /\ stats[d] \in Nat /\ countedIO[d] \in Nat /\ countedIO[d] <= clock
          /\ ioSeen[d] \in Nat /\ clock \in Nat /\ tnow \in Nat
          /\ tracked[d].idle_since \in Nat /\ tracked[d].counters \in Int
      BY Observed, Forwards, Numbers, NextTypeOK, SleepAssumption DEF IdleInv, ObserverTypes, TypeOK
    <2>2. Accounts(d) /\ Reading(d) /\ Awaiting(d)
      BY DEF IdleInv
    <2>3. Accounts(d)'
      BY <2>1, <2>2 DEF Accounts, Compared, Known
    <2>4. Reading(d)'
      BY <1>2, <2>1, <2>2 DEF Reading
    <2>5. Awaiting(d)'
      BY <1>2, <2>2 DEF Awaiting, Known
    <2> QED BY <2>3, <2>4, <2>5
  <1>4. Visiting' /\ Held'
    BY <1>2 DEF IdleInv, Visiting, Held, Known
  <1> QED BY <1>3, <1>4 DEF Parts

\* A request replaces one entry: note_manual_sleep, note_manual_wake, forget.
LEMMA NoteStep ==
  ASSUME IdleInv, Next, History, NEW d \in Disks, NEW e,
         \/ e.state = "none"
         \/ e.counters = NoCounters /\ e.idle_since = clock,
         tracked' = [tracked EXCEPT ![d] = e], Unlink(d),
         UNCHANGED <<driveVars, tpc, tnow, limit, stats, seen, todo, cur, was, entry, tries>>
  PROVE  Parts'
  <1> USE DEF driveVars
  <1>1. ~(tpc = "list" /\ tpc' = "scan")
    OBVIOUS
  <1>2. ioSeen' = ioSeen
    BY <1>1, Observed
  <1>3. \A x \in Disks : countedIO'[x] = countedIO[x]
    BY Observed
  <1>4. /\ tracked'[d] = e
        /\ \A x \in Disks \ {d} : tracked'[x] = tracked[x]
    BY DEF IdleInv, TypeOK
  <1>5. ASSUME NEW x \in Disks PROVE Accounts(x)' /\ Reading(x)' /\ Awaiting(x)'
    <2>1. countedIO[x] <= clock /\ stats[x] \in Nat /\ Accounts(x) /\ Reading(x) /\ Awaiting(x)
      BY Numbers DEF IdleInv, ObserverTypes
    <2>2. Reading(x)'
      BY <1>2, <1>3, <2>1 DEF Reading
    <2>3. CASE x = d
      BY <1>2, <1>3, <1>4, <2>1, <2>2, <2>3 DEF Accounts, Awaiting, Known, NoCounters
    <2>4. CASE x # d
      BY <1>2, <1>3, <1>4, <2>1, <2>2, <2>4 DEF Accounts, Awaiting, Known
    <2> QED BY <2>3, <2>4
  <1>6. Visiting'
    BY <1>2 DEF IdleInv, Visiting
  <1>7. Held'
    BY <1>4, Numbers DEF IdleInv, Held, Known, Unlink
  <1> QED BY <1>5, <1>6, <1>7 DEF Parts

\* The end of a tick, which may drop entries.
LEMMA TickOverStep ==
  ASSUME IdleInv, Next, History, TickOver, tpc # "sleep", io' = io,
         \A d \in Disks : /\ tracked'[d].state # "none" => Known(d)
                          /\ tracked'[d].state # "none" =>
                               /\ tracked'[d].counters = tracked[d].counters
                               /\ tracked'[d].idle_since = tracked[d].idle_since
  PROVE  Parts'
  <1>1. \A d \in Disks : countedIO'[d] = countedIO[d]
    BY Observed
  <1>2. ASSUME NEW d \in Disks PROVE Accounts(d)' /\ Reading(d)' /\ Awaiting(d)'
    BY <1>1 DEF IdleInv, Accounts, Reading, Awaiting, Known, TickOver
  <1>3. Visiting' /\ Held'
    BY DEF TickOver, Visiting, Held
  <1> QED BY <1>2, <1>3 DEF Parts

\* The end of a visit.
LEMMA NextDiskStep ==
  ASSUME IdleInv, Next, History, NextDisk, tpc \notin {"sleep", "list"}, io' = io,
         \A d \in todo : tracked'[d] = tracked[d],
         \A d \in Disks : Accounts(d)'
  PROVE  Parts'
  <1> USE DEF NextDisk
  <1>1. ioSeen' = ioSeen /\ \A d \in Disks : countedIO'[d] = countedIO[d]
    BY Observed
  <1>2. ASSUME NEW d \in Disks PROVE Reading(d)' /\ Awaiting(d)'
    BY <1>1 DEF IdleInv, Reading, Awaiting, Known
  <1>3. Visiting' /\ Held'
    BY DEF Visiting, Held
  <1> QED BY <1>2, <1>3 DEF Parts

-----------------------------------------------------------------------------
LEMMA SettledClock ==
  TypeOK => Settled.idle_since = entry.idle_since /\ Settled.counters = entry.counters
            /\ Settled.state = entry.state
  BY DEF Settled, Flagged

LEMMA BeginStep ==
  ASSUME IdleInv, History, Next, Begin
  PROVE  Parts' /\ tnow' <= clock'
  <1> USE DEF driveVars
  <1>1. /\ tpc = "sleep" /\ tpc' = "list" /\ tnow' = clock /\ clock' = clock /\ io' = io
        /\ tracked' = tracked /\ todo' = todo /\ linked' = linked
    BY DEF Begin
  <1>2. \A d \in Disks : countedIO'[d] = countedIO[d]
    BY <1>1, Observed
  <1>3. ASSUME NEW d \in Disks PROVE Accounts(d)' /\ Reading(d)' /\ Awaiting(d)'
    <2>1. Accounts(d) /\ countedIO[d] <= clock /\ todo = {}
      BY <1>1 DEF IdleInv, ObserverTypes, Held
    <2> QED BY <1>1, <1>2, <2>1 DEF Accounts, Reading, Awaiting, Known
  <1>4. Visiting' /\ Held'
    BY <1>1 DEF IdleInv, Visiting, Held
  <1>5. tnow' <= clock'
    BY <1>1, Numbers DEF IdleInv
  <1> QED BY <1>3, <1>4, <1>5 DEF Parts

\* The counters are taken: what they count is accounted for, or will be at
\* the visit.
LEMMA ReadCountersStep ==
  ASSUME IdleInv, History, Next, ReadCounters
  PROVE  Parts'
  <1> USE DEF driveVars
  <1>1. /\ tpc = "list" /\ tpc' = "scan" /\ tnow' = tnow /\ stats' = io /\ io' = io
        /\ tracked' = tracked /\ linked' = linked
    BY DEF ReadCounters
  <1>2. ioSeen' = countedIO /\ \A d \in Disks : countedIO'[d] = countedIO[d]
    BY <1>1, Observed
  <1>3. ASSUME NEW d \in Disks PROVE Accounts(d)' /\ Reading(d)' /\ Awaiting(d)'
    <2>1. Accounts(d) /\ countedIO[d] \in Nat /\ countedIO[d] <= tnow /\ io[d] \in Nat
      BY <1>1, Numbers DEF IdleInv, ObserverTypes, Reading
    <2>2. Accounts(d)'
      BY <1>1, <1>2, <2>1 DEF Accounts, Known
    <2>3. Reading(d)'
      BY <1>1, <1>2, <2>1 DEF Reading
    <2>4. Awaiting(d)'
      BY <1>1, <1>2, <2>1 DEF Awaiting, Accounts, Known, NoCounters
    <2> QED BY <2>2, <2>3, <2>4
  <1>4. Visiting' /\ Held'
    BY <1>1 DEF IdleInv, Visiting, Held
  <1> QED BY <1>3, <1>4 DEF Parts

LEMMA VisitStep ==
  ASSUME IdleInv, History, Next, NEW d \in Disks, Visit(d)
  PROVE  Parts'
  <1> USE DEF driveVars
  <1>1. /\ tpc = "scan" /\ tpc' = "probe" /\ d \in todo /\ cur' = d /\ todo' = todo \ {d}
        /\ stats' = stats /\ tracked' = tracked /\ io' = io /\ tnow' = tnow /\ linked' = FALSE
    BY DEF Visit
  <1>2. ioSeen' = ioSeen /\ \A x \in Disks : countedIO'[x] = countedIO[x]
    BY <1>1, Observed
  <1>3. ASSUME NEW x \in Disks PROVE Accounts(x)' /\ Reading(x)' /\ Awaiting(x)'
    <2>1. Accounts(x) /\ Reading(x) /\ Awaiting(x)
      BY DEF IdleInv
    <2>2. Accounts(x)'
      BY <1>1, <1>2, <2>1 DEF Accounts, Known
    <2>3. Reading(x)'
      BY <1>1, <1>2, <2>1 DEF Reading
    <2>4. Awaiting(x)'
      BY <1>1, <1>2, <2>1 DEF Awaiting, Known
    <2> QED BY <2>2, <2>3, <2>4
  <1>4. Visiting'
    <2>1. /\ entry'.counters = stats[d] /\ entry'.state = "unknown"
          /\ entry'.idle_since = IF ~Known(d) \/ Touched(d) THEN tnow ELSE tracked[d].idle_since
      BY DEF Visit
    <2>2. /\ ioSeen[d] \in Nat /\ countedIO[d] \in Nat /\ tnow \in Nat
          /\ tracked[d].idle_since \in Nat
      BY Numbers DEF IdleInv, ObserverTypes
    <2>3. Accounts(d) /\ Reading(d) /\ Awaiting(d)
      BY DEF IdleInv
    <2>4. ioSeen[d] <= tnow /\ ioSeen[d] <= countedIO[d]
      BY <1>1, <2>3 DEF Reading
    <2>5. ioSeen[d] <= entry'.idle_since
      <3>1. CASE ~Known(d) \/ Touched(d)
        BY <2>1, <2>4, <3>1
      <3>2. CASE Known(d) /\ ~Touched(d) /\ tracked[d].counters = NoCounters
        BY <2>1, <2>2, <2>3, <2>4, <3>2 DEF Accounts
      <3>3. CASE Known(d) /\ tracked[d].counters # NoCounters /\ ~Touched(d)
        BY <1>1, <2>1, <2>3, <3>3 DEF Awaiting, Touched
      <3> QED BY <3>1, <3>2, <3>3
    <2> QED BY <1>1, <1>2, <2>1, <2>5 DEF Visiting
  <1>5. Held'
    BY <1>1 DEF Held
  <1> QED BY <1>3, <1>4, <1>5 DEF Parts

LEMMA ProbeStep ==
  ASSUME IdleInv, History, Next, Probe
  PROVE  Parts'
  <1> USE DEF driveVars
  <1>1. /\ tpc = "probe" /\ tpc' = "store" /\ tracked' = tracked /\ io' = io /\ tnow' = tnow
        /\ stats' = stats /\ todo' = todo /\ cur' = cur /\ linked' = linked
    BY DEF Probe
  <1>2. ioSeen' = ioSeen /\ \A x \in Disks : countedIO'[x] = countedIO[x]
    BY <1>1, Observed
  <1>3. ASSUME NEW x \in Disks PROVE Accounts(x)' /\ Reading(x)' /\ Awaiting(x)'
    <2>1. Accounts(x) /\ Reading(x) /\ Awaiting(x)
      BY DEF IdleInv
    <2> QED BY <1>1, <1>2, <2>1 DEF Accounts, Reading, Awaiting, Known
  <1>4. PICK s \in Readings(cur) : entry' = [entry EXCEPT !.state = s]
    BY DEF Probe
  <1>5. s # "none"
    BY DEF Readings, IdleInv, TypeOK
  <1>6. /\ entry'.state = s /\ entry'.counters = entry.counters
        /\ entry'.idle_since = entry.idle_since
    BY <1>4 DEF IdleInv, TypeOK, Entry
  <1>7. Visiting'
    BY <1>1, <1>2, <1>5, <1>6 DEF IdleInv, Visiting
  <1>8. Held'
    BY <1>1 DEF IdleInv, Held, Known
  <1> QED BY <1>3, <1>7, <1>8 DEF Parts

LEMMA StoreStep ==
  ASSUME IdleInv, History, Next, Store
  PROVE  Parts'
  <1> USE DEF driveVars
  <1>1. /\ tpc = "store" /\ tracked' = [tracked EXCEPT ![cur] = Settled] /\ io' = io
        /\ ~(tpc = "list" /\ tpc' = "scan")
    BY DEF Store
  <1>2. ioSeen' = ioSeen /\ \A x \in Disks : countedIO'[x] = countedIO[x]
    BY <1>1, Observed
  <1>3. /\ tracked'[cur] = Settled /\ cur \notin todo /\ cur \in Disks
        /\ \A x \in Disks \ {cur} : tracked'[x] = tracked[x]
    BY <1>1 DEF IdleInv, TypeOK, Held
  <1>4. /\ Settled.state # "none" /\ Settled.counters = stats[cur]
        /\ ioSeen[cur] <= Settled.idle_since
    BY <1>1, SettledClock DEF IdleInv, Visiting
  <1>5. stats[cur] <= io[cur] /\ (stats[cur] = io[cur] => countedIO[cur] = ioSeen[cur])
    BY <1>1, <1>3 DEF IdleInv, Reading
  <1>6. ASSUME NEW x \in Disks PROVE Accounts(x)'
    <2>1. Accounts(x) /\ stats[cur] \in Nat
      BY <1>3, Numbers DEF IdleInv
    <2>2. CASE x = cur
      BY <1>1, <1>2, <1>3, <1>4, <1>5, <2>1, <2>2 DEF Accounts, Known, NoCounters
    <2>3. CASE x # cur
      BY <1>1, <1>2, <1>3, <2>1, <2>3 DEF Accounts, Known
    <2> QED BY <2>2, <2>3
  <1>7. \A x \in todo : tracked'[x] = tracked[x]
    BY <1>3, Numbers DEF IdleInv
  <1>8. CASE Due(Settled)
    <2>1. /\ tpc' = "down" /\ linked' = TRUE
          /\ tnow' = tnow /\ stats' = stats /\ todo' = todo /\ cur' = cur
      BY <1>8 DEF Store
    <2>2. ASSUME NEW x \in Disks PROVE Reading(x)' /\ Awaiting(x)'
      <3>1. Reading(x) /\ Awaiting(x)
        BY DEF IdleInv
      <3> QED BY <1>1, <1>2, <1>7, <2>1, <3>1 DEF Reading, Awaiting, Known
    <2>3. Visiting' /\ Held'
      BY <1>3, <1>4, <2>1 DEF Visiting, Held, Known
    <2> QED BY <1>6, <2>2, <2>3 DEF Parts
  <1>9. CASE ~Due(Settled)
    <2>1. NextDisk
      BY <1>9 DEF Store
    <2>2. tpc \notin {"sleep", "list"}
      BY <1>1
    <2> QED BY <1>1, <1>6, <1>7, <2>1, <2>2, NextDiskStep
  <1> QED BY <1>8, <1>9

\* One command of the chain fails, or all of them did: the entry is kept,
\* with a later retry_after.
LEMMA MethodFailsStep ==
  ASSUME IdleInv, History, Next, CommandFails \/ NotVerified
  PROVE  Parts'
  <1> USE DEF driveVars
  <1>1. tpc \in {"down", "settle"} /\ io' = io /\ clock' = clock
    BY DEF CommandFails, NotVerified
  <1>2. CASE tries > 1
    <2>1. /\ tpc' = "down" /\ tracked' = tracked
          /\ UNCHANGED <<tnow, stats, todo, cur, entry, linked>>
      BY <1>1, <1>2 DEF CommandFails, NotVerified
    <2>2. ioSeen' = ioSeen /\ \A x \in Disks : countedIO'[x] = countedIO[x]
      BY <1>1, Observed
    <2>3. ASSUME NEW x \in Disks PROVE Accounts(x)' /\ Reading(x)' /\ Awaiting(x)'
      <3>1. Accounts(x) /\ Reading(x) /\ Awaiting(x)
        BY DEF IdleInv
      <3> QED BY <1>1, <2>1, <2>2, <3>1 DEF Accounts, Reading, Awaiting, Known
    <2>4. Visiting' /\ Held'
      BY <1>1, <2>1 DEF IdleInv, Visiting, Held, Known
    <2> QED BY <2>3, <2>4 DEF Parts
  <1>3. CASE ~(tries > 1)
    <2>1. GiveUp
      BY <1>3 DEF CommandFails, NotVerified
    <2>2. \A x \in Disks : /\ tracked'[x].state = tracked[x].state
                           /\ tracked'[x].counters = tracked[x].counters
                           /\ tracked'[x].idle_since = tracked[x].idle_since
      BY <2>1 DEF GiveUp, IdleInv, TypeOK, Entry
    <2>3. \A x \in todo : tracked'[x] = tracked[x]
      BY <1>1, <2>1 DEF GiveUp, IdleInv, Held, TypeOK
    <2>4. CASE TickOver
      BY <1>1, <2>2, <2>4, TickOverStep DEF Known
    <2>5. CASE NextDisk
      <3>1. \A x \in Disks : countedIO'[x] = countedIO[x]
        BY <1>1, Observed
      <3>2. \A x \in Disks : Accounts(x)'
        BY <1>1, <2>2, <3>1 DEF IdleInv, Accounts, Known
      <3> QED BY <1>1, <2>3, <2>5, <3>2, NextDiskStep
    <2> QED BY <2>1, <2>4, <2>5 DEF GiveUp
  <1> QED BY <1>2, <1>3

LEMMA VerifiedStep ==
  ASSUME IdleInv, History, Next, Verified
  PROVE  Parts'
  <1> USE DEF driveVars
  <1>1. tpc = "settle" /\ io' = io
    BY DEF Verified
  <1>2. /\ tracked' = IF linked THEN [tracked EXCEPT ![cur] = Flagged(tracked[cur], "standby", TRUE)]
                      ELSE tracked
        /\ cur \in Disks /\ cur \notin todo
        /\ linked => Known(cur)
    BY <1>1 DEF Verified, IdleInv, TypeOK, Held
  <1>3. \A x \in Disks : /\ tracked'[x].counters = tracked[x].counters
                         /\ tracked'[x].idle_since = tracked[x].idle_since
                         /\ tracked'[x].state # "none" => Known(x)
    <2>1. CASE linked
      <3>1. tracked'[cur] = Flagged(tracked[cur], "standby", TRUE)
            /\ \A x \in Disks \ {cur} : tracked'[x] = tracked[x]
        BY <1>2, <2>1 DEF IdleInv, TypeOK
      <3> QED BY <1>2, <2>1, <3>1 DEF Flagged, Known
    <2>2. CASE ~linked
      BY <1>2, <2>2 DEF Known
    <2> QED BY <2>1, <2>2
  <1>4. \A x \in todo : tracked'[x] = tracked[x]
    <2>1. todo \subseteq Disks /\ tracked \in [Disks -> Entry]
      BY DEF IdleInv, TypeOK
    <2> QED BY <1>2, <2>1
  <1>5. CASE TickOver
    BY <1>1, <1>3, <1>5, TickOverStep
  <1>6. CASE NextDisk
    <2>1. \A x \in Disks : countedIO'[x] = countedIO[x]
      BY <1>1, Observed
    <2>2. \A x \in Disks : Accounts(x)'
      BY <1>1, <1>3, <2>1 DEF IdleInv, Accounts, Known
    <2> QED BY <1>1, <1>4, <1>6, <2>2, NextDiskStep
  <1> QED BY <1>5, <1>6 DEF Verified

LEMMA CommandStep ==
  ASSUME IdleInv, History, Next, Command
  PROVE  Parts'
  <1>1. /\ tpc = "down" /\ tpc' = "settle" /\ tracked' = tracked /\ io' = io
        /\ UNCHANGED <<tnow, stats, todo, cur, entry, linked>>
    BY DEF Command, localVars
  <1>2. ioSeen' = ioSeen /\ \A x \in Disks : countedIO'[x] = countedIO[x]
    BY <1>1, Observed
  <1>3. ASSUME NEW x \in Disks PROVE Accounts(x)' /\ Reading(x)' /\ Awaiting(x)'
    <2>1. Accounts(x) /\ Reading(x) /\ Awaiting(x)
      BY DEF IdleInv
    <2> QED BY <1>1, <1>2, <2>1 DEF Accounts, Reading, Awaiting, Known
  <1>4. Visiting' /\ Held'
    BY <1>1 DEF IdleInv, Visiting, Held, Known
  <1> QED BY <1>3, <1>4 DEF Parts

\* Finish, a tick that raises, and a restart.
LEMMA AbandonStep ==
  ASSUME IdleInv, History, Next, Finish \/ StoreFails \/ Restart
  PROVE  Parts'
  <1>1. TickOver /\ io' = io
    BY DEF Finish, StoreFails, Restart, driveVars
  <1>2. \A d \in Disks : tracked'[d] = tracked[d] \/ tracked'[d] = NoEntry
    BY DEF Finish, StoreFails, Restart
  <1>3. \A d \in Disks : tracked'[d].state # "none" => Known(d) /\ tracked'[d] = tracked[d]
    BY <1>2 DEF NoEntry, Known
  <1>4. CASE tpc # "sleep"
    BY <1>1, <1>3, <1>4, TickOverStep
  <1>5. CASE tpc = "sleep"
    <2>1. \A d \in Disks : countedIO'[d] = countedIO[d]
      BY <1>1, Observed
    <2>2. ASSUME NEW d \in Disks PROVE Accounts(d)' /\ Reading(d)' /\ Awaiting(d)'
      <3>1. Accounts(d)
        BY DEF IdleInv
      <3> QED BY <1>1, <1>3, <2>1, <3>1 DEF TickOver, Accounts, Reading, Awaiting, Known
    <2>3. Visiting' /\ Held'
      BY <1>1 DEF TickOver, Visiting, Held
    <2> QED BY <2>2, <2>3 DEF Parts
  <1> QED BY <1>4, <1>5

LEMMA RequestStep ==
  ASSUME IdleInv, History, Next, NEW c \in Clients, Serve(c) \/ Call(c)
  PROVE  Parts'
  <1> USE DEF unlinkedVars
  <1>1. req[c].disk \in Disks
    BY DEF IdleInv, TypeOK
  <1>2. CASE NoteSleep(c)
    BY <1>1, <1>2, NoteStep DEF NoteSleep, ManualSleep
  <1>3. CASE NoteWake(c)
    BY <1>1, <1>3, NoteStep DEF NoteWake, ManualWake
  <1>4. CASE Forget(c)
    BY <1>1, <1>4, NoteStep DEF Forget, Forgotten, NoEntry
  <1>5. Call(c) => tracked' = tracked /\ tickVars' = tickVars
    BY DEF Call, SpinDownNow, SpinUpNow, SetPolicy, SetSettings, Takeover
  <1>6. \/ DownCommand(c) \/ DownVerified(c) \/ DownNotVerified(c) \/ Remember(c)
        \/ UpCommand(c) \/ UpVerified(c) \/ UpNotVerified(c)
        => tracked' = tracked /\ tickVars' = tickVars
    BY DEF DownCommand, DownVerified, DownNotVerified, Remember, UpCommand, UpVerified, UpNotVerified
  <1> QED BY <1>2, <1>3, <1>4, <1>5, <1>6, QuietStep DEF Serve

LEMMA NextParts ==
  ASSUME IdleInv, History, Next
  PROVE  Parts'
  <1>1. CASE Tick
    BY <1>1, BeginStep, ReadCountersStep, VisitStep, ProbeStep, StoreStep, CommandStep, MethodFailsStep,
       VerifiedStep, AbandonStep
    DEF Tick
  <1>2. CASE Outside
    <2>1. CASE Restart
      BY <2>1, AbandonStep
    <2>2. CASE Advance \/ \E d \in Disks : DiskIO(d) \/ OutsideStandby(d) \/ OutsideWake(d)
      BY <2>2, QuietStep DEF Advance, DiskIO, OutsideStandby, OutsideWake
    <2> QED BY <1>2, <2>1, <2>2 DEF Outside
  <1>3. CASE \E c \in Clients : Serve(c) \/ Call(c)
    BY <1>3, RequestStep
  <1> QED BY <1>1, <1>2, <1>3 DEF Next

-----------------------------------------------------------------------------
\* The reading of the clock a tick works with is never ahead of the clock.
LEMMA TickTime ==
  ASSUME IdleInv, Next, History
  PROVE  tnow' <= clock'
  <1>1. clock \in Nat /\ clock' \in Nat /\ clock' >= clock /\ tnow <= clock /\ tnow \in Nat
    BY Numbers, Forwards, NextTypeOK, SleepAssumption DEF IdleInv, TypeOK, Time
  <1>2. CASE Begin
    BY <1>2, BeginStep
  <1>3. CASE tnow' \in {tnow, 0}
    BY <1>1, <1>3
  <1>4. Tick => Begin \/ tnow' \in {tnow, 0}
    BY DEF Tick, ReadCounters, Visit, Probe, Store, StoreFails, Command, CommandFails, Verified,
       NotVerified, Finish, GiveUp, NextDisk, TickOver, localVars
  <1>5. Outside => tnow' \in {tnow, 0}
    BY DEF Outside, Advance, Restart, TickOver, DiskIO, OutsideStandby, OutsideWake, tickVars,
       localVars
  <1>6. ASSUME NEW c \in Clients PROVE Call(c) => tnow' \in {tnow, 0}
    BY DEF Call, SpinDownNow, SpinUpNow, SetPolicy, SetSettings, Takeover, tickVars, localVars
  <1>7. ASSUME NEW c \in Clients PROVE Serve(c) => tnow' \in {tnow, 0}
    BY DEF Serve, DownCommand, DownVerified, DownNotVerified, NoteSleep, Remember, UpCommand,
       UpVerified, UpNotVerified, NoteWake, Forget, tickVars, localVars, unlinkedVars
  <1> QED BY <1>2, <1>3, <1>4, <1>5, <1>6, <1>7 DEF Next

LEMMA IdleInvInit == HInit => IdleInv
  <1> SUFFICES ASSUME HInit PROVE IdleInv
    OBVIOUS
  <1> USE DEF HInit, Init, HistInit
  <1>1. TypeOK
    BY InitTypeOK
  <1>2. ObserverTypes
    BY DEF ObserverTypes
  <1>3. tnow <= clock
    OBVIOUS
  <1>4. \A d \in Disks : Accounts(d) /\ Reading(d) /\ Awaiting(d)
    BY DEF Accounts, Reading, Awaiting, Known, NoEntry
  <1>5. Visiting /\ Held
    BY DEF Visiting, Held
  <1> QED BY <1>1, <1>2, <1>3, <1>4, <1>5 DEF IdleInv

LEMMA IdleInvNext == IdleInv /\ [HNext]_hvars => IdleInv'
  <1> SUFFICES ASSUME IdleInv, [HNext]_hvars PROVE IdleInv'
    OBVIOUS
  <1>1. CASE HNext
    <2>1. Next /\ History
      BY <1>1 DEF HNext
    <2>2. TypeOK'
      BY <2>1, NextTypeOK DEF IdleInv
    <2>3. ObserverTypes'
      BY <2>1, Observed
    <2>4. Parts'
      BY <2>1, NextParts
    <2>5. tnow' <= clock'
      BY <2>1, TickTime
    <2> QED BY <2>2, <2>3, <2>4, <2>5 DEF IdleInv, Parts
  <1>2. CASE UNCHANGED hvars
    <2>1. TypeOK'
      BY <1>2, NextTypeOK DEF IdleInv, hvars
    <2>2. /\ ObserverTypes' /\ tnow' <= clock'
          /\ \A d \in Disks : Accounts(d)' /\ Reading(d)' /\ Awaiting(d)'
          /\ Visiting' /\ Held'
      BY <1>2 DEF IdleInv, hvars, vars, hist, driveVars, savedVars, tickVars, localVars,
         ObserverTypes, Accounts, Reading, Awaiting, Visiting, Held, Known
    <2> QED BY <2>1, <2>2 DEF IdleInv
  <1> QED BY <1>1, <1>2

\* Only Store decides to stop a disk, and only when it is due.
LEMMA DecidesIsStore ==
  ASSUME TypeOK, Next, Decides
  PROVE  Store /\ Due(Settled)
  <1>1. tpc = "store" /\ tpc' = "down"
    BY DEF Decides
  <1>2. Store
    <2>1. Outside => tpc' \in {tpc, "sleep"}
      BY DEF Outside, Advance, Restart, TickOver, DiskIO, OutsideStandby, OutsideWake, tickVars
    <2>2. ASSUME NEW c \in Clients PROVE Call(c) => tpc' = tpc
      BY DEF Call, SpinDownNow, SpinUpNow, SetPolicy, SetSettings, Takeover, tickVars
    <2>3. ASSUME NEW c \in Clients PROVE Serve(c) => tpc' = tpc
      BY DEF Serve, DownCommand, DownVerified, DownNotVerified, NoteSleep, Remember, UpCommand,
         UpVerified, UpNotVerified, NoteWake, Forget, tickVars, unlinkedVars
    <2>4. Tick => Store
      BY <1>1 DEF Tick, Begin, ReadCounters, Visit, Probe, StoreFails, TickOver, Command, CommandFails, Verified,
         NotVerified, Finish
    <2> QED BY <1>1, <2>1, <2>2, <2>3, <2>4 DEF Next
  <1>3. Due(Settled)
    BY <1>1, <1>2 DEF Store, NextDisk
  <1> QED BY <1>2, <1>3

(* Every decision of the monitor to stop a disk concerns a disk that, as   *)
(* far as the counters it was given can tell, was not used for its whole   *)
(* idle time: monitor.py:140-156 and the condition at line 175 are enough, *)
(* although requests replace entries between the two.                      *)
THEOREM IdleMeansUnusedHolds == HSpec => IdleMeansUnused
  <1>1. HInit => IdleInv
    BY IdleInvInit
  <1>2. IdleInv /\ [HNext]_hvars => IdleInv'
    BY IdleInvNext
  <1>3. IdleInv /\ [HNext]_hvars => [Decides => tnow - ioSeen[cur] >= limit[cur]]_hvars
    <2> SUFFICES ASSUME IdleInv, HNext, Decides PROVE tnow - ioSeen[cur] >= limit[cur]
      OBVIOUS
    <2>1. TypeOK /\ Next
      BY DEF IdleInv, HNext
    <2>2. Store /\ Due(Settled)
      BY <2>1, DecidesIsStore
    <2>3. Settled.idle_since = entry.idle_since
      BY <2>1, SettledClock
    <2>4. ioSeen[cur] <= entry.idle_since
      BY <2>2 DEF Store, IdleInv, Visiting
    <2>5. tnow - entry.idle_since >= limit[cur]
      BY <2>2, <2>3 DEF Due
    <2>6. /\ ioSeen[cur] \in Nat /\ tnow \in Nat /\ entry.idle_since \in Nat /\ limit[cur] \in Nat
      BY <2>1, Numbers DEF IdleInv, ObserverTypes
    <2> QED BY <2>4, <2>5, <2>6
  <1> QED BY <1>1, <1>2, <1>3, PTL DEF HSpec, IdleMeansUnused

-----------------------------------------------------------------------------
(* Requests that come one at a time and between two ticks                  *)

\* Then one thread works at a time.
Alone ==
  /\ tpc # "sleep" => \A c \in Clients : req[c].pc = "idle"
  /\ \A c, e \in Clients : req[c].pc # "idle" /\ req[e].pc # "idle" => c = e

LEMMA TickAlone ==
  ASSUME ~Overlap, Alone, Tick
  PROVE  req' = req /\ \A c \in Clients : req[c].pc = "idle"
  <1>1. \A c \in Clients : req[c].pc = "idle"
    BY DEF Tick, Begin, ReadCounters, Quiet, Visit, Probe, Store, StoreFails, Command, CommandFails, Verified,
       NotVerified, Finish, Alone
  <1>2. req' = req
    BY DEF Tick, Begin, ReadCounters, Visit, Probe, Store, StoreFails, Command, CommandFails, Verified,
       NotVerified, Finish
  <1> QED BY <1>1, <1>2

LEMMA RequestAlone ==
  ASSUME ~Overlap, TypeOK, Alone, NEW c \in Clients, Serve(c) \/ Call(c)
  PROVE  /\ tpc = "sleep" /\ clock' = clock
         /\ UNCHANGED <<tpc, tnow, limit, stats, seen, todo, cur, was, entry, tries>>
         /\ \A e \in Clients \ {c} : req[e].pc = "idle" /\ req'[e] = req[e]
  <1> USE DEF driveVars, tickVars, localVars, unlinkedVars
  <1>1. CASE Serve(c)
    <2>1. req[c].pc # "idle"
      BY <1>1 DEF Serve, DownCommand, DownVerified, DownNotVerified, NoteSleep, Remember,
         UpCommand, UpVerified, UpNotVerified, NoteWake, Forget
    <2>2. tpc = "sleep" /\ \A e \in Clients \ {c} : req[e].pc = "idle"
      BY <2>1 DEF Alone
    <2>3. \A e \in Clients \ {c} : req'[e] = req[e]
      BY <1>1 DEF TypeOK, Serve, DownCommand, DownVerified, DownNotVerified, NoteSleep, Remember,
         UpCommand, UpVerified, UpNotVerified, NoteWake, Forget, Goto, Done, TryNext
    <2> QED BY <1>1, <2>2, <2>3
            DEF Serve, DownCommand, DownVerified, DownNotVerified, NoteSleep, Remember,
                UpCommand, UpVerified, UpNotVerified, NoteWake, Forget
  <1>2. CASE Call(c)
    <2>1. Quiet
      BY <1>2 DEF Call, SpinDownNow, SpinUpNow, SetPolicy, SetSettings, Takeover, Arrive
    <2>2. \A e \in Clients \ {c} : req'[e] = req[e]
      BY <1>2 DEF TypeOK, Call, SpinDownNow, SpinUpNow, SetPolicy, SetSettings, Takeover
    <2> QED BY <1>2, <2>1, <2>2
            DEF Call, SpinDownNow, SpinUpNow, SetPolicy, SetSettings, Takeover, Quiet
  <1> QED BY <1>1, <1>2

LEMMA AloneNext ==
  ASSUME ~Overlap, TypeOK, Alone, [Next]_vars
  PROVE  Alone'
  <1>1. CASE Tick
    BY <1>1, TickAlone DEF Alone
  <1>2. CASE \E c \in Clients : Serve(c) \/ Call(c)
    BY <1>2, RequestAlone DEF Alone
  <1>3. CASE Restart
    BY <1>3 DEF Restart, TickOver, NoRequest, Alone
  <1>4. CASE Outside /\ ~Restart
    BY <1>4 DEF Outside, Advance, DiskIO, OutsideStandby, OutsideWake, tickVars, Alone
  <1>5. CASE UNCHANGED vars
    BY <1>5 DEF vars, tickVars, Alone
  <1> QED BY <1>1, <1>2, <1>3, <1>4, <1>5 DEF Next, Outside

-----------------------------------------------------------------------------
(* The full idle time after a request                                      *)

\* When a user last handled the disk.
Handlings(d) == {wokenAt[d], changedAt[d]}

\* No idle clock, stored or under construction, started before that.
Rested(d) ==
  \A t \in Handlings(d) :
    /\ t \in Nat /\ t <= clock
    /\ tpc # "sleep" => t <= tnow
    /\ Known(d) => t <= tracked[d].idle_since
    /\ tpc \in {"probe", "store"} /\ d = cur => t <= entry.idle_since

RestedInv ==
  /\ TypeOK /\ Alone /\ tnow <= clock
  /\ linked => Known(cur)
  /\ \A d \in Disks : Rested(d)

LEMMA HandledNow ==
  ASSUME History, NEW d \in Disks
  PROVE  \A t \in Handlings(d)' :
           \/ t \in Handlings(d)
           \/ t = clock /\ \E c \in Clients : req[c].disk = d /\ (NoteWake(c) \/ Forget(c))
  BY DEF History, Handlings

LEMMA RestedTick ==
  ASSUME RestedInv, History, ~Overlap, Next, Tick
  PROVE  tnow' <= clock' /\ (linked' => Known(cur)') /\ \A d \in Disks : Rested(d)'
  <1> USE DEF driveVars, RestedInv
  <1>1. \A d \in Disks : Handlings(d)' \subseteq Handlings(d)
    BY TickAlone, HandledNow DEF NoteWake, Forget
  <1>2. /\ clock \in Nat /\ tnow \in Nat /\ clock' = clock /\ cur \in Disks
        /\ \A d \in Disks : tracked[d] \in Entry /\ tracked[d].idle_since \in Nat
        /\ entry \in Entry
    <2>1. clock' = clock
      BY DEF Tick, Begin, ReadCounters, Visit, Probe, Store, StoreFails, Command, CommandFails, Verified,
         NotVerified, Finish
    <2> QED BY <2>1, Numbers DEF TypeOK
  <1>3. \A d \in Disks : \A t \in Handlings(d)' :
          /\ t \in Nat /\ t <= clock
          /\ tpc # "sleep" => t <= tnow
          /\ Known(d) => t <= tracked[d].idle_since
          /\ tpc \in {"probe", "store"} /\ d = cur => t <= entry.idle_since
    BY <1>1 DEF Rested
  <1>4. ASSUME tnow' = tnow \/ tpc' = "sleep", tpc # "sleep", tpc' \notin {"probe", "store"},
               \A d \in Disks : Known(d)' =>
                 tracked'[d].idle_since = tracked[d].idle_since /\ Known(d)
        PROVE  \A d \in Disks : Rested(d)'
    BY <1>2, <1>3, <1>4 DEF Rested
  <1>5. CASE Begin
    BY <1>2, <1>3, <1>5 DEF Begin, Rested, Known
  <1>6. ASSUME NEW v \in Disks, Visit(v)
        PROVE  tnow' <= clock' /\ (linked' => Known(cur)') /\ \A d \in Disks : Rested(d)'
    BY <1>2, <1>3, <1>6 DEF Visit, Rested, Known
  <1>7. CASE Probe
    <2>1. PICK s \in Readings(cur) : entry' = [entry EXCEPT !.state = s]
      BY <1>7 DEF Probe
    <2>2. entry'.idle_since = entry.idle_since
      BY <1>2, <2>1 DEF Entry
    <2> QED BY <1>2, <1>3, <1>7, <2>2 DEF Probe, Rested, Known
  <1>8. CASE Store
    <2>1. /\ tracked' = [tracked EXCEPT ![cur] = Settled] /\ Settled.idle_since = entry.idle_since
          /\ tracked'[cur] = Settled /\ \A d \in Disks \ {cur} : tracked'[d] = tracked[d]
      BY <1>2, <1>8, SettledClock DEF Store, TypeOK
    <2>2. tpc = "store" /\ tnow' = tnow /\ tpc' \in {"down", "scan"}
          /\ (linked' => cur' = cur /\ Settled.state = "active")
      BY <1>8 DEF Store, NextDisk, Due
    <2> QED BY <1>2, <1>3, <2>1, <2>2 DEF Rested, Known
  <1>9. CASE StoreFails \/ Finish
    <2>1. \A d \in Disks : Known(d)' =>
            tracked'[d].idle_since = tracked[d].idle_since /\ Known(d)
      BY <1>9 DEF StoreFails, Finish, Known, NoEntry
    <2>2. tpc # "sleep" /\ TickOver
      BY <1>9 DEF StoreFails, Finish
    <2> QED BY <1>2, <1>4, <2>1, <2>2 DEF TickOver
  <1>10. CASE Command \/ ReadCounters
    BY <1>2, <1>4, <1>10 DEF Command, ReadCounters, localVars, Known
  <1>11. ASSUME GiveUp, tpc # "sleep"
         PROVE  tnow' <= clock' /\ (linked' => Known(cur)') /\ \A d \in Disks : Rested(d)'
    <2>1. \A d \in Disks : tracked'[d].idle_since = tracked[d].idle_since
                           /\ tracked'[d].state = tracked[d].state
      BY <1>2, <1>11 DEF GiveUp, TypeOK, Entry
    <2> QED BY <1>2, <1>4, <1>11, <2>1 DEF GiveUp, NextDisk, TickOver, Known
  <1>12. CASE (CommandFails \/ NotVerified) /\ tries > 1
    BY <1>2, <1>4, <1>12 DEF CommandFails, NotVerified, Known
  <1>13. CASE (CommandFails \/ NotVerified) /\ ~(tries > 1)
    BY <1>11, <1>13 DEF CommandFails, NotVerified
  <1>14. CASE Verified
    <2>1. \A d \in Disks : Known(d)' =>
            tracked'[d].idle_since = tracked[d].idle_since /\ Known(d)
      BY <1>2, <1>14 DEF Verified, Flagged, Known, TypeOK
    <2>2. tpc # "sleep" /\ (NextDisk \/ TickOver)
      BY <1>14 DEF Verified
    <2> QED BY <1>2, <1>4, <2>1, <2>2 DEF NextDisk, TickOver
  <1> QED BY <1>5, <1>6, <1>7, <1>8, <1>9, <1>10, <1>12, <1>13, <1>14 DEF Tick

LEMMA RestedRequest ==
  ASSUME RestedInv, History, ~Overlap, NEW c \in Clients, Serve(c) \/ Call(c)
  PROVE  tnow' <= clock' /\ (linked' => Known(cur)') /\ \A d \in Disks : Rested(d)'
  <1> USE DEF RestedInv, unlinkedVars, tickVars, localVars
  <1>1. /\ tpc' = "sleep" /\ clock' = clock /\ tnow' = tnow /\ cur' = cur
        /\ \A e \in Clients \ {c} : req[e].pc = "idle"
        /\ req[c].disk \in Disks /\ clock \in Nat
    BY RequestAlone, Numbers DEF TypeOK
  <1>2. ASSUME tracked' = tracked, linked' = linked, req[c].pc \notin {"notewake", "forget"}
        PROVE  tnow' <= clock' /\ (linked' => Known(cur)') /\ \A d \in Disks : Rested(d)'
    <2>1. \A d \in Disks : Handlings(d)' \subseteq Handlings(d)
      BY <1>1, <1>2, HandledNow DEF NoteWake, Forget
    <2> QED BY <1>1, <1>2, <2>1 DEF Rested, Known
  <1>3. ASSUME NEW e, tracked' = [tracked EXCEPT ![req[c].disk] = e], Unlink(req[c].disk),
               e.state = "none" \/ e.idle_since = clock
        PROVE  tnow' <= clock' /\ (linked' => Known(cur)') /\ \A d \in Disks : Rested(d)'
    <2> PICK h \in Disks : h = req[c].disk
      BY <1>1
    <2>1. tracked'[h] = e /\ \A d \in Disks \ {h} : tracked'[d] = tracked[d]
      BY <1>1, <1>3 DEF TypeOK
    <2>2. \A d \in Disks \ {h} : Handlings(d)' \subseteq Handlings(d)
      BY <1>1, HandledNow DEF NoteWake, Forget
    <2>3. \A t \in Handlings(h)' : t \in Nat /\ t <= clock
      BY <1>1, HandledNow DEF Rested
    <2>4. Rested(h)'
      BY <1>1, <1>3, <2>1, <2>3 DEF Rested, Known
    <2>5. ASSUME NEW d \in Disks, d # h PROVE Rested(d)'
      BY <1>1, <2>1, <2>2, <2>5 DEF Rested, Known
    <2>6. linked' => Known(cur)'
      BY <1>1, <1>3, <2>1 DEF Unlink, Known, TypeOK
    <2> QED BY <1>1, <2>4, <2>5, <2>6
  <1>4. CASE NoteSleep(c)
    BY <1>3, <1>4 DEF NoteSleep, ManualSleep
  <1>5. CASE NoteWake(c)
    BY <1>3, <1>5 DEF NoteWake, ManualWake
  <1>6. CASE Forget(c)
    BY <1>3, <1>6 DEF Forget, Forgotten, NoEntry
  <1>7. CASE Call(c)
    <2>1. req[c].pc = "idle" /\ tracked' = tracked /\ linked' = linked
      BY <1>7 DEF Call, SpinDownNow, SpinUpNow, SetPolicy, SetSettings, Takeover, Arrive
    <2> QED BY <1>2, <2>1
  <1>8. CASE \/ DownCommand(c) \/ DownVerified(c) \/ DownNotVerified(c) \/ Remember(c)
             \/ UpCommand(c) \/ UpVerified(c) \/ UpNotVerified(c)
    BY <1>2, <1>8 DEF DownCommand, DownVerified, DownNotVerified, Remember, UpCommand, UpVerified,
       UpNotVerified
  <1> QED BY <1>4, <1>5, <1>6, <1>7, <1>8 DEF Serve

LEMMA RestedOutside ==
  ASSUME RestedInv, History, Outside
  PROVE  tnow' <= clock' /\ (linked' => Known(cur)') /\ \A d \in Disks : Rested(d)'
  <1> USE DEF RestedInv, tickVars, localVars
  <1>1. clock \in Nat /\ tnow \in Nat
    BY Numbers
  <1>2. CASE Restart
    <2>1. \A d \in Disks : \A t \in Handlings(d)' : t \in Nat /\ t <= clock
      BY <1>1, HandledNow DEF Rested
    <2> QED BY <1>1, <1>2, <2>1 DEF Restart, TickOver, driveVars, Rested, Known, NoEntry
  <1>3. CASE ~Restart
    <2>1. /\ tracked' = tracked /\ req' = req /\ tickVars' = tickVars
          /\ clock' \in {clock, clock + 1}
      BY <1>3 DEF Outside, Advance, DiskIO, OutsideStandby, OutsideWake
    <2>2. \A d \in Disks : Handlings(d)' \subseteq Handlings(d)
      <3>1. \A c \in Clients : ~NoteWake(c) /\ ~Forget(c)
        BY <2>1 DEF NoteWake, Forget, Done, NoRequest, TypeOK
      <3> QED BY <3>1, HandledNow
    <2> QED BY <1>1, <2>1, <2>2 DEF Rested, Known
  <1> QED BY <1>2, <1>3

LEMMA RestedInit == HInit => RestedInv
  <1> SUFFICES ASSUME HInit PROVE RestedInv
    OBVIOUS
  <1>1. TypeOK
    BY InitTypeOK DEF HInit
  <1> QED BY <1>1 DEF HInit, Init, HistInit, RestedInv, Alone, Rested, Handlings, Known, NoEntry,
             NoRequest

LEMMA RestedNext == ASSUME ~Overlap PROVE RestedInv /\ [HNext]_hvars => RestedInv'
  <1> SUFFICES ASSUME RestedInv, [HNext]_hvars PROVE RestedInv'
    OBVIOUS
  <1>1. TypeOK' /\ Alone'
    BY NextTypeOK, AloneNext DEF RestedInv, HNext, hvars
  <1>2. tnow' <= clock' /\ (linked' => Known(cur)') /\ \A d \in Disks : Rested(d)'
    <2>1. CASE HNext
      BY <2>1, RestedTick, RestedRequest, RestedOutside DEF HNext, Next
    <2>2. CASE UNCHANGED hvars
      BY <2>2 DEF hvars, vars, hist, driveVars, tickVars, localVars, RestedInv, Rested, Handlings,
         Known
    <2> QED BY <2>1, <2>2
  <1> QED BY <1>1, <1>2 DEF RestedInv

(* With requests between ticks, a disk gets its full idle time again after *)
(* every manual wake and every change of its idle time, for any number of  *)
(* disks and worker threads, whatever fails and whenever the service is    *)
(* restarted.                                                              *)
THEOREM FullIdleAgainHolds == ASSUME ~Overlap PROVE HSpec => FullIdleAgain
  <1>1. RestedInv /\ [HNext]_hvars =>
          /\ [Decides => clock - wokenAt[cur] >= limit[cur]]_hvars
          /\ [Decides => clock - changedAt[cur] >= limit[cur]]_hvars
    <2> SUFFICES ASSUME RestedInv, HNext, Decides
                 PROVE  \A t \in Handlings(cur) : clock - t >= limit[cur]
      BY DEF Handlings
    <2>1. TypeOK /\ Next
      BY DEF RestedInv, HNext
    <2>2. Store /\ Due(Settled)
      BY <2>1, DecidesIsStore
    <2>3. Settled.idle_since = entry.idle_since
      BY <2>1, SettledClock
    <2>4. \A t \in Handlings(cur) : t \in Nat /\ t <= entry.idle_since
      BY <2>1, <2>2, Numbers DEF Store, RestedInv, Rested
    <2>5. tnow - entry.idle_since >= limit[cur] /\ tnow <= clock
      BY <2>2, <2>3 DEF Due, RestedInv
    <2>6. tnow \in Nat /\ clock \in Nat /\ entry.idle_since \in Nat /\ limit[cur] \in Nat
      BY <2>1, Numbers
    <2> QED BY <2>4, <2>5, <2>6
  <1> QED BY <1>1, RestedInit, RestedNext, PTL
          DEF HSpec, FullIdleAgain, FullIdleAfterWake, FullIdleAfterChange

-----------------------------------------------------------------------------
(* The backoff of a drive that refuses                                     *)

\* The last failure is excused, or long enough ago.
BackedOff(d) == failedAt[d] + RetryAfter <= clock

\* A failure that is not is in the entry.
Patient(d) ==
  /\ failedAt[d] \in Int
  /\ tracked[d].state # "unknown"
  /\ BackedOff(d) \/ (Known(d) /\ failedAt[d] + RetryAfter <= tracked[d].retry_after)
  /\ tracked[d].state = "standby" /\ spin[d] = "active" => BackedOff(d)

\* The tick carries it from entry to entry.
Carrying ==
  /\ tpc \in {"probe", "store"} =>
       was = tracked[cur].state /\ entry.retry_after = tracked[cur].retry_after
  /\ tpc = "store" =>
       /\ entry.state \in {"active", "standby"}
       /\ entry.state = "standby" /\ spin[cur] = "active" => BackedOff(cur)
       /\ was = "standby" /\ entry.state = "active" => BackedOff(cur)
  /\ tpc \in {"down", "settle"} =>
       linked /\ tracked[cur].state = "active" /\ BackedOff(cur)

BackoffInv ==
  /\ TypeOK /\ Alone /\ tnow <= clock
  /\ \A d \in Disks : Patient(d)
  /\ Carrying

LEMMA BackoffNumbers ==
  ASSUME BackoffInv
  PROVE  /\ clock \in Nat /\ tnow \in Nat /\ RetryAfter \in Nat /\ cur \in Disks
         /\ entry \in Entry /\ entry.retry_after \in Nat
         /\ \A d \in Disks :
              /\ failedAt[d] \in Int /\ spin[d] \in {"active", "standby"}
              /\ tracked[d] \in Entry /\ tracked[d].retry_after \in Nat
  <1>1. \A e \in Entry : e.retry_after \in Nat
    BY SleepAssumption DEF Entry
  <1>2. entry \in Entry /\ \A d \in Disks : tracked[d] \in Entry /\ spin[d] \in {"active", "standby"}
    BY DEF BackoffInv, TypeOK
  <1>3. \A d \in Disks : failedAt[d] \in Int
    BY DEF BackoffInv, Patient
  <1> QED BY <1>1, <1>2, <1>3, Numbers, SleepAssumption DEF BackoffInv

LEMMA Failing ==
  ASSUME Fails
  PROVE  /\ tpc \in {"down", "settle"} /\ tpc' \in {"scan", "sleep"}
         /\ GiveUp /\ UNCHANGED <<clock, io, req>>
  BY DEF Fails, CommandFails, NotVerified, GiveUp, NextDisk, TickOver, driveVars

LEMMA FailedNow ==
  ASSUME BackoffInv, History, NEW d \in Disks
  PROVE  /\ failedAt'[d] \in Int
         /\ failedAt'[d] \in {failedAt[d], LongAgo} \/ (d = cur /\ Fails /\ failedAt'[d] = clock)
         /\ \/ Renewed(d)
            \/ tracked'[d].state = "none"
            \/ spin[d] = "standby" /\ spin'[d] = "active"
            => failedAt'[d] = LongAgo \/ (d = cur /\ Fails)
  <1>1. failedAt'[d] =
          IF "failure" \in Watch /\ d = cur /\ Fails THEN clock
          ELSE IF Renewed(d) \/ tracked'[d].state = "none"
                  \/ (spin[d] = "standby" /\ spin'[d] = "active")
          THEN LongAgo ELSE failedAt[d]
    BY DEF History
  <1> QED BY <1>1, BackoffNumbers DEF LongAgo

\* Once backed off, always, until it fails again.
LEMMA BackedStays ==
  ASSUME BackoffInv, History, NEW d \in Disks, ~(d = cur /\ Fails), clock' \in Nat, clock' >= clock
  PROVE  /\ BackedOff(d) => BackedOff(d)'
         /\ failedAt'[d] = LongAgo => BackedOff(d)'
  BY FailedNow, BackoffNumbers DEF BackedOff, LongAgo

LEMMA PatientStays ==
  ASSUME BackoffInv, History, NEW d \in Disks, ~(d = cur /\ Fails), clock' \in Nat, clock' >= clock,
         spin'[d] \in {"active", "standby"},
         \/ /\ tracked'[d].state = tracked[d].state
            /\ tracked'[d].retry_after = tracked[d].retry_after
         \/ tracked'[d].state = "none"
         \/ Renewed(d) /\ tracked'[d].state # "unknown"
  PROVE  Patient(d)'
  <1>1. Patient(d) /\ spin[d] \in {"active", "standby"}
    BY BackoffNumbers DEF BackoffInv
  <1>2. CASE failedAt'[d] = LongAgo
    BY <1>1, <1>2, BackedStays, FailedNow DEF Patient
  <1>3. CASE failedAt'[d] # LongAgo
    <2>1. /\ failedAt'[d] = failedAt[d] /\ ~(spin[d] = "standby" /\ spin'[d] = "active")
          /\ tracked'[d].state = tracked[d].state
          /\ tracked'[d].retry_after = tracked[d].retry_after
      BY <1>3, FailedNow
    <2> QED BY <1>1, <2>1, BackedStays, FailedNow DEF Patient, Known
  <1> QED BY <1>2, <1>3

LEMMA BackoffTick ==
  ASSUME BackoffInv, History, ~Overlap, "noanswer" \notin Environment, Next, Tick
  PROVE  tnow' <= clock' /\ (\A d \in Disks : Patient(d)') /\ Carrying'
  <1> DEFINE Goal == tnow' <= clock' /\ (\A d \in Disks : Patient(d)') /\ Carrying'
  <1> USE DEF driveVars
  <1>1. /\ clock' = clock /\ clock' \in Nat /\ clock' >= clock /\ tnow <= clock
        /\ \A d \in Disks : spin'[d] \in {"active", "standby"}
    <2>1. clock' = clock
      BY DEF Tick, Begin, ReadCounters, Visit, Probe, Store, StoreFails, Command, CommandFails, Verified,
         NotVerified, Finish
    <2>2. \A d \in Disks : spin'[d] \in {"active", "standby"}
      BY NextTypeOK DEF BackoffInv, TypeOK
    <2> QED BY <2>1, <2>2, BackoffNumbers DEF BackoffInv
  <1>2. Readings(cur) = {spin[cur]}
    BY DEF Readings
  <1>3. Carrying /\ \A d \in Disks : Patient(d)
    BY DEF BackoffInv
  <1>4. CASE Begin \/ ReadCounters
    <2>1. ~Fails
      BY <1>4, Failing DEF Begin, ReadCounters
    <2>2. \A d \in Disks : Patient(d)'
      BY <1>1, <1>4, <2>1, PatientStays DEF Begin, ReadCounters
    <2> QED BY <1>1, <1>4, <2>2, BackoffNumbers DEF Begin, ReadCounters, Carrying
  <1>5. ASSUME NEW v \in Disks, Visit(v) PROVE Goal
    <2>1. ~Fails
      BY <1>5, Failing DEF Visit
    <2>2. \A d \in Disks : Patient(d)'
      BY <1>1, <1>5, <2>1, PatientStays DEF Visit
    <2>3. Carrying'
      BY <1>5 DEF Visit, Carrying
    <2> QED BY <1>1, <1>5, <2>2, <2>3 DEF Visit
  <1>6. CASE Probe
    <2>1. ~Fails
      BY <1>6, Failing DEF Probe
    <2>2. \A d \in Disks : Patient(d)'
      BY <1>1, <1>6, <2>1, PatientStays DEF Probe
    <2>3. entry' = [entry EXCEPT !.state = spin[cur]]
      BY <1>2, <1>6 DEF Probe
    <2>4. entry'.state = spin[cur] /\ entry'.retry_after = entry.retry_after
      BY <2>3, BackoffNumbers DEF Entry
    <2>5. UNCHANGED <<tracked, spin, cur, was, tnow>> /\ tpc = "probe" /\ tpc' = "store"
      BY <1>6 DEF Probe
    <2>6. tracked[cur].state = "standby" /\ spin[cur] = "active" => BackedOff(cur)'
      <3> PICK d \in Disks : d = cur
        BY BackoffNumbers
      <3>1. tracked[d].state = "standby" /\ spin[d] = "active" => BackedOff(d)'
        BY <1>1, <1>3, <2>1, BackedStays DEF Patient
      <3> QED BY <2>5, <3>1 DEF BackedOff
    <2>7. Carrying'
      BY <1>3, <2>4, <2>5, <2>6, BackoffNumbers DEF Carrying
    <2> QED BY <1>1, <2>2, <2>5, <2>7
  <1>7. CASE Store
    <2>1. /\ tracked' = [tracked EXCEPT ![cur] = Settled]
          /\ tracked'[cur] = Settled /\ \A d \in Disks \ {cur} : tracked'[d] = tracked[d]
          /\ tpc = "store" /\ spin' = spin
      BY <1>7, BackoffNumbers DEF Store, BackoffInv, TypeOK
    <2>2. ~Fails
      BY <2>1, Failing
    <2>3. /\ Settled.state = entry.state
          /\ BackedOff(cur) \/ failedAt[cur] + RetryAfter <= Settled.retry_after
      <3>1. CASE Changed /\ entry.state = "active"
        <4>1. was = "standby"
          BY <1>3, <2>1, <3>1, BackoffNumbers
             DEF Changed, Carrying, Patient, Entry, PowerStates
        <4>2. BackedOff(cur)
          BY <1>3, <2>1, <3>1, <4>1 DEF Carrying
        <4>3. Settled.state = "active"
          BY <3>1 DEF Settled, Flagged
        <4> QED BY <3>1, <4>2, <4>3
      <3>2. CASE ~(Changed /\ entry.state = "active")
        BY <1>3, <2>1, <3>2, BackoffNumbers DEF Settled, Carrying, Patient
      <3> QED BY <3>1, <3>2
    <2>4. ASSUME NEW d \in Disks, d = cur PROVE Patient(d)'
      <3>1. /\ entry.state \in {"active", "standby"} /\ tracked'[d] = Settled
            /\ entry.state = "standby" /\ spin[d] = "active" => BackedOff(d)
        BY <1>3, <2>1, <2>4 DEF Carrying
      <3>2. /\ BackedOff(d) => BackedOff(d)'
            /\ failedAt'[d] = LongAgo => BackedOff(d)'
            /\ failedAt'[d] \in {failedAt[d], LongAgo} /\ failedAt'[d] \in Int
        BY <1>1, <2>2, BackedStays, FailedNow
      <3> QED BY <2>1, <2>3, <2>4, <3>1, <3>2 DEF Patient, Known
    <2>5. \A d \in Disks : Patient(d)'
      BY <1>1, <2>1, <2>2, <2>4, PatientStays
    <2>6. Carrying' /\ tnow' = tnow
      <3>1. CASE Due(Settled)
        <4>1. /\ cur' = cur /\ linked' /\ tpc' = "down" /\ tnow' = tnow
              /\ tracked'[cur].state = "active" /\ tnow >= Settled.retry_after
          BY <1>7, <2>1, <3>1 DEF Store, Due
        <4>2. Settled.retry_after \in Nat
          BY BackoffNumbers DEF Settled, Flagged
        <4>3. BackedOff(cur)
          BY <1>1, <2>3, <4>1, <4>2, BackoffNumbers DEF BackedOff
        <4>4. BackedOff(cur)'
          <5> PICK d \in Disks : d = cur
            BY BackoffNumbers
          <5>1. BackedOff(d)'
            BY <1>1, <2>2, <4>3, BackedStays
          <5> QED BY <4>1, <5>1 DEF BackedOff
        <4> QED BY <4>1, <4>4 DEF Carrying
      <3>2. CASE ~Due(Settled)
        BY <1>7, <3>2 DEF Store, NextDisk, Carrying
      <3> QED BY <3>1, <3>2
    <2> QED BY <1>1, <2>5, <2>6
  <1>8. CASE StoreFails \/ Finish
    <2>1. TickOver /\ ~Fails /\ \A d \in Disks : tracked'[d] \in {tracked[d], NoEntry}
      BY <1>8, Failing DEF StoreFails, Finish
    <2>2. \A d \in Disks : Patient(d)'
      BY <1>1, <2>1, PatientStays DEF NoEntry
    <2> QED BY <1>1, <2>1, <2>2, BackoffNumbers DEF TickOver, Carrying
  <1>9. CASE Command
    <2>1. ~Fails /\ tracked' = tracked
      BY <1>9, Failing DEF Command
    <2>2. \A d \in Disks : Patient(d)'
      BY <1>1, <2>1, PatientStays
    <2>3. BackedOff(cur)'
      <3> PICK d \in Disks : d = cur
        BY BackoffNumbers
      <3>1. BackedOff(d)'
        BY <1>1, <1>3, <1>9, <2>1, BackedStays DEF Carrying, Command
      <3> QED BY <1>9, <3>1 DEF Command, localVars, BackedOff
    <2>4. Carrying'
      BY <1>3, <1>9, <2>1, <2>3 DEF Command, localVars, Carrying
    <2> QED BY <1>1, <1>9, <2>2, <2>4 DEF Command, localVars
  <1>10. ASSUME GiveUp, tpc \in {"down", "settle"} PROVE Goal
    <2>1. /\ linked /\ tracked[cur].state = "active" /\ BackedOff(cur)
          /\ tracked' = [tracked EXCEPT ![cur].retry_after = clock + RetryAfter]
      BY <1>3, <1>10 DEF Carrying, GiveUp
    <2>2. ASSUME NEW d \in Disks, d = cur PROVE Patient(d)'
      <3>1. tracked'[d].state = "active" /\ tracked'[d].retry_after = clock + RetryAfter
        BY <2>1, <2>2, BackoffNumbers DEF BackoffInv, TypeOK, Entry
      <3>2. /\ failedAt'[d] \in Int
            /\ failedAt'[d] \in {failedAt[d], LongAgo, clock}
        BY FailedNow
      <3>3. failedAt'[d] + RetryAfter <= clock + RetryAfter
        BY <2>1, <2>2, <3>2, BackoffNumbers DEF BackedOff, LongAgo
      <3> QED BY <1>1, <3>1, <3>2, <3>3 DEF Patient, Known
    <2>3. ASSUME NEW d \in Disks, d # cur PROVE Patient(d)'
      <3>1. tracked'[d] = tracked[d]
        BY <2>1, <2>3, BackoffNumbers DEF BackoffInv, TypeOK
      <3> QED BY <1>1, <2>3, <3>1, PatientStays
    <2> QED BY <1>1, <1>10, <2>2, <2>3, BackoffNumbers DEF GiveUp, NextDisk, TickOver, Carrying
  <1>11. CASE (CommandFails \/ NotVerified) /\ tries > 1
    <2>1. /\ tracked' = tracked /\ tpc \in {"down", "settle"} /\ tpc' = "down"
          /\ UNCHANGED <<cur, linked, tnow>>
      BY <1>11 DEF CommandFails, NotVerified
    <2>2. ~Fails
      BY <1>11 DEF Fails
    <2>3. \A d \in Disks : Patient(d)'
      BY <1>1, <2>1, <2>2, PatientStays
    <2>4. BackedOff(cur)'
      <3> PICK d \in Disks : d = cur
        BY BackoffNumbers
      <3>1. BackedOff(d)'
        BY <1>1, <1>3, <2>1, <2>2, BackedStays DEF Carrying
      <3> QED BY <2>1, <3>1 DEF BackedOff
    <2> QED BY <1>1, <1>3, <2>1, <2>3, <2>4 DEF Carrying
  <1>12. CASE (CommandFails \/ NotVerified) /\ ~(tries > 1)
    BY <1>10, <1>12 DEF CommandFails, NotVerified
  <1>13. CASE Verified
    <2>1. ~Fails
      BY <1>2, <1>13 DEF Fails, Verified, CommandFails, NotVerified
    <2>2. /\ linked /\ BackedOff(cur) /\ spin[cur] = "standby" /\ spin' = spin
          /\ tracked' = [tracked EXCEPT ![cur] = Flagged(tracked[cur], "standby", TRUE)]
          /\ NextDisk \/ TickOver
      BY <1>2, <1>3, <1>13 DEF Carrying, Verified
    <2>3. ASSUME NEW d \in Disks, d = cur PROVE Patient(d)'
      <3>1. tracked'[d].state = "standby"
        BY <2>2, <2>3, BackoffNumbers DEF BackoffInv, TypeOK, Flagged
      <3>2. BackedOff(d)' /\ failedAt'[d] \in Int
        BY <1>1, <2>1, <2>2, <2>3, BackedStays, FailedNow
      <3> QED BY <3>1, <3>2 DEF Patient
    <2>4. ASSUME NEW d \in Disks, d # cur PROVE Patient(d)'
      <3>1. tracked'[d] = tracked[d]
        BY <2>2, <2>4, BackoffNumbers DEF BackoffInv, TypeOK
      <3> QED BY <1>1, <2>1, <3>1, PatientStays
    <2>5. tnow' \in {tnow, 0} /\ tpc' \in {"scan", "sleep"}
      BY <2>2 DEF NextDisk, TickOver
    <2>6. tnow' <= clock' /\ Carrying'
      BY <1>1, <2>5, BackoffNumbers DEF Carrying
    <2> QED BY <2>3, <2>4, <2>6
  <1> QED BY <1>4, <1>5, <1>6, <1>7, <1>8, <1>9, <1>11, <1>12, <1>13 DEF Tick

LEMMA BackoffRequest ==
  ASSUME BackoffInv, History, ~Overlap, Next, NEW c \in Clients, Serve(c) \/ Call(c)
  PROVE  tnow' <= clock' /\ (\A d \in Disks : Patient(d)') /\ Carrying'
  <1>1. /\ tpc = "sleep" /\ tpc' = "sleep" /\ clock' = clock /\ tnow' = tnow
        /\ req[c].disk \in Disks
    BY RequestAlone DEF BackoffInv, TypeOK
  <1>2. tnow' <= clock' /\ Carrying'
    BY <1>1 DEF BackoffInv, Carrying
  <1>3. ~Fails /\ clock' \in Nat /\ clock' >= clock
    BY <1>1, Failing, BackoffNumbers
  <1>4. \A d \in Disks : spin'[d] \in {"active", "standby"}
    BY NextTypeOK DEF BackoffInv, TypeOK
  <1>5. ASSUME tracked' = tracked PROVE \A d \in Disks : Patient(d)'
    BY <1>3, <1>4, <1>5, PatientStays
  <1>6. ASSUME NEW e, tracked' = [tracked EXCEPT ![req[c].disk] = e], e.state # "unknown",
               NoteSleep(c) \/ NoteWake(c) \/ Forget(c)
        PROVE  \A d \in Disks : Patient(d)'
    <2>1. Renewed(req[c].disk) /\ tracked'[req[c].disk].state # "unknown"
      BY <1>1, <1>6 DEF Renewed, BackoffInv, TypeOK
    <2>2. \A d \in Disks : d # req[c].disk => tracked'[d] = tracked[d]
      BY <1>6 DEF BackoffInv, TypeOK
    <2> QED BY <1>3, <1>4, <2>1, <2>2, PatientStays
  <1>7. CASE NoteSleep(c)
    <2>1. tracked' = [tracked EXCEPT ![req[c].disk] = ManualSleep(req[c].disk)]
      BY <1>7 DEF NoteSleep
    <2>2. ManualSleep(req[c].disk).state # "unknown"
      BY DEF ManualSleep
    <2>3. \A d \in Disks : Patient(d)'
      BY <1>6, <1>7, <2>1, <2>2
    <2> QED BY <1>2, <2>3
  <1>8. CASE NoteWake(c)
    <2>1. tracked' = [tracked EXCEPT ![req[c].disk] = ManualWake(req[c].disk)]
      BY <1>8 DEF NoteWake
    <2>2. ManualWake(req[c].disk).state # "unknown"
      BY DEF ManualWake
    <2>3. \A d \in Disks : Patient(d)'
      BY <1>6, <1>8, <2>1, <2>2
    <2> QED BY <1>2, <2>3
  <1>9. CASE Forget(c)
    <2>1. tracked' = [tracked EXCEPT ![req[c].disk] = Forgotten(req[c].disk)]
      BY <1>9 DEF Forget
    <2>2. Forgotten(req[c].disk).state # "unknown"
      BY DEF Forgotten, NoEntry
    <2>3. \A d \in Disks : Patient(d)'
      BY <1>6, <1>9, <2>1, <2>2
    <2> QED BY <1>2, <2>3
  <1>10. CASE Call(c)
    BY <1>2, <1>5, <1>10 DEF Call, SpinDownNow, SpinUpNow, SetPolicy, SetSettings, Takeover
  <1>11. CASE \/ DownCommand(c) \/ DownVerified(c) \/ DownNotVerified(c) \/ Remember(c)
              \/ UpCommand(c) \/ UpVerified(c) \/ UpNotVerified(c)
    BY <1>2, <1>5, <1>11 DEF DownCommand, DownVerified, DownNotVerified, Remember, UpCommand, UpVerified,
       UpNotVerified
  <1> QED BY <1>2, <1>7, <1>8, <1>9, <1>10, <1>11 DEF Serve

LEMMA BackoffOutside ==
  ASSUME BackoffInv, History, "noanswer" \notin Environment, Next, Outside
  PROVE  tnow' <= clock' /\ (\A d \in Disks : Patient(d)') /\ Carrying'
  <1>1. \A d \in Disks : spin'[d] \in {"active", "standby"}
    BY NextTypeOK DEF BackoffInv, TypeOK
  <1>2. CASE Restart
    <2>1. clock' = clock /\ TickOver /\ \A d \in Disks : tracked'[d] = NoEntry
      BY <1>2 DEF Restart, driveVars
    <2>2. ~Fails
      <3>1. ASSUME Fails PROVE FALSE
        <4>1. tracked' = [tracked EXCEPT ![cur].retry_after = clock + RetryAfter]
              /\ tracked[cur].state = "active"
          BY <3>1, Failing DEF GiveUp, BackoffInv, Carrying
        <4>2. tracked'[cur].state = "active"
          BY <4>1, BackoffNumbers DEF BackoffInv, TypeOK, Entry
        <4> QED BY <2>1, <4>2, BackoffNumbers DEF NoEntry
      <3> QED BY <3>1
    <2>3. \A d \in Disks : Patient(d)'
      BY <1>1, <2>1, <2>2, PatientStays, BackoffNumbers DEF NoEntry
    <2> QED BY <2>1, <2>3, BackoffNumbers DEF TickOver, Carrying
  <1>3. CASE ~Restart
    <2>1. /\ tracked' = tracked /\ UNCHANGED tickVars
          /\ clock' \in {clock, clock + 1} /\ tpc' = tpc
      BY <1>3, BackoffNumbers DEF BackoffInv, TypeOK, Outside, Advance, DiskIO, OutsideStandby,
         OutsideWake, tickVars
    <2>2. ~Fails /\ clock' \in Nat /\ clock' >= clock
      BY <2>1, Failing, BackoffNumbers
    <2>3. \A d \in Disks : Patient(d)'
      BY <1>1, <2>1, <2>2, PatientStays
    <2>4. \A d \in Disks : BackedOff(d) => BackedOff(d)'
      BY <2>2, BackedStays
    <2>5. \A d \in Disks : spin[d] = "standby" /\ spin'[d] = "active" => BackedOff(d)'
      BY <2>2, FailedNow, BackedStays
    <2>6. Carrying'
      <3> PICK d \in Disks : d = cur
        BY BackoffNumbers
      <3>1. cur' = d /\ spin[d] \in {"active", "standby"} /\ Carrying
        BY <2>1, BackoffNumbers DEF tickVars, localVars, BackoffInv
      <3>2. /\ BackedOff(d) => BackedOff(cur)'
            /\ spin[d] = "standby" /\ spin'[d] = "active" => BackedOff(cur)'
        BY <2>4, <2>5, <3>1 DEF BackedOff
      <3>3. UNCHANGED <<tpc, was, entry, linked, tracked>>
        BY <2>1 DEF tickVars, localVars
      <3> QED BY <3>1, <3>2, <3>3 DEF Carrying
    <2> QED BY <2>1, <2>2, <2>3, <2>6, BackoffNumbers DEF BackoffInv, tickVars, localVars
  <1> QED BY <1>2, <1>3

LEMMA BackoffInit == HInit => BackoffInv
  <1> SUFFICES ASSUME HInit PROVE BackoffInv
    OBVIOUS
  <1>1. TypeOK
    BY InitTypeOK DEF HInit
  <1>2. \A d \in Disks : Patient(d)
    BY SleepAssumption
       DEF HInit, Init, HistInit, Patient, BackedOff, LongAgo, Known, NoEntry
  <1> QED BY <1>1, <1>2 DEF HInit, Init, BackoffInv, Alone, Carrying, NoRequest

LEMMA BackoffNext ==
  ASSUME ~Overlap, "noanswer" \notin Environment
  PROVE  BackoffInv /\ [HNext]_hvars => BackoffInv'
  <1> SUFFICES ASSUME BackoffInv, [HNext]_hvars PROVE BackoffInv'
    OBVIOUS
  <1>1. TypeOK' /\ Alone'
    BY NextTypeOK, AloneNext DEF BackoffInv, HNext, hvars
  <1>2. tnow' <= clock' /\ (\A d \in Disks : Patient(d)') /\ Carrying'
    <2>1. CASE HNext
      BY <2>1, BackoffTick, BackoffRequest, BackoffOutside DEF HNext, Next
    <2>2. CASE UNCHANGED hvars
      BY <2>2 DEF hvars, vars, hist, driveVars, tickVars, localVars, BackoffInv, Patient, Carrying,
         BackedOff, Known
    <2> QED BY <2>1, <2>2
  <1> QED BY <1>1, <1>2 DEF BackoffInv

(* With requests between ticks and drives that answer, a drive that        *)
(* refused every command is left alone for RETRY_AFTER unless something    *)
(* excuses it, for any number of disks, commands and failures of the log.  *)
THEOREM BackoffHoldsHolds ==
  ASSUME ~Overlap, "noanswer" \notin Environment
  PROVE  HSpec => BackoffHolds
  <1>1. BackoffInv /\ [HNext]_hvars => [Decides => clock - failedAt[cur] >= RetryAfter]_hvars
    <2> SUFFICES ASSUME BackoffInv, HNext, Decides PROVE clock - failedAt[cur] >= RetryAfter
      OBVIOUS
    <2>1. TypeOK /\ Next /\ Store /\ Due(Settled) /\ tpc = "store"
      BY DecidesIsStore DEF BackoffInv, HNext, Store
    <2>2. tnow >= Settled.retry_after /\ entry.state = "active" /\ tnow <= clock
      BY <2>1, SettledClock DEF Due, BackoffInv
    <2>3. CASE Changed
      <3>1. was = "standby"
        BY <2>1, <2>2, <2>3, BackoffNumbers
           DEF Changed, BackoffInv, Carrying, Patient, Entry, PowerStates
      <3>2. BackedOff(cur)
        BY <2>1, <2>2, <3>1 DEF BackoffInv, Carrying
      <3> QED BY <3>2, BackoffNumbers DEF BackedOff
    <2>4. CASE ~Changed
      <3>1. entry.retry_after = tracked[cur].retry_after /\ Settled = entry
        BY <2>1, <2>4 DEF BackoffInv, Carrying, Settled
      <3> QED BY <2>2, <3>1, BackoffNumbers DEF BackoffInv, Patient, BackedOff
    <2> QED BY <2>3, <2>4
  <1> QED BY <1>1, BackoffInit, BackoffNext, PTL DEF HSpec, BackoffHolds


-----------------------------------------------------------------------------
(* The log                                                                 *)

Moved(d) == outside[d] \/ "rows" \notin Watch

InSync(d) == tracked[d].state \in {"none", spin[d]} \/ Moved(d)

Noting(d) == \E c \in Clients : req[c].disk = d /\ req[c].pc \in {"notesleep", "notewake"}

\* Between a command and the note or the entry that says what came of it.
InHand(d) ==
  \/ tpc \in {"store", "settle"} /\ cur = d
  \/ \E c \in Clients : req[c].disk = d /\ req[c].pc \in {"downsettle", "upsettle"}
  \/ Noting(d)

\* The entry of a disk nobody has in hand is true of the drive, unless
\* something else moved it since, and the newest row agrees with the entry.
Truthful(d) ==
  /\ tracked[d].state # "unknown"
  /\ InHand(d) \/ InSync(d)
  /\ logged[d] =>
       Known(d) /\ (Noting(d) \/ (lastRow[d].event = "sleep" <=> tracked[d].state = "standby"))

Visited ==
  /\ tpc \in {"probe", "store"} => was = tracked[cur].state
  /\ tpc = "store" =>
       /\ entry.state \in {"active", "standby"}
       /\ entry.state = spin[cur] \/ Moved(cur)
       /\ was \in {"none", entry.state} \/ outsideSeen \/ "rows" \notin Watch
  /\ tpc \in {"down", "settle"} => linked /\ tracked[cur].state = "active"

Serving(c) ==
  LET d == req[c].disk
  IN  /\ req[c].pc = "downsettle" => InSync(d) \/ spin[d] = "standby"
      /\ req[c].pc = "upsettle" => InSync(d) \/ spin[d] = "active"
      /\ req[c].pc = "notesleep" =>
           lastRow[d].event = "sleep" /\ (spin[d] = "standby" \/ Moved(d))
      /\ req[c].pc = "notewake" =>
           lastRow[d].event = "wake" /\ (spin[d] = "active" \/ Moved(d))

LogInv ==
  /\ TypeOK /\ Alone /\ NoPhantomRow
  /\ \A d \in Disks : Truthful(d)
  /\ Visited
  /\ \A c \in Clients : Serving(c)

LEMMA LogTypes ==
  ASSUME LogInv
  PROVE  /\ cur \in Disks /\ \A c \in Clients : req[c].disk \in Disks
         /\ \A d \in Disks : Truthful(d) /\ spin[d] \in {"active", "standby"}
  BY DEF LogInv, TypeOK

\* Who stays moved, and in sync, over a step.
LEMMA StillMoved ==
  ASSUME History, NEW d \in Disks, ~Logged(d), ~((ReadsDrive \/ Verified) /\ d = cur)
  PROVE  /\ MovedOutside(d) \/ MovedUnknown(d) => Moved(d)'
         /\ spin'[d] = spin[d] \/ MovedOutside(d) \/ MovedUnknown(d) =>
              /\ Moved(d) => Moved(d)'
              /\ InSync(d) /\ tracked'[d].state = tracked[d].state => InSync(d)'
  <1>1. outside'[d] = ("rows" \in Watch /\ (MovedOutside(d) \/ MovedUnknown(d) \/ StillOutside(d)))
    BY DEF History
  <1>2. MovedOutside(d) \/ MovedUnknown(d) => Moved(d)'
    BY <1>1 DEF Moved
  <1>3. spin'[d] = spin[d] /\ Moved(d) => Moved(d)'
    BY <1>1 DEF Moved, StillOutside
  <1> QED BY <1>2, <1>3 DEF InSync

\* A disk whose entry and row the step leaves alone.
LEMMA KeptTruthful ==
  ASSUME LogInv, History, NEW d \in Disks,
         tracked'[d].state = tracked[d].state, lastRow'[d] = lastRow[d],
         InHand(d)' \/ InSync(d)', Noting(d) => Noting(d)'
  PROVE  Truthful(d)'
  <1>1. logged'[d] => logged[d]
    BY DEF History
  <1> QED BY <1>1, LogTypes DEF Truthful, Known

LEMMA ForgottenTruthful ==
  ASSUME History, NEW d \in Disks, tracked'[d].state = "none"
  PROVE  Truthful(d)'
  <1>1. ~logged'[d]
    BY DEF History
  <1> QED BY <1>1 DEF Truthful, InSync

\* A row of the monitor is about something it saw.
LEMMA PhantomNext ==
  ASSUME LogInv, History
  PROVE  NoPhantomRow'
  <1>1. ASSUME "rows" \in Watch, Store, WakeRow \/ SleepRow, ~outsideSeen PROVE FALSE
    BY <1>1 DEF LogInv, Visited, Store, WakeRow, SleepRow, Changed
  <1> QED BY <1>1 DEF LogInv, NoPhantomRow, History

LEMMA LogTick ==
  ASSUME LogInv, History, ~Overlap, "noanswer" \notin Environment, "dbfail" \notin Environment,
         Tick
  PROVE  (\A d \in Disks : Truthful(d)') /\ Visited'
  <1> DEFINE Goal == (\A d \in Disks : Truthful(d)') /\ Visited'
  <1> USE DEF driveVars
  <1>1. PICK k \in Disks : k = cur
    BY LogTypes
  <1>2. /\ req' = req /\ \A d \in Disks : ~Noting(d) /\ ~Noting(d)' /\ ~Logged(d)
        /\ \A d \in Disks : InHand(d) <=> tpc \in {"store", "settle"} /\ d = cur
        /\ \A d \in Disks : InHand(d)' <=> tpc' \in {"store", "settle"} /\ d = cur'
    BY TickAlone DEF LogInv, Noting, Logged, InHand
  <1>3. Readings(cur) = {spin[cur]} /\ Visited
    BY DEF Readings, LogInv
  \* The disks the step is not about.
  <1>4. ASSUME NEW d \in Disks, tpc \in {"probe", "store", "settle"} => d # cur,
               tracked'[d].state = tracked[d].state, lastRow'[d] = lastRow[d], spin'[d] = spin[d]
        PROVE  Truthful(d)'
    <2>1. InSync(d) /\ ~((ReadsDrive \/ Verified) /\ d = cur)
      BY <1>2, <1>4, LogTypes DEF Truthful, ReadsDrive, Verified
    <2> QED BY <1>2, <1>4, <2>1, StillMoved, KeptTruthful
  <1>5. CASE Begin \/ ReadCounters
    BY <1>4, <1>5 DEF Begin, ReadCounters, Visited
  <1>6. ASSUME NEW v \in Disks, Visit(v) PROVE Goal
    BY <1>4, <1>6 DEF Visit, Visited
  <1>7. CASE Probe
    <2>1. /\ entry' = [entry EXCEPT !.state = spin[cur]] /\ tpc = "probe" /\ tpc' = "store"
          /\ UNCHANGED <<spin, tracked, lastRow, cur, was>>
      BY <1>3, <1>7 DEF Probe
    <2>2. entry'.state = spin[cur] /\ spin[cur] \in {"active", "standby"}
      BY <2>1, LogTypes DEF LogInv, TypeOK, Entry
    <2>3. was = tracked[cur].state /\ InSync(cur)
      BY <1>1, <1>2, <1>3, <2>1, LogTypes DEF Visited, Truthful
    <2>4. outsideSeen' = outside[cur]
      BY <2>1, <2>2 DEF History, ReadsDrive
    <2>5. Visited'
      BY <2>1, <2>2, <2>3, <2>4 DEF Visited, InSync, Moved
    <2>6. Truthful(k)'
      BY <1>1, <1>2, <2>1, KeptTruthful
    <2> QED BY <1>1, <1>4, <2>1, <2>5, <2>6
  <1>8. CASE Store
    <2>1. /\ tracked'[k] = Settled /\ spin' = spin /\ tpc = "store" /\ tpc' \in {"down", "scan"}
          /\ \A d \in Disks \ {k} : tracked'[d] = tracked[d] /\ lastRow'[d] = lastRow[d]
      BY <1>1, <1>8 DEF Store, NextDisk, LogInv, TypeOK
    <2>2. /\ Settled.state = entry.state /\ entry.state \in {"active", "standby"}
          /\ entry.state = spin[k] \/ Moved(k)
          /\ was = tracked[k].state /\ was # "unknown"
      <3>1. Settled.state = entry.state
        BY DEF Settled, Flagged
      <3> QED BY <1>1, <1>3, <2>1, <3>1, LogTypes DEF Visited, Truthful
    <2>3. InSync(k)'
      BY <1>2, <2>1, <2>2, StillMoved DEF InSync, ReadsDrive, Verified
    <2>4. logged'[k] => (lastRow'[k].event = "sleep" <=> entry.state = "standby")
      <3>1. CASE WakeRow
        <4>1. lastRow'[k].event = "wake"
          BY <1>1, <1>8, <3>1 DEF Store, LogInv, TypeOK
        <4> QED BY <3>1, <4>1 DEF WakeRow, Changed
      <3>2. CASE ~WakeRow /\ SleepRow
        <4>1. lastRow'[k].event = "sleep"
          BY <1>1, <1>8, <3>2 DEF Store, LogInv, TypeOK
        <4> QED BY <3>2, <4>1 DEF SleepRow
      <3>3. CASE ~WakeRow /\ ~SleepRow
        <4>1. lastRow' = lastRow /\ was \in PowerStates \cup {"none"}
          BY <1>8, <3>3 DEF Store, LogInv, TypeOK
        <4>2. was = "none" \/ was = entry.state
          BY <2>2, <3>3, <4>1 DEF WakeRow, SleepRow, Changed, PowerStates
        <4>3. logged'[k] => logged[k]
          BY <4>1 DEF History
        <4> QED BY <1>2, <2>2, <4>1, <4>2, <4>3, LogTypes DEF Truthful, Known
      <3> QED BY <3>1, <3>2, <3>3
    <2>5. Truthful(k)'
      BY <2>1, <2>2, <2>3, <2>4 DEF Truthful, Known
    <2>6. Visited'
      <3>1. CASE Due(Settled)
        BY <1>1, <1>8, <2>1, <3>1 DEF Store, Due, Visited
      <3>2. CASE ~Due(Settled)
        BY <1>8, <3>2 DEF Store, NextDisk, Visited
      <3> QED BY <3>1, <3>2
    <2> QED BY <1>1, <1>4, <2>1, <2>5, <2>6
  <1>9. CASE Finish
    <2>1. \A d \in Disks : tracked'[d] \in {tracked[d], NoEntry}
      BY <1>9 DEF Finish
    <2>2. /\ tpc = "scan" /\ tpc' = "sleep" /\ UNCHANGED <<spin, lastRow>>
      BY <1>9 DEF Finish, TickOver
    <2> QED BY <1>4, <2>1, <2>2, ForgottenTruthful DEF NoEntry, Visited
  <1>10. CASE Command
    <2>1. /\ tpc = "down" /\ tpc' = "settle" /\ UNCHANGED <<tracked, lastRow, cur, linked>>
          /\ \A d \in Disks \ {k} : spin'[d] = spin[d]
      BY <1>1, <1>10 DEF Command, localVars, LogInv, TypeOK
    <2>2. Truthful(k)'
      BY <1>1, <1>2, <2>1, KeptTruthful
    <2> QED BY <1>1, <1>3, <1>4, <2>1, <2>2 DEF Visited
  <1>11. CASE CommandFails \/ NotVerified
    <2>1. /\ tpc \in {"down", "settle"} /\ lastRow' = lastRow
          /\ tpc' \in {"down", "scan"} /\ \A d \in Disks \ {k} : spin'[d] = spin[d]
          /\ spin' = spin \/ CommandFails
      BY <1>1, <1>11 DEF CommandFails, NotVerified, GiveUp, NextDisk, LogInv, TypeOK
    <2>2. \A d \in Disks : tracked'[d].state = tracked[d].state
      BY <1>1, <1>11 DEF CommandFails, NotVerified, GiveUp, LogInv, TypeOK, Entry
    <2>3. InSync(k)
      <3>1. CASE tpc = "down"
        BY <1>2, <3>1, LogTypes DEF Truthful
      <3>2. CASE tpc = "settle"
        BY <1>1, <1>3, <1>11, <3>2, LogTypes DEF CommandFails, NotVerified, InSync, Visited
      <3> QED BY <2>1, <3>1, <3>2
    <2>4. Truthful(k)'
      <3>1. ~((ReadsDrive \/ Verified) /\ k = cur) /\ ~Logged(k)
        BY <1>2, <1>3, <1>11, <2>1 DEF ReadsDrive, Verified, CommandFails, NotVerified
      <3>2. spin'[k] = spin[k] \/ MovedUnknown(k)
        BY <1>1, <2>1 DEF MovedUnknown
      <3>3. InSync(k)'
        BY <2>2, <2>3, <3>1, <3>2, StillMoved
      <3> QED BY <1>2, <2>1, <2>2, <3>3, KeptTruthful
    <2>5. tpc' = "down" => UNCHANGED <<cur, linked, tracked>>
      BY <1>11 DEF CommandFails, NotVerified, GiveUp, NextDisk
    <2>6. Visited'
      BY <1>3, <2>1, <2>5 DEF Visited
    <2> QED BY <1>1, <1>4, <2>1, <2>2, <2>4, <2>6
  <1>12. CASE Verified
    <2>1. /\ tpc = "settle" /\ tpc' = "scan" /\ spin' = spin /\ spin[k] = "standby"
          /\ tracked'[k].state = "standby" /\ lastRow'[k].event = "sleep"
          /\ \A d \in Disks \ {k} : tracked'[d] = tracked[d] /\ lastRow'[d] = lastRow[d]
      BY <1>1, <1>3, <1>12 DEF Verified, NextDisk, Visited, Flagged, LogInv, TypeOK
    <2>2. Truthful(k)'
      BY <2>1 DEF Truthful, InSync, Known
    <2> QED BY <1>1, <1>4, <2>1, <2>2 DEF Visited
  <1> QED BY <1>5, <1>6, <1>7, <1>8, <1>9, <1>10, <1>11, <1>12 DEF Tick, StoreFails

LEMMA LogRequest ==
  ASSUME LogInv, History, ~Overlap, "noanswer" \notin Environment, "dbfail" \notin Environment,
         NEW c \in Clients, Serve(c) \/ Call(c)
  PROVE  (\A d \in Disks : Truthful(d)') /\ Serving(c)'
  <1> DEFINE Goal == (\A d \in Disks : Truthful(d)') /\ Serving(c)'
  <1>1. PICK h \in Disks : h = req[c].disk
    BY LogTypes
  <1>2. /\ tpc = "sleep" /\ tpc' = "sleep"
        /\ \A e \in Clients \ {c} : req[e].pc = "idle" /\ req'[e] = req[e]
    BY RequestAlone DEF LogInv
  <1>3. /\ \A d \in Disks : Noting(d) <=> d = h /\ req[c].pc \in {"notesleep", "notewake"}
        /\ \A d \in Disks : InHand(d) <=>
             d = h /\ req[c].pc \in {"downsettle", "upsettle", "notesleep", "notewake"}
        /\ \A d \in Disks : Logged(d) <=> /\ d = h /\ req[c].pc \in {"downsettle", "upsettle"}
                                          /\ req'[c].pc \in {"notesleep", "notewake"}
        /\ ~ReadsDrive /\ ~Verified
    BY <1>1, <1>2 DEF Noting, InHand, Logged, ReadsDrive, Verified
  <1>4. /\ Serving(c) /\ Readings(h) = {spin[h]} /\ spin[h] \in {"active", "standby"}
        /\ req[c] \in [pc : RequestSteps, disk : Disks, tries : 0..Methods]
    BY LogTypes DEF Readings, LogInv, TypeOK
  \* The disks the request is not about.
  <1>5. ASSUME NEW d \in Disks, d # h, tracked'[d] = tracked[d], lastRow'[d] = lastRow[d],
               spin'[d] = spin[d]
        PROVE  Truthful(d)'
    BY <1>3, <1>5, LogTypes, StillMoved, KeptTruthful DEF Truthful
  <1>6. ASSUME tracked' = tracked, lastRow' = lastRow, \A d \in Disks \ {h} : spin'[d] = spin[d],
               req[c].pc \notin {"notesleep", "notewake"}, InHand(h)' \/ InSync(h)', Serving(c)'
        PROVE  Goal
    BY <1>3, <1>5, <1>6, KeptTruthful
  <1>7. ASSUME spin'[h] = spin[h] \/ MovedUnknown(h), tracked' = tracked, InSync(h), ~Logged(h)
        PROVE  InSync(h)'
    BY <1>3, <1>7, StillMoved
  <1>8. ASSUME NEW pc \in {"down", "up"}, TryNext(c, pc), UNCHANGED <<tracked, lastRow>>,
               \A d \in Disks \ {h} : spin'[d] = spin[d],
               spin'[h] = spin[h] \/ req[c].pc \in {"down", "up"},
               InSync(h), req[c].pc \notin {"notesleep", "notewake"}
        PROVE  Goal
    <2>1. req'[c].pc \in {"down", "up", "idle"}
      BY <1>8 DEF TryNext, Done, NoRequest, LogInv, TypeOK
    <2>2. spin'[h] = spin[h] \/ MovedUnknown(h)
      BY <1>1, <1>8, <2>1 DEF MovedUnknown
    <2>3. InSync(h)'
      BY <1>3, <1>7, <1>8, <2>1, <2>2
    <2>4. Serving(c)'
      BY <2>1 DEF Serving
    <2> QED BY <1>6, <1>8, <2>3, <2>4
  <1>9. CASE Call(c)
    <2>1. /\ req[c].pc = "idle" /\ UNCHANGED <<spin, tracked, lastRow>>
          /\ req'[c].pc \in {"idle", "down", "up", "forget"}
      BY <1>9 DEF Call, SpinDownNow, SpinUpNow, SetPolicy, SetSettings, Takeover, Arrive, driveVars,
         LogInv, TypeOK
    <2>2. InSync(h)'
      BY <1>3, <1>7, <2>1, LogTypes DEF Truthful
    <2> QED BY <1>6, <2>1, <2>2 DEF Serving
  <1>10. CASE DownCommand(c)
    <2>1. req[c].pc = "down" /\ UNCHANGED <<tracked, lastRow>> /\ InSync(h)
      BY <1>3, <1>10, LogTypes DEF DownCommand, Truthful
    <2>2. CASE /\ spin' = spin \/ spin' = [spin EXCEPT ![h] = "standby"]
               /\ Goto(c, "downsettle")
      <3>1. req'[c].pc = "downsettle" /\ req'[c].disk = h
        BY <1>1, <1>4, <2>2 DEF Goto, LogInv, TypeOK
      <3>2. InHand(h)'
        BY <3>1 DEF InHand
      <3>3. InSync(h)' \/ spin'[h] = "standby"
        BY <1>3, <1>7, <2>1, <2>2, <3>1 DEF LogInv, TypeOK
      <3>4. Serving(c)'
        BY <3>1, <3>3 DEF Serving
      <3> QED BY <1>6, <2>1, <2>2, <3>2, <3>4 DEF LogInv, TypeOK
    <2>3. CASE /\ spin' = spin \/ spin' = [spin EXCEPT ![h] = "standby"]
               /\ TryNext(c, "down")
      <3>1. \A d \in Disks \ {h} : spin'[d] = spin[d]
        BY <2>3 DEF LogInv, TypeOK
      <3> QED BY <1>8, <2>1, <2>3, <3>1
    <2> QED BY <1>1, <1>10, <2>2, <2>3 DEF DownCommand
  <1>11. CASE UpCommand(c)
    <2>1. req[c].pc = "up" /\ UNCHANGED <<tracked, lastRow>> /\ InSync(h)
      BY <1>3, <1>11, LogTypes DEF UpCommand, Truthful
    <2>2. CASE /\ spin' = spin \/ spin' = [spin EXCEPT ![h] = "active"]
               /\ Goto(c, "upsettle")
      <3>1. req'[c].pc = "upsettle" /\ req'[c].disk = h
        BY <1>1, <1>4, <2>2 DEF Goto, LogInv, TypeOK
      <3>2. InHand(h)'
        BY <3>1 DEF InHand
      <3>3. InSync(h)' \/ spin'[h] = "active"
        BY <1>3, <1>7, <2>1, <2>2, <3>1 DEF LogInv, TypeOK
      <3>4. Serving(c)'
        BY <3>1, <3>3 DEF Serving
      <3> QED BY <1>6, <2>1, <2>2, <3>2, <3>4 DEF LogInv, TypeOK
    <2>3. CASE /\ spin' = spin \/ spin' = [spin EXCEPT ![h] = "active"]
               /\ TryNext(c, "up")
      <3>1. \A d \in Disks \ {h} : spin'[d] = spin[d]
        BY <2>3 DEF LogInv, TypeOK
      <3> QED BY <1>8, <2>1, <2>3, <3>1
    <2> QED BY <1>1, <1>11, <2>2, <2>3 DEF UpCommand
  \* A row is written, and the note is still to come.
  <1>12. ASSUME spin' = spin, tracked' = tracked,
                \A d \in Disks \ {h} : lastRow'[d] = lastRow[d], req'[c].disk = h,
                \/ /\ req'[c].pc = "notesleep" /\ lastRow'[h].event = "sleep"
                   /\ spin[h] = "standby"
                \/ /\ req'[c].pc = "notewake" /\ lastRow'[h].event = "wake"
                   /\ spin[h] = "active"
         PROVE  Goal
    <2>1. Noting(h)' /\ InHand(h)' /\ (logged'[h] => Known(h)')
      BY <1>12 DEF Noting, InHand, History, Known
    <2>2. Truthful(h)'
      BY <1>12, <2>1, LogTypes DEF Truthful
    <2>3. Serving(c)'
      BY <1>12 DEF Serving
    <2> QED BY <1>5, <1>12, <2>2, <2>3
  \* The note.
  <1>13. ASSUME NEW e, tracked' = [tracked EXCEPT ![h] = e], UNCHANGED <<spin, lastRow>>,
                req'[c].pc \in {"idle", "remember"},
                req[c].pc \notin {"downsettle", "upsettle"},
                \/ e.state = "none"
                \/ /\ e.state = "standby" /\ lastRow[h].event = "sleep"
                   /\ spin[h] = "standby" \/ Moved(h)
                \/ /\ e.state = "active" /\ lastRow[h].event = "wake"
                   /\ spin[h] = "active" \/ Moved(h)
         PROVE  Goal
    <2>1. tracked'[h] = e /\ \A d \in Disks \ {h} : tracked'[d] = tracked[d]
      BY <1>13 DEF LogInv, TypeOK
    <2>2. Moved(h) => Moved(h)'
      BY <1>3, <1>13, StillMoved
    <2>3. Truthful(h)'
      <3>1. CASE e.state = "none"
        BY <2>1, <3>1, ForgottenTruthful
      <3>2. CASE e.state # "none"
        <4>1. InSync(h)'
          BY <1>13, <2>1, <2>2, <3>2 DEF InSync
        <4> QED BY <1>13, <2>1, <3>2, <4>1 DEF Truthful, Known
      <3> QED BY <3>1, <3>2
    <2>4. Serving(c)'
      BY <1>13 DEF Serving
    <2> QED BY <1>5, <1>13, <2>1, <2>3, <2>4
  <1> HIDE DEF Goal
  <1>14. CASE DownVerified(c)
    <2>1. /\ spin[h] = "standby" /\ Log(h, "sleep") /\ Goto(c, "notesleep")
          /\ spin' = spin /\ tracked' = tracked
      BY <1>1, <1>4, <1>14 DEF DownVerified, driveVars
    <2>2. /\ req'[c].disk = h /\ req'[c].pc = "notesleep" /\ lastRow'[h].event = "sleep"
          /\ \A d \in Disks \ {h} : lastRow'[d] = lastRow[d]
      BY <1>1, <2>1 DEF Goto, Log, LogInv, TypeOK
    <2>3. Goal
      BY <1>12, <2>1, <2>2
    <2> QED BY <2>3 DEF Goal
  <1>15. CASE UpVerified(c)
    <2>1. /\ spin[h] = "active" /\ Log(h, "wake") /\ Goto(c, "notewake")
          /\ spin' = spin /\ tracked' = tracked
      BY <1>1, <1>4, <1>15 DEF UpVerified, driveVars
    <2>2. /\ req'[c].disk = h /\ req'[c].pc = "notewake" /\ lastRow'[h].event = "wake"
          /\ \A d \in Disks \ {h} : lastRow'[d] = lastRow[d]
      BY <1>1, <2>1 DEF Goto, Log, LogInv, TypeOK
    <2>3. Goal
      BY <1>12, <2>1, <2>2
    <2> QED BY <2>3 DEF Goal
  <1>16. CASE DownNotVerified(c)
    <2>1. /\ req[c].pc = "downsettle" /\ spin[h] = "active" /\ TryNext(c, "down")
          /\ UNCHANGED <<spin, tracked, lastRow>>
      BY <1>1, <1>4, <1>16 DEF DownNotVerified, driveVars
    <2>2. InSync(h)
      BY <1>1, <1>4, <2>1 DEF Serving
    <2>3. Goal
      BY <1>8, <2>1, <2>2
    <2> QED BY <2>3 DEF Goal
  <1>17. CASE UpNotVerified(c)
    <2>1. /\ req[c].pc = "upsettle" /\ spin[h] = "standby" /\ TryNext(c, "up")
          /\ UNCHANGED <<spin, tracked, lastRow>>
      BY <1>1, <1>4, <1>17 DEF UpNotVerified, driveVars
    <2>2. InSync(h)
      BY <1>1, <1>4, <2>1 DEF Serving
    <2>3. Goal
      BY <1>8, <2>1, <2>2
    <2> QED BY <2>3 DEF Goal
  <1>18. CASE NoteSleep(c)
    <2>1. /\ req[c].pc = "notesleep" /\ req'[c].pc = "remember"
          /\ tracked' = [tracked EXCEPT ![h] = ManualSleep(h)]
          /\ UNCHANGED <<spin, lastRow>>
      BY <1>1, <1>18 DEF NoteSleep, Goto, driveVars, LogInv, TypeOK
    <2>2. lastRow[h].event = "sleep" /\ (spin[h] = "standby" \/ Moved(h))
      BY <1>1, <1>4, <2>1 DEF Serving
    <2>3. ManualSleep(h).state = "standby"
      BY DEF ManualSleep
    <2>4. Goal
      BY <1>13, <2>1, <2>2, <2>3
    <2> QED BY <2>4 DEF Goal
  <1>19. CASE NoteWake(c)
    <2>1. /\ req[c].pc = "notewake" /\ req'[c].pc = "idle"
          /\ tracked' = [tracked EXCEPT ![h] = ManualWake(h)]
          /\ UNCHANGED <<spin, lastRow>>
      BY <1>1, <1>19 DEF NoteWake, Done, NoRequest, driveVars, LogInv, TypeOK
    <2>2. lastRow[h].event = "wake" /\ (spin[h] = "active" \/ Moved(h))
      BY <1>1, <1>4, <2>1 DEF Serving
    <2>3. ManualWake(h).state = "active"
      BY DEF ManualWake
    <2>4. Goal
      BY <1>13, <2>1, <2>2, <2>3
    <2> QED BY <2>4 DEF Goal
  <1>20. CASE Forget(c)
    <2>1. /\ req[c].pc = "forget" /\ req'[c].pc = "idle"
          /\ tracked' = [tracked EXCEPT ![h] = Forgotten(h)]
          /\ UNCHANGED <<spin, lastRow>>
      BY <1>1, <1>20 DEF Forget, Done, NoRequest, driveVars, LogInv, TypeOK
    <2>2. Forgotten(h).state = "none"
      BY DEF Forgotten, NoEntry
    <2>3. Goal
      BY <1>13, <2>1, <2>2
    <2> QED BY <2>3 DEF Goal
  <1>21. CASE Remember(c)
    <2>1. /\ req[c].pc = "remember" /\ req'[c].pc = "idle" /\ UNCHANGED <<spin, tracked, lastRow>>
      BY <1>21 DEF Remember, Done, NoRequest, driveVars, LogInv, TypeOK
    <2>2. InSync(h)'
      BY <1>3, <1>7, <2>1, LogTypes DEF Truthful
    <2>3. Serving(c)'
      BY <2>1 DEF Serving
    <2>4. Goal
      BY <1>6, <2>1, <2>2, <2>3
    <2> QED BY <2>4 DEF Goal
  <1> QED BY <1>9, <1>10, <1>11, <1>14, <1>15, <1>16, <1>17, <1>18, <1>19, <1>20, <1>21
          DEF Serve, Goal

LEMMA LogOutside ==
  ASSUME LogInv, History, Outside
  PROVE  (\A d \in Disks : Truthful(d)') /\ Visited' /\ \A c \in Clients : Serving(c)'
  <1>1. CASE Restart
    <2>1. /\ \A d \in Disks : tracked'[d].state = "none"
          /\ tpc' = "sleep" /\ \A c \in Clients : req'[c].pc = "idle"
      BY <1>1 DEF Restart, TickOver, NoEntry, NoRequest
    <2> QED BY <2>1, ForgottenTruthful DEF Visited, Serving
  <1>2. CASE ~Restart
    <2>1. /\ UNCHANGED <<tracked, lastRow, tpc, cur, was, entry, linked, req>>
          /\ tickVars' = tickVars
      BY <1>2 DEF Outside, Advance, DiskIO, OutsideStandby, OutsideWake, tickVars, localVars
    <2>2. ~ReadsDrive /\ ~Verified /\ \A d \in Disks : ~Logged(d)
      BY <2>1 DEF ReadsDrive, Logged, Verified, NextDisk, TickOver
    <2>3. \A d \in Disks :
            /\ spin'[d] = spin[d] \/ Moved(d)'
            /\ Moved(d) => Moved(d)'
            /\ InSync(d) => InSync(d)'
      BY <2>1, <2>2, StillMoved DEF MovedOutside
    <2>4. \A d \in Disks : (Noting(d) <=> Noting(d)') /\ (InHand(d) <=> InHand(d)')
      BY <2>1 DEF Noting, InHand
    <2>5. \A d \in Disks : Truthful(d)'
      BY <2>1, <2>3, <2>4, LogTypes, KeptTruthful DEF Truthful
    <2>6. Visited'
      <3> PICK k \in Disks : k = cur
        BY LogTypes
      <3>1. outsideSeen' = outsideSeen
        BY <2>2 DEF History
      <3>2. spin'[k] = spin[k] \/ Moved(k)'
        BY <2>3
      <3>3. Moved(k) => Moved(k)'
        BY <2>3
      <3>4. Visited /\ cur' = k
        BY <2>1 DEF LogInv
      <3> QED BY <2>1, <3>1, <3>2, <3>3, <3>4 DEF Visited
    <2>7. ASSUME NEW c \in Clients PROVE Serving(c)'
      <3> PICK h \in Disks : h = req[c].disk
        BY LogTypes
      <3>1. Serving(c) /\ req'[c] = req[c]
        BY <2>1 DEF LogInv
      <3>2. /\ spin'[h] = spin[h] \/ Moved(h)'
            /\ Moved(h) => Moved(h)'
            /\ InSync(h) => InSync(h)'
        BY <2>3
      <3>3. spin[h] # spin'[h] => InSync(h)'
        BY <3>2 DEF InSync
      <3> QED BY <2>1, <3>1, <3>2, <3>3 DEF Serving
    <2> QED BY <2>5, <2>6, <2>7
  <1> QED BY <1>1, <1>2

LEMMA LogInit == HInit => LogInv
  <1> SUFFICES ASSUME HInit PROVE LogInv
    OBVIOUS
  <1>1. TypeOK
    BY InitTypeOK DEF HInit
  <1>2. \A d \in Disks : Truthful(d)
    BY DEF HInit, Init, HistInit, Truthful, InSync, NoEntry
  <1> QED BY <1>1, <1>2
          DEF HInit, Init, HistInit, LogInv, Alone, NoPhantomRow, Visited, Serving, NoRequest

LEMMA LogNext ==
  ASSUME ~Overlap, "noanswer" \notin Environment, "dbfail" \notin Environment
  PROVE  LogInv /\ [HNext]_hvars => LogInv'
  <1> SUFFICES ASSUME LogInv, [HNext]_hvars PROVE LogInv'
    OBVIOUS
  <1>1. TypeOK' /\ Alone'
    BY NextTypeOK, AloneNext DEF LogInv, HNext, hvars
  <1>2. /\ NoPhantomRow' /\ (\A d \in Disks : Truthful(d)')
        /\ Visited' /\ \A c \in Clients : Serving(c)'
    <2>1. ASSUME HNext, Tick
          PROVE  /\ NoPhantomRow' /\ (\A d \in Disks : Truthful(d)')
                 /\ Visited' /\ \A c \in Clients : Serving(c)'
      <3>1. \A c \in Clients : Serving(c)'
        BY <2>1, TickAlone DEF LogInv, Serving
      <3> QED BY <2>1, <3>1, LogTick, PhantomNext DEF HNext
    <2>2. ASSUME HNext, NEW c \in Clients, Serve(c) \/ Call(c)
          PROVE  /\ NoPhantomRow' /\ (\A d \in Disks : Truthful(d)')
                 /\ Visited' /\ \A e \in Clients : Serving(e)'
      <3>1. /\ tpc' = "sleep"
            /\ \A e \in Clients \ {c} : req'[e].pc = "idle"
        BY <2>2, RequestAlone DEF LogInv
      <3>2. Visited' /\ \A e \in Clients \ {c} : Serving(e)'
        BY <3>1 DEF Visited, Serving
      <3> QED BY <2>2, <3>2, LogRequest, PhantomNext DEF HNext
    <2>3. ASSUME HNext, Outside
          PROVE  /\ NoPhantomRow' /\ (\A d \in Disks : Truthful(d)')
                 /\ Visited' /\ \A c \in Clients : Serving(c)'
      BY <2>3, LogOutside, PhantomNext DEF HNext
    <2>4. CASE UNCHANGED hvars
      BY <2>4 DEF hvars, vars, hist, driveVars, tickVars, localVars, LogInv, NoPhantomRow, Truthful,
         Visited, Serving, InHand, InSync, Noting, Moved, Known
    <2> QED BY <2>1, <2>2, <2>3, <2>4 DEF HNext, Next
  <1> QED BY <1>1, <1>2 DEF LogInv

(* With requests between ticks, drives that answer and a log that can be   *)
(* written, the log is true of the drives: no row invents a cause, and     *)
(* between ticks the newest row about a disk agrees with its entry.        *)
THEOREM LogIsTrueHolds ==
  ASSUME ~Overlap, "noanswer" \notin Environment, "dbfail" \notin Environment
  PROVE  HSpec => []LogIsTrue
  <1>1. LogInv => LogIsTrue
    BY DEF LogInv, LogIsTrue, LogMatchesState, Quiet, Truthful, Noting
  <1> QED BY <1>1, LogInit, LogNext, PTL DEF HSpec
=============================================================================
