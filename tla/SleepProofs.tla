---------------------------- MODULE SleepProofs ----------------------------
(***************************************************************************)
(* What holds of the disk sleep monitor for every number of disks, worker  *)
(* threads, idle times and bounds, and for every environment.              *)
(***************************************************************************)
EXTENDS SleepHistory, TLAPS

-----------------------------------------------------------------------------
(* Type correctness.                                                       *)

LEMMA NoEntryType == NoEntry \in Entry
  BY SleepAssumption DEF NoEntry, Entry, Time, PowerStates, NoCounters

LEMMA NoRequestType ==
  /\ NoRequest \in [pc : RequestSteps, disk : Disks, tries : 0..Methods]
  /\ NoRequest.disk \in Disks
  BY SleepAssumption DEF NoRequest, RequestSteps

LEMMA LimitType == TypeOK => \A d \in Disks : Limit(d) \in IdleChoices
  BY SleepAssumption DEF TypeOK, Limit, EffectiveIdle, Settings

LEMMA InitTypeOK == Init => TypeOK
  <1> SUFFICES ASSUME Init PROVE TypeOK
    OBVIOUS
  <1> USE SleepAssumption, NoEntryType, NoRequestType DEF Init
  <1>1. /\ clock \in Time /\ tnow \in Time
        /\ spin \in [Disks -> {"active", "standby"}]
        /\ io \in [Disks -> 0..MaxIO] /\ stats \in [Disks -> 0..MaxIO]
        /\ tries \in 0..Methods
    BY DEF Time
  <1>2. /\ settings \in Settings
        /\ policy \in [Disks -> IdleChoices \cup {NoPolicy}]
        /\ limit \in [Disks -> IdleChoices]
    BY DEF Settings
  <1>3. tracked \in [Disks -> Entry] /\ entry \in Entry
    OBVIOUS
  <1>4. lastRow \in [Disks -> Row]
    BY DEF Row, NoRow
  <1>5. cur \in Disks /\ req \in [Clients -> [pc : RequestSteps, disk : Disks, tries : 0..Methods]]
    BY DEF NoRequest
  <1> QED BY <1>1, <1>2, <1>3, <1>4, <1>5 DEF TypeOK, TickSteps, PowerStates

(* The part of TypeOK that is about the thread of the monitor.             *)
LocalsOK ==
  /\ tpc \in TickSteps
  /\ tnow \in Time
  /\ limit \in [Disks -> IdleChoices]
  /\ stats \in [Disks -> 0..MaxIO]
  /\ seen \in SUBSET Disks
  /\ todo \in SUBSET Disks
  /\ cur \in Disks
  /\ was \in PowerStates \cup {"none"}
  /\ entry \in Entry
  /\ linked \in BOOLEAN
  /\ tries \in 0..Methods

(* The locals a tick leaves behind when it ends, and between two disks.    *)
LEMMA TickOverType == TickOver => LocalsOK'
  <1> SUFFICES ASSUME TickOver PROVE LocalsOK'
    OBVIOUS
  <1> USE SleepAssumption DEF TickOver
  <1>1. tpc' \in TickSteps
    BY DEF TickSteps
  <1>2. tnow' \in Time /\ tries' \in 0..Methods
    BY DEF Time
  <1>3. limit' \in [Disks -> IdleChoices] /\ stats' \in [Disks -> 0..MaxIO]
    BY SMT
  <1>4. cur' \in Disks /\ entry' \in Entry
    BY NoEntryType, NoRequestType
  <1>5. was' \in PowerStates \cup {"none"} /\ linked' \in BOOLEAN
    BY DEF PowerStates
  <1>6. seen' \in SUBSET Disks /\ todo' \in SUBSET Disks
    OBVIOUS
  <1> QED BY <1>1, <1>2, <1>3, <1>4, <1>5, <1>6 DEF LocalsOK

LEMMA NextDiskType == LocalsOK /\ NextDisk => LocalsOK'
  <1> SUFFICES ASSUME LocalsOK, NextDisk PROVE LocalsOK'
    OBVIOUS
  <1> USE SleepAssumption DEF NextDisk
  <1>1. tpc' \in TickSteps
    BY DEF TickSteps
  <1>2. /\ tnow' \in Time
        /\ limit' \in [Disks -> IdleChoices] /\ stats' \in [Disks -> 0..MaxIO]
        /\ seen' \in SUBSET Disks /\ todo' \in SUBSET Disks
    BY DEF LocalsOK
  <1>3. cur' \in Disks /\ entry' \in Entry
    BY NoEntryType, NoRequestType
  <1>4. tries' \in 0..Methods
    BY SMT
  <1>5. was' \in PowerStates \cup {"none"} /\ linked' \in BOOLEAN
    BY DEF PowerStates
  <1> QED BY <1>1, <1>2, <1>3, <1>4, <1>5 DEF LocalsOK

LEMMA GiveUpType ==
  TypeOK /\ GiveUp => LocalsOK' /\ tracked' \in [Disks -> Entry] /\ lastRow' = lastRow
  <1> SUFFICES ASSUME TypeOK, GiveUp
               PROVE  LocalsOK' /\ tracked' \in [Disks -> Entry] /\ lastRow' = lastRow
    OBVIOUS
  <1>1. clock + RetryAfter \in 0..(MaxTime + RetryAfter)
    BY SleepAssumption DEF TypeOK, Time
  <1>2. tracked' \in [Disks -> Entry]
    BY <1>1 DEF GiveUp, TypeOK, Entry
  <1>3. LocalsOK
    BY DEF TypeOK, LocalsOK
  <1>4. NextDisk \/ TickOver
    BY DEF GiveUp
  <1>5. LocalsOK'
    BY <1>3, <1>4, NextDiskType, TickOverType
  <1> QED BY <1>2, <1>5 DEF GiveUp

LEMMA TickTypeOK ==
  ASSUME TypeOK, Tick
  PROVE  TypeOK'
  <1> USE SleepAssumption DEF driveVars, savedVars, localVars
  <1>0. LocalsOK
    BY DEF TypeOK, LocalsOK
  <1>1. CASE Begin
    <2>1. limit' \in [Disks -> IdleChoices]
      BY <1>1, LimitType DEF Begin
    <2> QED BY <1>1, <2>1 DEF Begin, TypeOK, TickSteps
  <1>11. CASE ReadCounters
    <2>1. seen' \in SUBSET Disks /\ todo' \in SUBSET Disks
      BY <1>11 DEF ReadCounters, Listings
    <2> QED BY <1>11, <2>1 DEF ReadCounters, TypeOK, TickSteps
  <1>2. ASSUME NEW d \in Disks, Visit(d) PROVE TypeOK'
    <2>1. entry' \in Entry /\ was' \in PowerStates \cup {"none"}
      BY <1>2 DEF Visit, TypeOK, Entry, PowerStates
    <2> QED BY <1>2, <2>1 DEF Visit, TypeOK, TickSteps
  <1>3. CASE Probe
    <2>1. \A s \in Readings(cur) : s \in PowerStates
      BY DEF Readings, TypeOK, PowerStates
    <2>2. entry' \in Entry
      BY <1>3, <2>1 DEF Probe, TypeOK, Entry
    <2> QED BY <1>3, <2>2 DEF Probe, TypeOK, TickSteps
  <1>4. CASE Store
    <2>1. Settled \in Entry
      BY DEF Settled, Flagged, TypeOK, Entry, PowerStates
    <2>2. tracked' \in [Disks -> Entry]
      BY <1>4, <2>1 DEF Store, TypeOK
    <2>3. lastRow' \in [Disks -> Row]
      BY <1>4 DEF Store, TypeOK, Row
    <2>4. CASE NextDisk
      BY <1>4, <1>0, <2>2, <2>3, <2>4, NextDiskType DEF Store, TypeOK, LocalsOK
    <2>5. CASE Due(Settled)
      BY <1>4, <2>1, <2>2, <2>3, <2>5 DEF Store, TypeOK, TickSteps
    <2> QED BY <1>4, <2>4, <2>5 DEF Store
  <1>5. CASE StoreFails
    BY <1>5, TickOverType DEF StoreFails, TypeOK, LocalsOK
  <1>6. CASE Command
    <2>1. spin' \in [Disks -> {"active", "standby"}]
      BY <1>6 DEF Command, TypeOK
    <2> QED BY <1>6, <2>1 DEF Command, TypeOK, TickSteps
  <1>7. CASE CommandFails
    <2>1. spin' \in [Disks -> {"active", "standby"}]
      BY <1>7 DEF CommandFails, TypeOK
    <2>2. CASE tries > 1
      BY <1>7, <2>1, <2>2 DEF CommandFails, TypeOK
    <2>3. CASE ~(tries > 1)
      BY <1>7, <2>1, <2>3, GiveUpType DEF CommandFails, TypeOK, LocalsOK
    <2> QED BY <2>2, <2>3
  <1>8. CASE Verified
    <2>1. tracked' \in [Disks -> Entry]
      <3>1. Flagged(tracked[cur], "standby", TRUE) \in Entry
        BY SMT DEF TypeOK, Flagged, Entry, PowerStates
      <3> QED BY <1>8, <3>1 DEF Verified, TypeOK
    <2>2. lastRow' \in [Disks -> Row]
      <3>1. [event |-> "sleep", reason |-> "timeout"] \in Row
        BY DEF Row
      <3>2. lastRow' = lastRow \/ lastRow' = [lastRow EXCEPT ![cur] = [event |-> "sleep", reason |-> "timeout"]]
        BY <1>8 DEF Verified
      <3> QED BY <3>1, <3>2 DEF TypeOK
    <2>3. NextDisk \/ TickOver
      BY <1>8 DEF Verified
    <2>4. CASE NextDisk
      BY <1>8, <1>0, <2>1, <2>2, <2>4, NextDiskType DEF Verified, TypeOK, LocalsOK
    <2>5. CASE TickOver
      BY <1>8, <2>1, <2>2, <2>5, TickOverType DEF Verified, TypeOK, LocalsOK
    <2> QED BY <2>3, <2>4, <2>5
  <1>9. CASE NotVerified
    <2>1. CASE tries > 1
      BY <1>9, <2>1 DEF NotVerified, TypeOK, TickSteps
    <2>2. CASE ~(tries > 1)
      BY <1>9, <2>2, GiveUpType DEF NotVerified, TypeOK, LocalsOK
    <2> QED BY <2>1, <2>2
  <1>10. CASE Finish
    <2>1. tracked' \in [Disks -> Entry]
      BY <1>10, NoEntryType DEF Finish, TypeOK
    <2> QED BY <1>10, <2>1, TickOverType DEF Finish, TypeOK, LocalsOK
  <1> QED BY <1>1, <1>2, <1>3, <1>4, <1>5, <1>6, <1>7, <1>8, <1>9, <1>10, <1>11 DEF Tick

(* Requests, one step of one worker thread.                                *)
LEMMA RequestTypeOK ==
  ASSUME TypeOK, NEW c \in Clients, Serve(c) \/ Call(c)
  PROVE  TypeOK'
  <1> DEFINE Requested == [pc : RequestSteps, disk : Disks, tries : 0..Methods]
             Typed == req' \in [Clients -> Requested]
  <1> USE SleepAssumption DEF driveVars, savedVars, localVars, tickVars, unlinkedVars
  <1>1. req \in [Clients -> Requested] /\ req[c] \in Requested
    BY DEF TypeOK
  <1>2. Done(c) => Typed
    BY <1>1, NoRequestType DEF Done
  <1>3. \A pc \in RequestSteps : Goto(c, pc) => Typed
    BY <1>1 DEF Goto
  <1>4. \A pc \in RequestSteps : TryNext(c, pc) => Typed
    <2>1. ASSUME NEW pc \in RequestSteps, req[c].tries > 1
          PROVE  [pc |-> pc, disk |-> req[c].disk, tries |-> req[c].tries - 1] \in Requested
      BY <1>1, <2>1
    <2> QED BY <1>1, <1>2, <2>1 DEF TryNext
  <1>5. \A pc \in RequestSteps, d \in Disks, n \in 0..Methods :
          req' = [req EXCEPT ![c] = [pc |-> pc, disk |-> d, tries |-> n]] => Typed
    BY <1>1
  <1>6. Methods \in 0..Methods /\ 0 \in 0..Methods
    OBVIOUS
  <1> HIDE DEF Typed, Requested
  <1>7. \A d \in Disks : Unlink(d) => linked' \in BOOLEAN
    BY DEF Unlink, TypeOK
  <1>8. \A d \in Disks : \A event \in {"sleep", "wake"} : Log(d, event) => lastRow' \in [Disks -> Row]
    BY DEF Log, TypeOK, Row
  <1>9. req[c].disk \in Disks
    BY <1>1 DEF Requested
  <1> USE DEF Typed, Requested
  <1>10. ASSUME NEW d \in Disks, SpinDownNow(c, d) \/ SpinUpNow(c, d) PROVE TypeOK'
    <2>1. Typed
      BY <1>10, <1>5, <1>6 DEF SpinDownNow, SpinUpNow, RequestSteps
    <2> QED BY <1>10, <2>1 DEF SpinDownNow, SpinUpNow, TypeOK
  <1>11. CASE DownCommand(c)
    <2>1. Typed
      BY <1>11, <1>3, <1>4 DEF DownCommand, RequestSteps
    <2>2. spin' \in [Disks -> {"active", "standby"}]
      BY <1>11, <1>9 DEF DownCommand, TypeOK
    <2> QED BY <1>11, <2>1, <2>2 DEF DownCommand, TypeOK
  <1>12. CASE DownVerified(c)
    <2>1. Typed /\ lastRow' \in [Disks -> Row]
      BY <1>12, <1>2, <1>3, <1>8, <1>9 DEF DownVerified, RequestSteps, TypeOK
    <2> QED BY <1>12, <2>1 DEF DownVerified, TypeOK
  <1>13. CASE DownNotVerified(c)
    <2>1. Typed
      BY <1>13, <1>4 DEF DownNotVerified, RequestSteps
    <2> QED BY <1>13, <2>1 DEF DownNotVerified, TypeOK
  <1>14. CASE NoteSleep(c)
    <2>1. Typed /\ linked' \in BOOLEAN
      BY <1>14, <1>3, <1>7, <1>9 DEF NoteSleep, RequestSteps
    <2>2. ManualSleep(req[c].disk) \in Entry
      BY DEF ManualSleep, TypeOK, Entry, PowerStates, NoCounters
    <2>3. tracked' \in [Disks -> Entry]
      BY <1>14, <1>9, <2>2 DEF NoteSleep, TypeOK
    <2> QED BY <1>14, <2>1, <2>3 DEF NoteSleep, TypeOK
  <1>15. CASE Remember(c)
    <2>1. Typed
      BY <1>15, <1>2 DEF Remember
    <2>2. policy' \in [Disks -> IdleChoices \cup {NoPolicy}]
      BY <1>15, <1>9 DEF Remember, TypeOK
    <2> QED BY <1>15, <2>1, <2>2 DEF Remember, TypeOK
  <1>16. CASE UpCommand(c)
    <2>1. Typed
      BY <1>16, <1>3, <1>4 DEF UpCommand, RequestSteps
    <2>2. spin' \in [Disks -> {"active", "standby"}]
      BY <1>16, <1>9 DEF UpCommand, TypeOK
    <2>3. io' \in [Disks -> 0..MaxIO]
      BY <1>16, <1>9 DEF UpCommand, TypeOK
    <2> QED BY <1>16, <2>1, <2>2, <2>3 DEF UpCommand, TypeOK
  <1>17. CASE UpVerified(c)
    <2>1. Typed /\ lastRow' \in [Disks -> Row]
      BY <1>17, <1>2, <1>3, <1>8, <1>9 DEF UpVerified, RequestSteps, TypeOK
    <2> QED BY <1>17, <2>1 DEF UpVerified, TypeOK
  <1>18. CASE UpNotVerified(c)
    <2>1. Typed
      BY <1>18, <1>4 DEF UpNotVerified, RequestSteps
    <2> QED BY <1>18, <2>1 DEF UpNotVerified, TypeOK
  <1>19. CASE NoteWake(c)
    <2>1. Typed /\ linked' \in BOOLEAN
      BY <1>19, <1>2, <1>7, <1>9 DEF NoteWake
    <2>2. ManualWake(req[c].disk) \in Entry
      BY DEF ManualWake, TypeOK, Entry, PowerStates, NoCounters
    <2>3. tracked' \in [Disks -> Entry]
      BY <1>19, <1>9, <2>2 DEF NoteWake, TypeOK
    <2> QED BY <1>19, <2>1, <2>3 DEF NoteWake, TypeOK
  <1>20. ASSUME NEW d \in Disks, NEW idle \in IdleChoices, SetPolicy(c, d, idle) PROVE TypeOK'
    <2>1. Typed
      BY <1>20, <1>5, <1>6 DEF SetPolicy, RequestSteps
    <2> QED BY <1>20, <2>1 DEF SetPolicy, TypeOK
  <1>21. CASE Forget(c)
    <2>1. Typed /\ linked' \in BOOLEAN
      BY <1>21, <1>2, <1>7, <1>9 DEF Forget
    <2>2. tracked' \in [Disks -> Entry]
      BY <1>21, <1>9, NoEntryType DEF Forget, Forgotten, TypeOK
    <2> QED BY <1>21, <2>1, <2>2 DEF Forget, TypeOK
  <1>22. ASSUME NEW s \in Settings, SetSettings(c, s) PROVE TypeOK'
    BY <1>22 DEF SetSettings, TypeOK
  <1>23. ASSUME NEW imported \in SUBSET Disks, NEW idle \in [Disks -> IdleChoices],
                Takeover(c, imported, idle)
         PROVE  TypeOK'
    <2>1. policy' \in [Disks -> IdleChoices \cup {NoPolicy}]
      BY <1>23 DEF Takeover, TypeOK
    <2> QED BY <1>23, <2>1 DEF Takeover, TypeOK
  <1> QED
    BY <1>10, <1>11, <1>12, <1>13, <1>14, <1>15, <1>16, <1>17, <1>18, <1>19, <1>20, <1>21,
       <1>22, <1>23
    DEF Serve, Call

LEMMA OutsideTypeOK ==
  ASSUME TypeOK, Outside
  PROVE  TypeOK'
  <1> USE SleepAssumption DEF driveVars, savedVars, localVars, tickVars
  <1>1. CASE Advance
    <2>1. clock' \in Time
      BY <1>1 DEF Advance, TypeOK, Time
    <2> QED BY <1>1, <2>1 DEF Advance, TypeOK
  <1>2. CASE Restart
    <2>1. tracked' \in [Disks -> Entry]
      BY <1>2, NoEntryType DEF Restart
    <2>2. req' \in [Clients -> [pc : RequestSteps, disk : Disks, tries : 0..Methods]]
      BY <1>2, NoRequestType DEF Restart
    <2>3. LocalsOK'
      BY <1>2, TickOverType DEF Restart
    <2> QED BY <1>2, <2>1, <2>2, <2>3 DEF Restart, TypeOK, LocalsOK
  <1>3. ASSUME NEW d \in Disks, DiskIO(d) PROVE TypeOK'
    <2>1. io' \in [Disks -> 0..MaxIO] /\ spin' \in [Disks -> {"active", "standby"}]
      BY <1>3 DEF DiskIO, TypeOK
    <2> QED BY <1>3, <2>1 DEF DiskIO, TypeOK
  <1>4. ASSUME NEW d \in Disks, OutsideStandby(d) \/ OutsideWake(d) PROVE TypeOK'
    <2>1. spin' \in [Disks -> {"active", "standby"}]
      BY <1>4 DEF OutsideStandby, OutsideWake, TypeOK
    <2> QED BY <1>4, <2>1 DEF OutsideStandby, OutsideWake, TypeOK
  <1> QED BY <1>1, <1>2, <1>3, <1>4 DEF Outside

LEMMA NextTypeOK == TypeOK /\ [Next]_vars => TypeOK'
  <1> SUFFICES ASSUME TypeOK, [Next]_vars PROVE TypeOK'
    OBVIOUS
  <1>1. CASE Next
    BY <1>1, TickTypeOK, OutsideTypeOK, RequestTypeOK DEF Next
  <1>2. CASE UNCHANGED vars
    BY <1>2 DEF vars, driveVars, savedVars, tickVars, localVars, TypeOK
  <1> QED BY <1>1, <1>2

(* The types of the model hold in every reachable state, whatever faults   *)
(* the environment produces and however requests and ticks interleave.     *)
THEOREM TypeCorrect == Spec => []TypeOK
  <1>1. Init => TypeOK
    BY InitTypeOK
  <1>2. TypeOK /\ [Next]_vars => TypeOK'
    BY NextTypeOK
  <1> QED BY <1>1, <1>2, PTL DEF Spec

-----------------------------------------------------------------------------
(* The flag "this application put the disk to sleep".  It is carried from  *)
(* the previous entry into the new one before the drive is read, so the    *)
(* invariant must remember, during a visit, what the previous state was.   *)
CarriedFlag == entry.we_slept_it => was \in {"standby", "unknown"} /\ entry.state # "none"

FlagOf(e) == e.we_slept_it => e.state \in {"standby", "unknown"}

OursInv == TypeOK /\ OursIsNotSpinning /\ CarriedFlag

LEMMA SettledFlag ==
  TypeOK /\ CarriedFlag => /\ FlagOf(Settled)
                           /\ Settled.we_slept_it => CarriedFlag /\ entry.we_slept_it
                           /\ Settled.state = entry.state
  <1> SUFFICES ASSUME TypeOK, CarriedFlag
               PROVE  /\ FlagOf(Settled)
                      /\ Settled.we_slept_it => CarriedFlag /\ entry.we_slept_it
                      /\ Settled.state = entry.state
    OBVIOUS
  <1>1. entry.state \in PowerStates \cup {"none"}
    BY DEF TypeOK, Entry
  <1>2. CASE Changed /\ entry.state = "active"
    BY <1>2 DEF Settled, Flagged, FlagOf
  <1>3. CASE ~(Changed /\ entry.state = "active")
    BY <1>1, <1>3 DEF Settled, CarriedFlag, Changed, PowerStates, FlagOf
  <1> QED BY <1>2, <1>3

(* One entry is replaced by one that satisfies FlagOf.                     *)
LEMMA ReplacedFlag ==
  ASSUME TypeOK, OursIsNotSpinning, NEW d \in Disks, NEW e, FlagOf(e),
         tracked' = [tracked EXCEPT ![d] = e]
  PROVE  OursIsNotSpinning'
  BY DEF OursIsNotSpinning, TypeOK, FlagOf

LEMMA GiveUpFlag ==
  ASSUME OursInv, GiveUp
  PROVE  OursIsNotSpinning' /\ CarriedFlag'
  <1>1. OursIsNotSpinning'
    <2>1. \A d \in Disks : /\ tracked'[d].we_slept_it = tracked[d].we_slept_it
                           /\ tracked'[d].state = tracked[d].state
      BY DEF GiveUp, OursInv, TypeOK, Entry
    <2> QED BY <2>1 DEF OursInv, OursIsNotSpinning
  <1>2. CarriedFlag'
    BY DEF GiveUp, NextDisk, TickOver, CarriedFlag, NoEntry
  <1> QED BY <1>1, <1>2

LEMMA TickOurs ==
  ASSUME OursInv, Tick
  PROVE  OursIsNotSpinning' /\ CarriedFlag'
  <1> USE DEF OursInv, driveVars, savedVars, localVars
  <1>0. cur \in Disks
    BY DEF TypeOK
  <1>1. CASE Begin
    BY <1>1 DEF Begin, OursIsNotSpinning, CarriedFlag
  <1>11. CASE ReadCounters
    BY <1>11 DEF ReadCounters, OursIsNotSpinning, CarriedFlag
  <1>2. ASSUME NEW d \in Disks, Visit(d) PROVE OursIsNotSpinning' /\ CarriedFlag'
    BY <1>2 DEF Visit, OursIsNotSpinning, CarriedFlag
  <1>3. CASE Probe
    <2>1. PICK s \in Readings(cur) : entry' = [entry EXCEPT !.state = s]
      BY <1>3 DEF Probe
    <2>2. s # "none"
      BY DEF TypeOK, Readings
    <2>3. entry'.we_slept_it = entry.we_slept_it /\ entry'.state = s
      BY <2>1 DEF TypeOK, Entry
    <2> QED BY <1>3, <2>2, <2>3 DEF Probe, OursIsNotSpinning, CarriedFlag
  <1>4. CASE Store
    <2>1. OursIsNotSpinning'
      <3>1. cur \in Disks /\ FlagOf(Settled) /\ tracked' = [tracked EXCEPT ![cur] = Settled]
        BY <1>4, <1>0, SettledFlag DEF Store
      <3> QED BY <3>1, ReplacedFlag
    <2>2. CASE Due(Settled)
      <3>1. entry' = Settled /\ was' = was
        BY <1>4, <2>2 DEF Store
      <3> QED BY <2>1, <3>1, SettledFlag DEF CarriedFlag
    <2>3. CASE NextDisk
      BY <2>1, <2>3 DEF NextDisk, CarriedFlag, NoEntry
    <2> QED BY <1>4, <2>2, <2>3 DEF Store
  <1>5. CASE StoreFails
    BY <1>5 DEF StoreFails, TickOver, OursIsNotSpinning, CarriedFlag, NoEntry
  <1>6. CASE Command
    BY <1>6 DEF Command, OursIsNotSpinning, CarriedFlag
  <1>7. CASE CommandFails
    <2>1. CASE tries > 1
      BY <1>7, <2>1 DEF CommandFails, OursIsNotSpinning, CarriedFlag
    <2>2. CASE ~(tries > 1)
      BY <1>7, <2>2, GiveUpFlag DEF CommandFails
    <2> QED BY <2>1, <2>2
  <1>8. CASE Verified
    <2>1. FlagOf(Flagged(tracked[cur], "standby", TRUE))
      BY DEF FlagOf, Flagged
    <2>2. CarriedFlag'
      BY <1>8 DEF Verified, NextDisk, TickOver, CarriedFlag, NoEntry
    <2>3. CASE linked
      <3>1. tracked' = [tracked EXCEPT ![cur] = Flagged(tracked[cur], "standby", TRUE)]
        BY <1>8, <2>3 DEF Verified
      <3>2. OursIsNotSpinning'
        BY <1>0, <2>1, <3>1, ReplacedFlag
      <3> QED BY <2>2, <3>2
    <2>4. CASE ~linked
      BY <1>8, <2>2, <2>4 DEF Verified, OursIsNotSpinning
    <2> QED BY <2>3, <2>4
  <1>9. CASE NotVerified
    <2>1. CASE tries > 1
      BY <1>9, <2>1 DEF NotVerified, OursIsNotSpinning, CarriedFlag
    <2>2. CASE ~(tries > 1)
      BY <1>9, <2>2, GiveUpFlag DEF NotVerified
    <2> QED BY <2>1, <2>2
  <1>10. CASE Finish
    BY <1>10 DEF Finish, TickOver, OursIsNotSpinning, CarriedFlag, NoEntry
  <1> QED BY <1>1, <1>2, <1>3, <1>4, <1>5, <1>6, <1>7, <1>8, <1>9, <1>10, <1>11 DEF Tick

LEMMA RequestOurs ==
  ASSUME OursInv, NEW c \in Clients, Serve(c) \/ Call(c)
  PROVE  OursIsNotSpinning' /\ CarriedFlag'
  <1> USE DEF OursInv, driveVars, savedVars, localVars, tickVars, unlinkedVars
  <1>0. req[c].disk \in Disks
    BY DEF TypeOK
  <1>1. (entry' = entry /\ was' = was) => CarriedFlag'
    BY DEF CarriedFlag
  <1>2. CASE NoteSleep(c)
    <2>1. FlagOf(ManualSleep(req[c].disk))
      BY DEF FlagOf, ManualSleep
    <2> QED BY <1>0, <1>1, <1>2, <2>1, ReplacedFlag DEF NoteSleep
  <1>3. CASE NoteWake(c)
    <2>1. FlagOf(ManualWake(req[c].disk))
      BY DEF FlagOf, ManualWake
    <2> QED BY <1>0, <1>1, <1>3, <2>1, ReplacedFlag DEF NoteWake
  <1>4. CASE Forget(c)
    <2>1. FlagOf(Forgotten(req[c].disk))
      BY DEF FlagOf, Forgotten, NoEntry
    <2> QED BY <1>0, <1>1, <1>4, <2>1, ReplacedFlag DEF Forget
  <1>5. CASE tracked' = tracked /\ entry' = entry /\ was' = was
    BY <1>1, <1>5 DEF OursIsNotSpinning
  <1>6. Call(c) => tracked' = tracked /\ entry' = entry /\ was' = was
    BY DEF Call, SpinDownNow, SpinUpNow, SetPolicy, SetSettings, Takeover
  <1>7. \/ DownCommand(c) \/ DownVerified(c) \/ DownNotVerified(c) \/ Remember(c)
        \/ UpCommand(c) \/ UpVerified(c) \/ UpNotVerified(c)
        => tracked' = tracked /\ entry' = entry /\ was' = was
    BY DEF DownCommand, DownVerified, DownNotVerified, Remember, UpCommand, UpVerified, UpNotVerified
  <1> QED BY <1>2, <1>3, <1>4, <1>5, <1>6, <1>7 DEF Serve

LEMMA OutsideOurs ==
  ASSUME OursInv, Outside
  PROVE  OursIsNotSpinning' /\ CarriedFlag'
  <1> USE DEF OursInv, driveVars, savedVars, localVars, tickVars
  <1>1. CASE Restart
    BY <1>1 DEF Restart, TickOver, OursIsNotSpinning, CarriedFlag, NoEntry
  <1>2. CASE Advance \/ \E d \in Disks : DiskIO(d) \/ OutsideStandby(d) \/ OutsideWake(d)
    BY <1>2 DEF Advance, DiskIO, OutsideStandby, OutsideWake, OursIsNotSpinning, CarriedFlag
  <1> QED BY <1>1, <1>2 DEF Outside

LEMMA NextOurs == OursInv /\ [Next]_vars => OursInv'
  <1> SUFFICES ASSUME OursInv, [Next]_vars PROVE OursInv'
    OBVIOUS
  <1>1. TypeOK'
    BY NextTypeOK DEF OursInv
  <1>2. CASE Next
    BY <1>1, <1>2, TickOurs, OutsideOurs, RequestOurs DEF Next, OursInv
  <1>3. CASE UNCHANGED vars
    BY <1>1, <1>3 DEF vars, driveVars, savedVars, tickVars, localVars, OursInv,
       OursIsNotSpinning, CarriedFlag
  <1> QED BY <1>2, <1>3

(* A disk is never remembered as put to sleep by the application while it  *)
(* is known to spin, although requests and the monitor replace each        *)
(* other's entries of _tracked without a lock.                             *)
THEOREM OursIsNotSpinningHolds == Spec => []OursIsNotSpinning
  <1>1. Init => OursInv
    BY InitTypeOK DEF Init, OursInv, OursIsNotSpinning, CarriedFlag, NoEntry
  <1>2. OursInv /\ [Next]_vars => OursInv'
    BY NextOurs
  <1>3. OursInv => OursIsNotSpinning
    BY DEF OursInv
  <1> QED BY <1>1, <1>2, <1>3, PTL DEF Spec
=============================================================================
