------------------------------ MODULE EventLog ------------------------------
(***************************************************************************)
(* The database of the sleep page (storage/eventlog.py): the log of power  *)
(* and temperature events, the temperature readings, the monitor thread    *)
(* that samples and prunes (storage/monitor.py), and the requests that     *)
(* read.  A request reads with several statements, and each statement sees *)
(* what is committed at that moment: writers run in between.               *)
(*                                                                         *)
(* The clock is the host's, in units of which Day is one day; it does not  *)
(* step back.  A row is stamped under _write_lock and seen when it is      *)
(* committed, up to CommitTime later; one step stands for both, at the     *)
(* commit.  A prune takes its cutoff before it waits for the lock, so the  *)
(* step that deletes at once deletes the most the code does.  Which        *)
(* transitions are recorded, and when, is SleepMonitor's matter: here they *)
(* are any.                                                                *)
(***************************************************************************)
EXTENDS Integers, Sequences, FiniteSets, FiniteSetsExt, SequencesExt

CONSTANTS
  Disks,         \* the by-id names
  Celsius,       \* the temperatures a disk may report
  Crit,          \* temp_crit_celsius
  Day,           \* the window of the page, and PRUNE_INTERVAL
  Retention,     \* retention_days
  TempRetention, \* temp_retention_days
  TempInterval,  \* temp_interval_seconds
  PageSize,      \* LOG_PAGE of the browser
  Charts,        \* the windows the page draws temperatures for, with their buckets
  CommitTime,    \* the longest wait for a commit: sqlite gives up after 10 seconds
  Inherited,     \* the readings an earlier run of the service may have left
  Workloads,     \* what runs together: each a set of the words below
  MaxTime, MaxRows, MaxReadings  \* bounds of the model, not of the code

Power == {"sleep", "wake"}
Other == {"sleep_failed"}
Temps == {"temp_high", "temp_normal"}
Words == Power \cup Other \cup {"samples", "timeline", "chart", "browse", "fail", "restart"}

Reading == [ts : Nat, disk : Disks, celsius : Celsius]

ASSUME LogAssumption ==
  /\ Day \in Nat \ {0} /\ TempInterval \in Nat \ {0} /\ PageSize \in Nat \ {0}
  /\ Retention \in Nat /\ TempRetention \in Nat /\ Retention >= Day /\ TempRetention >= Day
  /\ CommitTime \in Nat /\ CommitTime <= Day
  /\ Charts \subseteq [window : Nat \ {0}, bucket : Nat \ {0}]
  /\ Crit \in Nat /\ Celsius \subseteq Nat
  /\ Inherited \subseteq SUBSET Reading
  /\ \A rs \in Inherited : \A r, s \in rs : r.disk = s.disk /\ r.ts = s.ts => r = s
  /\ Workloads \subseteq SUBSET Words
  /\ MaxTime \in Nat /\ MaxRows \in Nat /\ MaxReadings \in Nat

VARIABLES
  now,        \* int(time.time())
  events,     \* the events table, a set of rows
  readings,   \* the temperatures table
  tick,       \* where the monitor thread is in _sample_temperatures or in pruning
  hot,        \* _hot: the disks remembered as over the threshold
  lastTemp, lastPrune,  \* _last_temp, _last_prune
  page,       \* the request that reads, and what the browser then shows
  workload    \* what runs in this behaviour; fixed at the start

vars == <<now, events, readings, tick, hot, lastTemp, lastPrune, page, workload>>

Row == [id : Nat, ts : Nat, disk : Disks, event : Power \cup Other \cup Temps]

Idle == [at |-> "idle"]
Closed == [at |-> "closed"]
LongAgo == -(Day + TempInterval)   \* the 0.0 that _last_temp and _last_prune start with

Init ==
  /\ now = Day /\ events = {}
  /\ tick = Idle /\ hot = {} /\ lastTemp = LongAgo /\ lastPrune = LongAgo
  /\ page = Closed
  /\ workload \in Workloads
  /\ readings \in IF "samples" \in workload THEN Inherited ELSE {{}}

-----------------------------------------------------------------------------
\* INTEGER PRIMARY KEY: one more than the largest id in the table.
NextId == 1 + Max({0} \cup {r.id : r \in events})

\* The seconds a row committed now may be stamped with; the lock makes the
\* stamps follow the order of the commits.
Stamps == {t \in 0..now : t >= now - CommitTime /\ \A r \in events : r.ts <= t}

Inserted(d, e, ts) == events \cup {[id |-> NextId, ts |-> ts, disk |-> d, event |-> e]}

\* record, called by the monitor or by a request: one transaction under _write_lock.
Record(d, e) ==
  /\ e \in workload /\ NextId <= MaxRows
  /\ \E ts \in Stamps : events' = Inserted(d, e, ts)
  /\ UNCHANGED <<now, readings, tick, hot, lastTemp, lastPrune, page, workload>>

\* ORDER BY ts ASC, id ASC; and ORDER BY ts DESC, id DESC
Older(r, s) == r.ts < s.ts \/ (r.ts = s.ts /\ r.id < s.id)
OldestFirst(r, s) == Older(r, s)
Newer(r, s) == Older(s, r)

-----------------------------------------------------------------------------
(* The monitor thread: a round of temperature readings.                    *)

\* _sample_temperatures reads the disks that are awake; which of them
\* answer, and with what, is any.
Sample ==
  /\ "samples" \in workload /\ tick = Idle
  /\ now - lastTemp >= TempInterval
  /\ lastTemp' = now
  /\ \E asked \in SUBSET Disks : \E got \in [asked -> Celsius] :
       /\ Cardinality(readings) + Cardinality(asked) <= MaxReadings
       /\ Cardinality(events) + Cardinality(asked) <= MaxRows
       /\ tick' = IF asked = {} THEN Idle ELSE [at |-> "store", got |-> got]
  /\ UNCHANGED <<now, events, readings, hot, lastPrune, page, workload>>

\* A plain INSERT with no primary key in its way.
KeptTwice(got, at) == readings \cup {[ts |-> at, disk |-> d, celsius |-> got[d]] : d \in DOMAIN got}

\* record_temperatures: INSERT OR REPLACE of the whole round in one transaction,
\* stamped with the second in which the disks had answered.
Replaced(got, at) ==
  {r \in readings : ~(r.ts = at /\ r.disk \in DOMAIN got)}
    \cup {[ts |-> at, disk |-> d, celsius |-> got[d]] : d \in DOMAIN got}

StoreReadings ==
  /\ tick.at = "store"
  /\ \E at \in lastTemp..now : readings' = Replaced(tick.got, at)
  /\ tick' = [at |-> "cross", got |-> tick.got, left |-> DOMAIN tick.got]
  /\ UNCHANGED <<now, events, hot, lastTemp, lastPrune, page, workload>>

IsHot(d) == tick.got[d] >= Crit

\* A disk that has cooled stays remembered as hot.
StaysHot(d) == IF IsHot(d) THEN hot \cup {d} ELSE hot

\* _hot is updated before the event is recorded.
HotAfter(d) == IF IsHot(d) THEN hot \cup {d} ELSE hot \ {d}

\* _log_temperature_crossing
Cross(d) ==
  /\ tick.at = "cross" /\ d \in tick.left
  /\ hot' = HotAfter(d)
  /\ IF hot' = hot THEN events' = events
     ELSE \E ts \in Stamps : events' = Inserted(d, IF IsHot(d) THEN "temp_high" ELSE "temp_normal", ts)
  /\ tick' = IF tick.left = {d} THEN Idle ELSE [tick EXCEPT !.left = @ \ {d}]
  /\ UNCHANGED <<now, readings, lastTemp, lastPrune, page, workload>>

\* The write raises; contextlib.suppress ends the round there.
StoreFails ==
  /\ "fail" \in workload /\ tick.at = "store"
  /\ tick' = Idle
  /\ UNCHANGED <<now, events, readings, hot, lastTemp, lastPrune, page, workload>>

CrossFails(d) ==
  /\ "fail" \in workload /\ tick.at = "cross" /\ d \in tick.left
  /\ HotAfter(d) # hot /\ hot' = HotAfter(d)
  /\ tick' = Idle
  /\ UNCHANGED <<now, events, readings, lastTemp, lastPrune, page, workload>>

-----------------------------------------------------------------------------
(* The monitor thread: pruning, at most once in PRUNE_INTERVAL.            *)

Recent(rows, retention) == {r \in rows : r.ts >= now - retention}

\* eventlog.prune; a failure is suppressed and leaves every row.
Prune ==
  /\ tick = Idle /\ now - lastPrune > Day
  /\ lastPrune' = now
  /\ events' = Recent(events, Retention) \/ ("fail" \in workload /\ events' = events)
  /\ tick' = [at |-> "prunetemps"]
  /\ UNCHANGED <<now, readings, hot, lastTemp, page, workload>>

\* Both tables pruned with the retention of the events.
PruneAlike ==
  /\ tick.at = "prunetemps"
  /\ readings' = Recent(readings, Retention)
  /\ tick' = Idle
  /\ UNCHANGED <<now, events, hot, lastTemp, lastPrune, page, workload>>

\* eventlog.prune_temperatures
PruneTemperatures ==
  /\ tick.at = "prunetemps"
  /\ readings' = Recent(readings, TempRetention)
     \/ ("fail" \in workload /\ readings' = readings)
  /\ tick' = Idle
  /\ UNCHANGED <<now, events, hot, lastTemp, lastPrune, page, workload>>

-----------------------------------------------------------------------------
(* GET /sleep, as far as the log goes: one disk's timeline, then summary.  *)

Open(d) ==
  /\ "timeline" \in workload /\ page = Closed
  /\ page' = [at |-> "rows", disk |-> d, since |-> now - Day, until |-> now]
  /\ UNCHANGED <<now, events, readings, tick, hot, lastTemp, lastPrune, workload>>

\* The first second of the window left out.
InOpenWindow(r) == r.ts > page.since /\ r.ts <= page.until

InWindow(r) == r.ts >= page.since /\ r.ts <= page.until

\* timeline: the transitions within the window.
FetchRows ==
  /\ page.at = "rows"
  /\ page' = [at |-> "before", disk |-> page.disk, since |-> page.since, until |-> page.until,
              rows |-> {r \in events : r.disk = page.disk /\ r.event \in Power /\ InWindow(r)}]
  /\ UNCHANGED <<now, events, readings, tick, hot, lastTemp, lastPrune, workload>>

StateAfter(r) == IF r.event = "sleep" THEN "asleep" ELSE "awake"

\* last_state_before; its None is shown as "unknown".
LastStateBefore(d, ts) ==
  LET before == {r \in events : r.disk = d /\ r.event \in Power /\ r.ts < ts}
  IN IF before = {} THEN "unknown"
     ELSE StateAfter(CHOOSE r \in before : \A s \in before : s = r \/ Older(s, r))

\* One pass of timeline's loop: walk = the state, the cursor and the segments so far.
Walked(walk, row) ==
  [state |-> StateAfter(row), cursor |-> row.ts,
   segments |-> IF row.ts > walk.cursor
                THEN Append(walk.segments, [state |-> walk.state, start |-> walk.cursor, end |-> row.ts])
                ELSE walk.segments]

Segments(rows, first, since, until) ==
  LET end == FoldLeft(Walked, [state |-> first, cursor |-> since, segments |-> <<>>],
                      SetToSortSeq(rows, Older))
  IN IF end.cursor < until
     THEN Append(end.segments, [state |-> end.state, start |-> end.cursor, end |-> until])
     ELSE end.segments

FetchBefore ==
  /\ page.at = "before"
  /\ page' = [at |-> "summary", disk |-> page.disk, since |-> page.since, until |-> page.until,
              segments |-> Segments(page.rows, LastStateBefore(page.disk, page.since),
                                    page.since, page.until)]
  /\ UNCHANGED <<now, events, readings, tick, hot, lastTemp, lastPrune, workload>>

AsleepSeconds(segments) ==
  FoldLeft(LAMBDA sum, s : IF s.state = "asleep" THEN sum + (s.end - s.start) ELSE sum, 0, segments)

\* summary: the asleep seconds of the timeline, and the wake events counted anew.
Summary ==
  /\ page.at = "summary"
  /\ page' = [at |-> "drawn", disk |-> page.disk, since |-> page.since, until |-> page.until,
              segments |-> page.segments, asleep |-> AsleepSeconds(page.segments),
              wakes |-> Cardinality({r \in events : r.disk = page.disk /\ r.event = "wake" /\ InWindow(r)})]
  /\ UNCHANGED <<now, events, readings, tick, hot, lastTemp, lastPrune, workload>>

-----------------------------------------------------------------------------
(* GET /sleep/events and the pager of the browser (sleep.js renderLog).    *)

Every == "any"
Matching(filter) == {r \in events : filter \in {Every, r.disk}}

Filters == Disks \cup {Every}

Browse(filter) ==
  /\ "browse" \in workload /\ page = Closed
  /\ page' = [at |-> "count", filter |-> filter, offset |-> 0]
  /\ UNCHANGED <<now, events, readings, tick, hot, lastTemp, lastPrune, workload>>

\* query: SELECT COUNT, then SELECT ... LIMIT ? OFFSET ?, each on its own snapshot.
CountRows ==
  /\ page.at = "count"
  /\ page' = [at |-> "fetch", filter |-> page.filter, offset |-> page.offset,
              total |-> Cardinality(Matching(page.filter))]
  /\ UNCHANGED <<now, events, readings, tick, hot, lastTemp, lastPrune, workload>>

\* The rows that come first in ORDER BY ts DESC, id DESC.
Leading(rows, n) == {r \in rows : Cardinality({s \in rows : Newer(s, r)}) < n}

\* LIMIT PageSize OFFSET page.offset
FetchPage ==
  /\ page.at = "fetch"
  /\ LET rows == Matching(page.filter)
     IN page' = [at |-> "listed", filter |-> page.filter, offset |-> page.offset, total |-> page.total,
                 rows |-> Leading(rows, page.offset + PageSize) \ Leading(rows, page.offset)]
  /\ UNCHANGED <<now, events, readings, tick, hot, lastTemp, lastPrune, workload>>

\* The buttons; each is disabled where it leads nowhere.
Turned(offset) == [at |-> "count", filter |-> page.filter, offset |-> offset]

HasNext == Min({page.offset + PageSize, page.total}) < page.total

NextPage ==
  /\ page.at = "listed" /\ HasNext
  /\ page' = Turned(page.offset + PageSize)
  /\ UNCHANGED <<now, events, readings, tick, hot, lastTemp, lastPrune, workload>>

PrevPage ==
  /\ page.at = "listed" /\ page.offset # 0
  /\ page' = Turned(Max({0, page.offset - PageSize}))
  /\ UNCHANGED <<now, events, readings, tick, hot, lastTemp, lastPrune, workload>>

Leave ==
  /\ page.at \in {"drawn", "listed", "charted"}
  /\ page' = Closed
  /\ UNCHANGED <<now, events, readings, tick, hot, lastTemp, lastPrune, workload>>

-----------------------------------------------------------------------------
(* GET /sleep/temps/history, for one disk: the series, then the table of   *)
(* extremes, each a statement with a connection of its own.                *)

OpenChart(d, c) ==
  /\ "chart" \in workload /\ page = Closed
  /\ page' = [at |-> "series", disk |-> d, since |-> now - c.window, until |-> now, bucket |-> c.bucket]
  /\ UNCHANGED <<now, events, readings, tick, hot, lastTemp, lastPrune, workload>>

Within(d, since, until) ==
  {r \in readings : r.disk = d /\ r.ts >= since /\ r.ts <= until}

\* AVG, rounded to tenths of a degree.
Tenths(rs) ==
  LET n == Cardinality(rs)
  IN (20 * MapThenSumSet(LAMBDA r : r.celsius, rs) + n) \div (2 * n)

LeftEdge(ts, bucket) == (ts \div bucket) * bucket

\* temperature_series
Series(d, since, until, bucket) ==
  LET rs == Within(d, since, until)
      In(edge) == {r \in rs : LeftEdge(r.ts, bucket) = edge}
  IN {[at |-> edge, avg |-> Tenths(In(edge))] : edge \in {LeftEdge(r.ts, bucket) : r \in rs}}

FetchSeries ==
  /\ page.at = "series"
  /\ page' = [at |-> "stats", disk |-> page.disk, since |-> page.since, until |-> page.until,
              bucket |-> page.bucket, points |-> Series(page.disk, page.since, page.until, page.bucket)]
  /\ UNCHANGED <<now, events, readings, tick, hot, lastTemp, lastPrune, workload>>

\* temperature_stats: a row, or none for a disk without a reading in the window.
Stats(d, since, until) ==
  LET rs == Within(d, since, until)
      cs == {r.celsius : r \in rs}
  IN IF rs = {} THEN {}
     ELSE {[min |-> Min(cs), avg |-> Tenths(rs), max |-> Max(cs), samples |-> Cardinality(rs)]}

FetchStats ==
  /\ page.at = "stats"
  /\ page' = [at |-> "charted", disk |-> page.disk, since |-> page.since, until |-> page.until,
              bucket |-> page.bucket, points |-> page.points,
              stats |-> Stats(page.disk, page.since, page.until)]
  /\ UNCHANGED <<now, events, readings, tick, hot, lastTemp, lastPrune, workload>>

\* latest_temperatures, for a disk that has a reading.
LatestTemperature(d) ==
  CHOOSE r \in readings : r.disk = d /\ \A s \in readings : s.disk = d => s.ts <= r.ts

-----------------------------------------------------------------------------
Pass ==
  /\ now < MaxTime
  /\ now' = now + 1
  /\ UNCHANGED <<events, readings, tick, hot, lastTemp, lastPrune, page, workload>>

\* The service restarts: the database stays, the module's variables do not.
Restart ==
  /\ "restart" \in workload
  /\ tick' = Idle /\ hot' = {} /\ lastTemp' = LongAgo /\ lastPrune' = LongAgo
  /\ page' = Closed
  /\ UNCHANGED <<now, events, readings, workload>>

Next ==
  \/ \E d \in Disks, e \in Power \cup Other : Record(d, e)
  \/ Sample \/ StoreReadings \/ StoreFails
  \/ \E d \in Disks : Cross(d) \/ CrossFails(d)
  \/ Prune \/ PruneTemperatures
  \/ \E d \in Disks : Open(d)
  \/ FetchRows \/ FetchBefore \/ Summary
  \/ \E f \in Filters : Browse(f)
  \/ CountRows \/ FetchPage \/ NextPage \/ PrevPage \/ Leave
  \/ \E d \in Disks, c \in Charts : OpenChart(d, c)
  \/ FetchSeries \/ FetchStats
  \/ Pass \/ Restart

Spec == Init /\ [][Next]_vars
=============================================================================
