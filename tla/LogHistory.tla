----------------------------- MODULE LogHistory -----------------------------
(***************************************************************************)
(* What the sleep page may rely on, of EventLog.  The variables below only *)
(* observe it.                                                             *)
(***************************************************************************)
EXTENDS EventLog

VARIABLES
  history,    \* every event ever recorded, pruned or not
  basis,      \* what was recorded when the first statement of the page's request ran:
              \* the events so far, for the timeline; the samples of the window, for the chart
  opened,     \* the matching events when the browser opened the log
  seen,       \* the events it has shown since
  disturbed   \* a restart or a failed write has happened, readings are inherited

hvars == <<vars, history, basis, opened, seen, disturbed>>

HInit == Init /\ history = {} /\ basis = {} /\ opened = {} /\ seen = {} /\ disturbed = (readings # {})

Shown == IF page'.at = "listed" THEN seen \cup page'.rows ELSE seen

HNext ==
  /\ Next
  /\ history' = history \cup events'
  /\ basis' = IF page.at = "rows" /\ page'.at = "before" THEN history
              ELSE IF page.at = "series" /\ page'.at = "stats"
                     THEN Within(page.disk, page.since, page.until)
                     ELSE IF page' = Closed THEN {} ELSE basis
  /\ opened' = IF page = Closed /\ page'.at = "count" THEN Matching(page'.filter) ELSE opened
  /\ seen' = IF page = Closed THEN {} ELSE Shown
  /\ disturbed' = (disturbed \/ Restart \/ StoreFails \/ \E d \in Disks : CrossFails(d))

HSpec == HInit /\ [][HNext]_hvars

-----------------------------------------------------------------------------
PageAt ==
  \/ page = Closed
  \/ page.at \in {"rows", "before", "summary", "drawn"} /\ page.disk \in Disks /\ page.since < page.until
  \/ /\ page.at \in {"series", "stats", "charted"} /\ page.disk \in Disks /\ page.since < page.until
     /\ page.bucket \in Nat \ {0}
  \/ page.at \in {"count", "fetch", "listed"} /\ page.filter \in Filters /\ page.offset \in Nat

TickAt ==
  \/ tick.at \in {"idle", "prunetemps"}
  \/ tick.at = "store" /\ tick.got \in UNION {[ds -> Celsius] : ds \in SUBSET Disks}
  \/ tick.at = "cross" /\ tick.left \subseteq DOMAIN tick.got /\ tick.left # {}

(* The rows of both tables have their columns, a disk has one reading per  *)
(* second, as the primary key says, and ids are unique.                    *)
LogTypeOK ==
  /\ now \in Nat /\ events \subseteq Row /\ readings \subseteq Reading
  /\ hot \subseteq Disks /\ workload \in Workloads
  /\ lastTemp \in Int /\ lastPrune \in Int
  /\ TickAt /\ PageAt
  /\ \A r, s \in readings : r.disk = s.disk /\ r.ts = s.ts => r = s
  /\ \A r, s \in events : r.id = s.id => r = s

-----------------------------------------------------------------------------
(* What the request found of a disk's transitions, at or before an instant.*)
Until(d, t) == {r \in basis : r.disk = d /\ r.event \in Power /\ r.ts <= t}
IsNewest(r, rows) == \A s \in rows : s = r \/ Older(s, r)
Newest(rows) == CHOOSE r \in rows : IsNewest(r, rows)

\* The state a list of segments shows for the second that starts at t.
ShownAt(segments, t) ==
  {segments[i].state : i \in {j \in DOMAIN segments : segments[j].start <= t /\ t < segments[j].end}}

(* Whatever is recorded and pruned between the statements of a request,    *)
(* the timeline shows each second of its window once, and with the state   *)
(* the log gave it when the first statement ran, pruned rows included; or  *)
(* as unknown, where the log never reached back that far or the row that   *)
(* would tell has just been pruned (last_state_before,                     *)
(* eventlog.py:176-178).                                                   *)
TimelineIsHistory ==
  page.at \in {"summary", "drawn"} =>
    \A t \in page.since..(page.until - 1) :
      LET told == Until(page.disk, t)
      IN \/ told # {} /\ ShownAt(page.segments, t) = {StateAfter(Newest(told))}
         \/ /\ ShownAt(page.segments, t) = {"unknown"}
            /\ told = {} \/ Newest(told) \notin events

\* The instants at which a list of segments shows the disk waking.
WakeUps(segments) ==
  {segments[i].end : i \in {j \in 1..(Len(segments) - 1) :
     segments[j].state = "asleep" /\ segments[j + 1].state = "awake"}}

(* The headline numbers agree with the timeline below them, although they  *)
(* are counted by a later statement: the asleep seconds are those shown,   *)
(* and every wake-up shown that is within the retention is counted         *)
(* (eventlog.py:226-230).                                                  *)
SummaryAgrees ==
  page.at = "drawn" =>
    /\ page.asleep = Cardinality({t \in page.since..(page.until - 1) :
                                    ShownAt(page.segments, t) = {"asleep"}})
    /\ page.wakes >= Cardinality({t \in WakeUps(page.segments) : t >= now - Retention})

(* Paging through the log while rows are added and pruned skips none: what *)
(* was there when the log was opened, is still there, and sorts before the *)
(* end of the page, has been shown (query, eventlog.py:147-151).           *)
NoRowSkipped ==
  page.at = "listed" => Leading(Matching(page.filter), page.offset + PageSize) \cap opened \subseteq seen

(* No step, of pruning or of anything else, loses an event or a reading    *)
(* that is within its own retention; a reading may only be replaced by     *)
(* another of the same disk and second (eventlog.py:252-254, 275-276, 419).*)
KeepsRetention ==
  [][/\ \A r \in events \ events' : r.ts < now - Retention
     /\ \A r \in readings \ readings' :
          \/ r.ts < now - TempRetention
          \/ \E s \in readings' : s.disk = r.disk /\ s.ts = r.ts]_hvars

Crossings(d) == {r \in history : r.disk = d /\ r.event \in Temps}

\* r is the oldest of rows; s is the next one after r.
IsOldest(r, rows) == \A s \in rows : s = r \/ Older(r, s)
IsNext(s, r, rows) == Older(r, s) /\ ~\E q \in rows : Older(r, q) /\ Older(q, s)

(* While no write fails and the service is not restarted, there is one     *)
(* event when a disk goes over the critical threshold and one when it      *)
(* comes back: they alternate, and after a round the newest says what the  *)
(* latest reading says (_log_temperature_crossing, monitor.py:236-237).    *)
CrossingsAlternate ==
  ~disturbed => \A d \in Disks :
    LET rows == Crossings(d)
    IN /\ \A r \in rows : IsOldest(r, rows) => r.event = "temp_high"
       /\ \A r, s \in rows : IsNext(s, r, rows) => s.event # r.event
       /\ tick = Idle /\ (\E r \in readings : r.disk = d) =>
            (LatestTemperature(d).celsius >= Crit
               <=> \E r \in rows : IsNewest(r, rows) /\ r.event = "temp_high")

\* A reading the statement that follows may no longer find: past its
\* retention, or replaced by another of the same disk and second.
Gone(r) == r.ts < now - TempRetention \/ r \notin readings

\* The samples a point was computed from.
Under(p) == {r \in basis : p.at <= r.ts /\ r.ts < p.at + page.bucket}

(* The chart: a bucket has a point exactly when it held a sample of the    *)
(* window, so gaps stay gaps (eventlog.py:335-337), and a point lies       *)
(* between the lowest and the highest sample of its bucket.  The table     *)
(* below the chart is read by a later statement, with samples stored,      *)
(* replaced and pruned in between (api/sleep.py:240-241): it still bounds  *)
(* every point whose samples are all there, and counts at least the        *)
(* samples of the chart that are within the retention.                     *)
SeriesKeepsGaps ==
  page.at \in {"stats", "charted"} =>
    /\ \A r \in basis : Cardinality({p \in page.points : r \in Under(p)}) = 1
    /\ \A p \in page.points :
         /\ Under(p) # {}
         /\ \E lo, hi \in Under(p) : 10 * lo.celsius <= p.avg /\ p.avg <= 10 * hi.celsius
    /\ page.at = "charted" =>
         /\ \A p \in page.points : (\E r \in Under(p) : Gone(r))
              \/ \E row \in page.stats : 10 * row.min <= p.avg /\ p.avg <= 10 * row.max
         /\ LET kept == {r \in basis : r.ts >= now - TempRetention}
            IN kept # {} => \E row \in page.stats : row.samples >= Cardinality(kept)

(* What the sleep page draws of a disk is its history: the timeline, the   *)
(* headline numbers and the chart, as stated above.                        *)
PageIsHistory == TimelineIsHistory /\ SummaryAgrees /\ SeriesKeepsGaps
=============================================================================
