--------------------------- MODULE EventLogProofs ---------------------------
(***************************************************************************)
(* Theorems about the event log and what the sleep page shows of it, for   *)
(* any disks, windows, retentions, page sizes and bounds.                  *)
(***************************************************************************)
EXTENDS LogHistory, FiniteSetTheorems, TLAPS

-----------------------------------------------------------------------------
(* Ids *)

\* A finite set of numbers has a largest one.
LEMMA FiniteMax ==
  ASSUME NEW S \in SUBSET Int, IsFiniteSet(S), S # {}
  PROVE  \E m \in S : \A x \in S : m >= x
  <1> DEFINE Above(x) == {y \in S : y > x}
             Sets == {Above(x) : x \in S}
  <1>1. Sets # {}
    OBVIOUS
  <1>2. Sets \subseteq FiniteSubsetsOf(S)
    <2> SUFFICES ASSUME NEW x \in S PROVE Above(x) \in FiniteSubsetsOf(S)
      OBVIOUS
    <2> QED BY FS_Subset DEF FiniteSubsetsOf
  <1>3. PICK A \in Sets : \A B \in Sets : <<B, A>> \notin StrictSubsetOrdering(S)
    BY <1>1, <1>2, FS_StrictSubsetOrderingWellFounded, WFMin
  <1>4. PICK m \in S : A = Above(m)
    BY <1>3
  <1>5. ASSUME NEW x \in S, x > m PROVE FALSE
    <2> S \subseteq Int
      OBVIOUS
    <2>1. /\ \A y \in S : y > x => y > m
          /\ ~(x > x)
      BY <1>5
    <2>2. Above(x) \subseteq Above(m) /\ x \in Above(m) /\ x \notin Above(x)
      BY <1>5, <2>1
    <2>3. Above(x) \subseteq S /\ Above(m) \subseteq S /\ Above(x) # Above(m)
      BY <2>2
    <2>4. <<Above(x), Above(m)>> \in StrictSubsetOrdering(S)
      BY <2>2, <2>3 DEF StrictSubsetOrdering
    <2> QED BY <1>3, <1>4, <2>4
  <1> QED BY <1>5

LEMMA LaterOffset ==
  ASSUME NEW n \in Nat, NEW m \in Nat
  PROVE  Max({0, n - m}) \in Nat /\ Max({0, n - m}) <= n
  <1>1. \E x \in {0, n - m} : \A y \in {0, n - m} : x >= y
    OBVIOUS
  <1>2. Max({0, n - m}) \in {0, n - m} /\ \A y \in {0, n - m} : Max({0, n - m}) >= y
    BY <1>1 DEF Max
  <1> QED BY <1>2

LEMMA NextIdIsNew ==
  ASSUME events \subseteq Row, IsFiniteSet(events)
  PROVE  NextId \in Nat /\ \A r \in events : r.id < NextId
  <1> DEFINE ids == {r.id : r \in events}
             id == [r \in events |-> r.id]
  <1>1. id \in Surjection(events, ids)
    BY DEF Surjection
  <1>2. IsFiniteSet(ids)
    BY <1>1, FS_Surjection
  <1>3. IsFiniteSet({0} \cup ids)
    BY <1>2, FS_AddElement
  <1>4. {0} \cup ids \subseteq Nat /\ {0} \cup ids # {}
    BY DEF Row
  <1>5. \E m \in {0} \cup ids : \A x \in {0} \cup ids : m >= x
    BY <1>3, <1>4, FiniteMax
  <1>6. Max({0} \cup ids) \in {0} \cup ids /\ \A x \in {0} \cup ids : Max({0} \cup ids) >= x
    BY <1>5 DEF Max
  <1>7. NextId = 1 + Max({0} \cup ids)
    BY DEF NextId
  <1>8. \A r \in events : r.id \in ids
    OBVIOUS
  <1>9. Max({0} \cup ids) \in Nat
    BY <1>4, <1>6
  <1> HIDE DEF ids
  <1>10. \A r \in events : r.id \in Nat /\ Max({0} \cup ids) >= r.id
    BY <1>4, <1>6, <1>8
  <1> DEFINE max == Max({0} \cup ids)
  <1>11. NextId = 1 + max /\ max \in Nat /\ \A r \in events : r.id \in Nat /\ max >= r.id
    BY <1>7, <1>9, <1>10
  <1> HIDE DEF max
  <1> QED BY <1>11

-----------------------------------------------------------------------------
(* Types *)

TablesOK ==
  /\ now \in Nat /\ events \subseteq Row /\ IsFiniteSet(events) /\ readings \subseteq Reading
  /\ \A r, s \in events : r.id = s.id => r = s
  /\ \A r, s \in readings : r.disk = s.disk /\ r.ts = s.ts => r = s

Rounds == UNION {[ds -> Celsius] : ds \in SUBSET Disks}

\* A round has a disk and is asked for before it is stored, and what is looked
\* at after that are the same readings.
RoundOK ==
  /\ tick.at = "store" => /\ tick.got \in Rounds /\ DOMAIN tick.got # {}
                         /\ lastTemp \in Nat /\ lastTemp <= now
  /\ tick.at = "cross" => /\ tick = [at |-> "cross", got |-> tick.got, left |-> tick.left]
                         /\ tick.got \in Rounds

ThreadOK ==
  TickAt /\ RoundOK /\ hot \subseteq Disks /\ lastTemp \in Int /\ lastPrune \in Int /\ workload \in Workloads

Typed == TablesOK /\ ThreadOK /\ PageAt

LEMMA InsertedTyped ==
  ASSUME TablesOK, NEW d \in Disks, NEW e \in Power \cup Other \cup Temps, NEW ts \in Stamps
  PROVE  /\ Inserted(d, e, ts) \subseteq Row /\ IsFiniteSet(Inserted(d, e, ts))
         /\ \A r, s \in Inserted(d, e, ts) : r.id = s.id => r = s
  <1> DEFINE new == [id |-> NextId, ts |-> ts, disk |-> d, event |-> e]
  <1>1. NextId \in Nat /\ \A r \in events : r.id < NextId
    BY NextIdIsNew DEF TablesOK
  <1>2. new \in Row /\ new.id = NextId
    BY <1>1 DEF Row, TablesOK, Stamps
  <1>3. Inserted(d, e, ts) = events \cup {new}
    BY DEF Inserted
  <1>4. IsFiniteSet(events \cup {new})
    BY FS_AddElement DEF TablesOK
  <1>5. \A r \in events : r.id \in Nat /\ r.id # NextId
    BY <1>1 DEF TablesOK, Row
  <1> HIDE DEF new
  <1> QED BY <1>2, <1>3, <1>4, <1>5 DEF TablesOK

LEMMA ReplacedTyped ==
  ASSUME TablesOK, NEW ds \in SUBSET Disks, NEW got \in [ds -> Celsius], NEW at \in Nat
  PROVE  /\ Replaced(got, at) \subseteq Reading
         /\ \A r, s \in Replaced(got, at) : r.disk = s.disk /\ r.ts = s.ts => r = s
  BY DEF TablesOK, Replaced, Reading

\* The requests leave both tables and the monitor thread as they are.
Reads ==
  \/ \E d \in Disks : Open(d)
  \/ FetchRows \/ FetchBefore \/ Summary
  \/ \E f \in Filters : Browse(f)
  \/ CountRows \/ FetchPage \/ NextPage \/ PrevPage \/ Leave
  \/ \E d \in Disks, c \in Charts : OpenChart(d, c)
  \/ FetchSeries \/ FetchStats

LEMMA ReadsOnly ==
  Reads => UNCHANGED <<now, events, readings, tick, hot, lastTemp, lastPrune, workload>>
  BY DEF Reads, Open, FetchRows, FetchBefore, Summary, Browse, CountRows, FetchPage, NextPage,
     PrevPage, Leave, OpenChart, FetchSeries, FetchStats

\* What is left of Next, with what each action does to the tables.
Samples ==
  \/ Sample \/ StoreReadings \/ StoreFails
  \/ \E d \in Disks : Cross(d) \/ CrossFails(d)
  \/ Prune \/ PruneTemperatures

LEMMA NextCases ==
  ASSUME [Next]_vars
  PROVE  \/ UNCHANGED vars \/ Reads \/ Samples \/ Pass \/ Restart
         \/ \E d \in Disks, e \in Power \cup Other : Record(d, e)
  BY DEF Next, Reads, Samples

LEMMA InitTyped == Init => Typed
  <1> SUFFICES ASSUME Init PROVE Typed
    OBVIOUS
  <1>1. readings \in Inherited \/ readings = {}
    BY DEF Init
  <1>2. readings \subseteq Reading /\ \A r, s \in readings : r.disk = s.disk /\ r.ts = s.ts => r = s
    BY <1>1, LogAssumption
  <1>3. TablesOK
    BY <1>2, LogAssumption, FS_EmptySet DEF Init, TablesOK
  <1>4. ThreadOK
    BY LogAssumption DEF Init, ThreadOK, TickAt, RoundOK, Idle, LongAgo
  <1> QED BY <1>3, <1>4 DEF Init, Typed, PageAt

LEMMA TablesTyped == Typed /\ [Next]_vars => TablesOK'
  <1> SUFFICES ASSUME Typed, [Next]_vars PROVE TablesOK'
    OBVIOUS
  <1>1. CASE UNCHANGED <<now, events, readings>>
    BY <1>1 DEF Typed, TablesOK
  <1>2. ASSUME NEW d \in Disks, NEW e \in Power \cup Other \cup Temps, NEW ts \in Stamps,
               events' = Inserted(d, e, ts), UNCHANGED <<now, readings>>
        PROVE  TablesOK'
    BY <1>2, InsertedTyped DEF Typed, TablesOK
  <1>3. ASSUME NEW d \in Disks, NEW e \in Power \cup Other, Record(d, e) PROVE TablesOK'
    BY <1>2, <1>3 DEF Record
  <1>4. CASE StoreReadings
    <2>1. PICK ds \in SUBSET Disks : tick.got \in [ds -> Celsius]
      BY <1>4 DEF StoreReadings, Typed, ThreadOK, TickAt
    <2>2. PICK at \in lastTemp..now : readings' = Replaced(tick.got, at)
      BY <1>4 DEF StoreReadings
    <2>3. at \in Nat /\ UNCHANGED <<now, events>>
      BY <1>4 DEF StoreReadings, Typed, ThreadOK, RoundOK, TablesOK
    <2> QED BY <2>1, <2>2, <2>3, ReplacedTyped DEF Typed, TablesOK
  <1>5. ASSUME NEW d \in Disks, Cross(d) PROVE TablesOK'
    <2>1. UNCHANGED <<now, readings>>
      BY <1>5 DEF Cross
    <2>2. CASE events' = events
      BY <1>1, <2>1, <2>2
    <2>3. ASSUME NEW ts \in Stamps, events' = Inserted(d, IF IsHot(d) THEN "temp_high" ELSE "temp_normal", ts)
          PROVE  TablesOK'
      BY <1>2, <2>1, <2>3 DEF Temps
    <2> QED BY <1>5, <2>2, <2>3 DEF Cross
  <1>6. CASE Prune
    <2>1. events' \subseteq events /\ UNCHANGED <<now, readings>>
      BY <1>6 DEF Prune, Recent
    <2>2. IsFiniteSet(events')
      BY <2>1, FS_Subset DEF Typed, TablesOK
    <2> QED BY <2>1, <2>2 DEF Typed, TablesOK
  <1>7. CASE PruneTemperatures
    <2>1. readings' \subseteq readings /\ UNCHANGED <<now, events>>
      BY <1>7 DEF PruneTemperatures, Recent
    <2> QED BY <2>1 DEF Typed, TablesOK
  <1>8. CASE Pass
    <2>1. now' = now + 1 /\ UNCHANGED <<events, readings>>
      BY <1>8 DEF Pass
    <2> QED BY <2>1 DEF Typed, TablesOK
  <1>9. Sample \/ StoreFails \/ (\E d \in Disks : CrossFails(d)) \/ Restart
          => UNCHANGED <<now, events, readings>>
    BY DEF Sample, StoreFails, CrossFails, Restart
  <1> QED
    BY <1>1, <1>3, <1>4, <1>5, <1>6, <1>7, <1>8, <1>9, NextCases, ReadsOnly DEF Samples, vars

LEMMA ThreadTyped == Typed /\ [Next]_vars => ThreadOK'
  <1> SUFFICES ASSUME Typed, [Next]_vars PROVE ThreadOK'
    OBVIOUS
  <1> USE DEF Typed, ThreadOK
  <1>1. CASE UNCHANGED <<tick, hot, lastTemp, lastPrune, workload>> /\ now' \in {now, now + 1}
    BY <1>1 DEF TickAt, RoundOK, TablesOK
  <1>2. CASE Sample
    <2>1. PICK asked \in SUBSET Disks : \E got \in [asked -> Celsius] :
             tick' = IF asked = {} THEN Idle ELSE [at |-> "store", got |-> got]
      BY <1>2 DEF Sample
    <2>2. PICK got \in [asked -> Celsius] :
             tick' = IF asked = {} THEN Idle ELSE [at |-> "store", got |-> got]
      BY <2>1
    <2>3. TickAt' /\ RoundOK'
      <3>1. CASE tick' = Idle
        BY <3>1 DEF TickAt, RoundOK, Idle
      <3>2. CASE asked # {} /\ tick' = [at |-> "store", got |-> got]
        <4>1. got \in Rounds /\ DOMAIN got # {}
          BY <3>2 DEF Rounds
        <4>2. lastTemp' = now /\ now' = now /\ now \in Nat
          BY <1>2 DEF Sample, TablesOK
        <4> QED BY <3>2, <4>1, <4>2 DEF TickAt, RoundOK, Rounds
      <3> QED BY <2>2, <3>1, <3>2
    <2>4. lastTemp' \in Int /\ UNCHANGED <<hot, lastPrune, workload>>
      BY <1>2 DEF Sample, TablesOK
    <2> QED BY <2>3, <2>4
  <1>3. CASE StoreReadings
    <2>1. tick.got \in Rounds /\ DOMAIN tick.got # {} /\ UNCHANGED <<hot, lastTemp, lastPrune, workload>>
      BY <1>3 DEF StoreReadings, RoundOK
    <2>2. tick' = [at |-> "cross", got |-> tick.got, left |-> DOMAIN tick.got]
      BY <1>3 DEF StoreReadings
    <2>3. TickAt' /\ RoundOK'
      BY <2>1, <2>2 DEF TickAt, RoundOK, Rounds
    <2> QED BY <2>1, <2>3
  <1>4. ASSUME NEW d \in Disks, Cross(d) \/ CrossFails(d) PROVE ThreadOK'
    <2>1. hot' \subseteq Disks /\ UNCHANGED <<lastTemp, lastPrune, workload>>
      BY <1>4 DEF Cross, CrossFails, HotAfter
    <2>2. CASE tick' = Idle
      BY <2>1, <2>2 DEF TickAt, RoundOK, Idle
    <2>3. CASE Cross(d) /\ tick' # Idle
      <3>1. /\ tick = [at |-> "cross", got |-> tick.got, left |-> tick.left]
            /\ tick.got \in Rounds /\ tick.left \subseteq DOMAIN tick.got /\ d \in tick.left
            /\ tick.left # {d} /\ tick' = [tick EXCEPT !.left = @ \ {d}]
        BY <2>3 DEF Cross, RoundOK, TickAt
      <3>2. tick' = [at |-> "cross", got |-> tick.got, left |-> tick.left \ {d}]
        BY <3>1
      <3>3. tick.left \ {d} # {}
        BY <3>1
      <3> QED BY <2>1, <3>1, <3>2, <3>3 DEF TickAt, RoundOK
    <2> QED BY <1>4, <2>2, <2>3 DEF CrossFails
  <1>5. CASE Prune \/ PruneTemperatures \/ StoreFails
    BY <1>5 DEF Prune, PruneTemperatures, StoreFails, TickAt, RoundOK, Idle, TablesOK
  <1>6. CASE Restart
    BY <1>6, LogAssumption DEF Restart, TickAt, RoundOK, Idle, LongAgo
  <1>7. Pass \/ (\E d \in Disks, e \in Power \cup Other : Record(d, e))
          => UNCHANGED <<tick, hot, lastTemp, lastPrune, workload>> /\ now' \in {now, now + 1}
    BY DEF Pass, Record
  <1> QED
    BY <1>1, <1>2, <1>3, <1>4, <1>5, <1>6, <1>7, NextCases, ReadsOnly DEF Samples, vars

LEMMA PageTyped == Typed /\ [Next]_vars => PageAt'
  <1> SUFFICES ASSUME Typed, [Next]_vars PROVE PageAt'
    OBVIOUS
  <1>0. /\ PageAt /\ now \in Nat /\ PageSize \in Nat /\ Day \in Nat \ {0}
        /\ \A c \in Charts : c.window \in Nat \ {0} /\ c.bucket \in Nat \ {0}
    BY LogAssumption DEF Typed, TablesOK
  <1>1. CASE UNCHANGED page
    BY <1>0, <1>1 DEF PageAt
  <1>2. ASSUME NEW d \in Disks, Open(d) PROVE PageAt'
    BY <1>0, <1>2 DEF Open, PageAt
  <1>3. CASE FetchRows \/ FetchBefore \/ Summary
    BY <1>0, <1>3 DEF FetchRows, FetchBefore, Summary, PageAt, Closed
  <1>4. ASSUME NEW f \in Filters, Browse(f) PROVE PageAt'
    BY <1>4 DEF Browse, PageAt
  <1>5. CASE CountRows \/ FetchPage
    BY <1>0, <1>5 DEF CountRows, FetchPage, PageAt, Closed
  <1>6. CASE NextPage
    BY <1>0, <1>6 DEF NextPage, Turned, PageAt, Closed
  <1>7. CASE PrevPage
    <2>1. page.filter \in Filters /\ page.offset \in Nat
      BY <1>0, <1>7 DEF PrevPage, PageAt, Closed
    <2>2. Max({0, page.offset - PageSize}) \in Nat
      BY <1>0, <2>1, LaterOffset
    <2> QED BY <1>7, <2>1, <2>2 DEF PrevPage, Turned, PageAt
  <1>8. CASE Leave \/ Restart
    BY <1>8 DEF Leave, Restart, PageAt
  <1>9. Pass \/ Samples \/ (\E d \in Disks, e \in Power \cup Other : Record(d, e)) => UNCHANGED page
    BY DEF Pass, Record, Samples, Sample, StoreReadings, StoreFails, Cross, CrossFails, Prune,
       PruneTemperatures
  <1>10. ASSUME NEW d \in Disks, NEW c \in Charts, OpenChart(d, c) PROVE PageAt'
    BY <1>0, <1>10 DEF OpenChart, PageAt
  <1>11. CASE FetchSeries \/ FetchStats
    BY <1>0, <1>11 DEF FetchSeries, FetchStats, PageAt, Closed
  <1> QED
    BY <1>1, <1>2, <1>3, <1>4, <1>5, <1>6, <1>7, <1>8, <1>9, <1>10, <1>11, NextCases DEF Reads, vars

LEMMA AlwaysTyped == Spec => []Typed
  <1>1. Typed /\ [Next]_vars => Typed'
    BY TablesTyped, ThreadTyped, PageTyped DEF Typed
  <1> QED BY <1>1, InitTyped, PTL DEF Spec

LEMMA HistoryIsLog == HSpec => Spec
  <1>1. HInit => Init
    BY DEF HInit
  <1>2. [HNext]_hvars => [Next]_vars
    BY DEF HNext, hvars
  <1> QED BY <1>1, <1>2, PTL DEF HSpec, Spec

(* Type correctness: both tables keep their columns, an id is given once   *)
(* while its row is in the table, and a disk has one reading per second,   *)
(* although a restart makes the monitor sample again in the same second    *)
(* (record, record_temperatures).                                          *)
THEOREM LogTypeCorrect == HSpec => []LogTypeOK
  <1>1. Typed => LogTypeOK
    BY DEF Typed, TablesOK, ThreadOK, LogTypeOK
  <1> QED BY <1>1, AlwaysTyped, HistoryIsLog, PTL

-----------------------------------------------------------------------------
(* Retention                                                               *)

\* What one step may lose of the two tables.
LosesOldOnly ==
  /\ \A r \in events \ events' : r.ts < now - Retention
  /\ \A r \in readings \ readings' :
       \/ r.ts < now - TempRetention
       \/ \E s \in readings' : s.disk = r.disk /\ s.ts = r.ts

LEMMA InsertedKeeps == ASSUME NEW d, NEW e, NEW ts PROVE events \subseteq Inserted(d, e, ts)
  BY DEF Inserted

LEMMA ReplacedKeeps ==
  ASSUME NEW got, NEW at, NEW r \in readings, r \notin Replaced(got, at)
  PROVE  \E s \in Replaced(got, at) : s.disk = r.disk /\ s.ts = r.ts
  <1>1. r.ts = at /\ r.disk \in DOMAIN got
    BY DEF Replaced
  <1>2. [ts |-> at, disk |-> r.disk, celsius |-> got[r.disk]] \in Replaced(got, at)
    BY <1>1 DEF Replaced
  <1> QED
    BY <1>1, <1>2

LEMMA StepLosesOldOnly == Typed /\ [Next]_vars => LosesOldOnly
  <1> SUFFICES ASSUME Typed, [Next]_vars PROVE LosesOldOnly
    OBVIOUS
  <1>1. CASE UNCHANGED <<events, readings>>
    BY <1>1 DEF LosesOldOnly
  <1>2. CASE \E d \in Disks, e \in Power \cup Other : Record(d, e)
    BY <1>2, InsertedKeeps DEF Record, LosesOldOnly
  <1>3. CASE StoreReadings
    BY <1>3, ReplacedKeeps DEF StoreReadings, LosesOldOnly
  <1>4. CASE \E d \in Disks : Cross(d)
    BY <1>4, InsertedKeeps DEF Cross, LosesOldOnly
  <1>5. CASE Prune
    BY <1>5, LogAssumption DEF Prune, Recent, LosesOldOnly, Typed, TablesOK, Row
  <1>6. CASE PruneTemperatures
    BY <1>6, LogAssumption DEF PruneTemperatures, Recent, LosesOldOnly, Typed, TablesOK, Reading
  <1>7. Sample \/ StoreFails \/ (\E d \in Disks : CrossFails(d)) \/ Reads \/ Pass \/ Restart
          => UNCHANGED <<events, readings>>
    BY ReadsOnly DEF Sample, StoreFails, CrossFails, Pass, Restart
  <1> QED
    BY <1>1, <1>2, <1>3, <1>4, <1>5, <1>6, <1>7, NextCases DEF Samples, vars

(* Neither prune, nor any other step, loses a row or a reading within its  *)
(* own retention, whatever the retentions are (eventlog.prune,             *)
(* prune_temperatures, record_temperatures).                               *)
THEOREM KeepsRetentionHolds == HSpec => KeepsRetention
  <1>1. Typed /\ [HNext]_hvars => [LosesOldOnly]_hvars
    BY StepLosesOldOnly DEF HNext, hvars
  <1> QED
    BY <1>1, AlwaysTyped, HistoryIsLog, PTL DEF HSpec, KeepsRetention, LosesOldOnly

-----------------------------------------------------------------------------
(* The order of the rows.  An id may be given again when its row is pruned,*)
(* but a new row sorts after all there ever were: what was pruned is older *)
(* than the retention, which no commit takes, and what was not was stamped *)
(* before it, under the lock, and has a smaller id.                        *)

InOrder ==
  /\ events \subseteq history /\ history \subseteq Row
  /\ \A r \in history : r.ts <= now
  /\ \A r \in history \ events : r.ts < now - Retention
  /\ \A r, s \in history : r = s \/ Older(r, s) \/ Older(s, r)

NewRow(d, e, ts) == [id |-> NextId, ts |-> ts, disk |-> d, event |-> e]

LEMMA NewRowIsNewest ==
  ASSUME TablesOK, InOrder, NEW d, NEW e, NEW ts \in Stamps
  PROVE  /\ Inserted(d, e, ts) = events \cup {NewRow(d, e, ts)}
         /\ NewRow(d, e, ts).disk = d /\ NewRow(d, e, ts).event = e /\ NewRow(d, e, ts).ts = ts
         /\ ~Older(NewRow(d, e, ts), NewRow(d, e, ts))
         /\ \A r \in history : /\ Older(r, NewRow(d, e, ts)) /\ ~Older(NewRow(d, e, ts), r)
                               /\ r # NewRow(d, e, ts)
  <1>1. NextId \in Nat /\ \A r \in events : r.id < NextId
    BY NextIdIsNew DEF TablesOK
  <1>2. NewRow(d, e, ts).id = NextId /\ NewRow(d, e, ts).ts = ts /\ NewRow(d, e, ts).disk = d
        /\ NewRow(d, e, ts).event = e
    BY DEF NewRow
  <1>3. /\ ts \in Nat /\ now \in Nat /\ ts >= now - Retention
        /\ \A r \in events : r.ts <= ts
    BY LogAssumption DEF Stamps, TablesOK
  <1>4. ASSUME NEW r \in history
        PROVE  Older(r, NewRow(d, e, ts)) /\ ~Older(NewRow(d, e, ts), r) /\ r # NewRow(d, e, ts)
    <2>1. r.ts \in Nat /\ r.id \in Nat
      BY DEF InOrder, Row
    <2>2. r.ts < ts \/ (r.ts = ts /\ r.id < NextId)
      <3>1. CASE r \in events
        BY <1>1, <1>3, <2>1, <3>1
      <3>2. CASE r \notin events
        BY <1>3, <2>1, <3>2, LogAssumption DEF InOrder
      <3> QED BY <3>1, <3>2
    <2>3. NewRow(d, e, ts).ts = ts /\ NewRow(d, e, ts).id = NextId
      BY <1>2
    <2> HIDE DEF NewRow
    <2>4. Older(r, NewRow(d, e, ts)) /\ ~Older(NewRow(d, e, ts), r)
      BY <1>1, <1>3, <2>1, <2>2, <2>3 DEF Older
    <2>5. ~Older(r, r)
      BY <2>1 DEF Older
    <2> QED BY <2>4, <2>5
  <1>5. ~Older(NewRow(d, e, ts), NewRow(d, e, ts))
    BY <1>1, <1>2, <1>3 DEF Older
  <1> QED BY <1>2, <1>4, <1>5 DEF Inserted, NewRow

\* What a step does to the events and the clock.
LEMMA EventSteps ==
  ASSUME [Next]_vars
  PROVE  \/ UNCHANGED <<now, events>>
         \/ now' = now + 1 /\ UNCHANGED <<events, readings, tick, hot, page>>
         \/ \E d \in Disks, e \in Power \cup Other, ts \in Stamps :
              events' = Inserted(d, e, ts) /\ UNCHANGED <<now, readings, tick, hot, page>>
         \/ \E d \in Disks, ts \in Stamps :
              Cross(d) /\ events' = Inserted(d, IF IsHot(d) THEN "temp_high" ELSE "temp_normal", ts)
         \/ Prune /\ events' = Recent(events, Retention)
  <1>1. Pass => now' = now + 1 /\ UNCHANGED <<events, readings, tick, hot, page>>
    BY DEF Pass
  <1>2. ASSUME NEW d \in Disks, NEW e \in Power \cup Other, Record(d, e)
        PROVE  /\ \E ts \in Stamps : events' = Inserted(d, e, ts)
               /\ UNCHANGED <<now, readings, tick, hot, page>>
    BY <1>2 DEF Record
  <1>3. ASSUME NEW d \in Disks, Cross(d)
        PROVE  \/ UNCHANGED <<now, events>>
               \/ \E ts \in Stamps :
                    events' = Inserted(d, IF IsHot(d) THEN "temp_high" ELSE "temp_normal", ts)
    BY <1>3 DEF Cross
  <1>4. Prune => UNCHANGED <<now, events>> \/ events' = Recent(events, Retention)
    BY DEF Prune
  <1>5. Sample \/ StoreReadings \/ StoreFails \/ (\E d \in Disks : CrossFails(d))
          \/ PruneTemperatures \/ Restart => UNCHANGED <<now, events>>
    BY DEF Sample, StoreReadings, StoreFails, CrossFails, PruneTemperatures, Restart
  <1> QED BY <1>1, <1>2, <1>3, <1>4, <1>5, NextCases, ReadsOnly DEF Samples, vars

LEMMA StepInOrder ==
  ASSUME TablesOK, TablesOK', InOrder, [HNext]_hvars
  PROVE  InOrder'
  <1>1. [Next]_vars /\ (history' = history \cup events' \/ UNCHANGED <<vars, history>>)
    BY DEF HNext, hvars
  <1>2. events \subseteq history /\ events' \subseteq Row /\ now \in Nat
    BY DEF InOrder, TablesOK
  <1>3. ASSUME NEW d, NEW e, NEW ts \in Stamps, events' = Inserted(d, e, ts), UNCHANGED now PROVE InOrder'
    <2> DEFINE new == NewRow(d, e, ts)
    <2>1. /\ events' = events \cup {new} /\ new.ts = ts
          /\ \A r \in history : Older(r, new)
      BY <1>3, NewRowIsNewest
    <2> HIDE DEF new
    <2>2. history' = history \cup {new}
      BY <1>1, <1>2, <2>1 DEF vars
    <2>3. ts <= now
      BY <1>2 DEF Stamps
    <2> QED BY <1>2, <1>3, <2>1, <2>2, <2>3 DEF InOrder, TablesOK, Older
  <1>4. ASSUME events' \subseteq events,
               \/ now' = now /\ \A r \in events \ events' : r.ts < now - Retention
               \/ now' = now + 1 /\ events' = events
        PROVE  InOrder'
    <2>1. history' = history
      BY <1>1, <1>2, <1>4
    <2>2. \A r \in history : r.ts \in Nat /\ r.ts <= now
      BY DEF InOrder, Row
    <2>3. \A r \in history : r.ts <= now'
      BY <1>2, <1>4, <2>2
    <2>4. \A r \in history \ events' : r.ts < now' - Retention
      BY <1>2, <1>4, <2>2, LogAssumption DEF InOrder
    <2>5. \A r, s \in history : (r = s \/ Older(r, s) \/ Older(s, r))'
      BY DEF InOrder, Older
    <2> QED BY <1>4, <1>2, <2>1, <2>3, <2>4, <2>5 DEF InOrder
  <1>5. CASE events' = Recent(events, Retention) /\ UNCHANGED now
    <2>1. \A r \in events \ events' : r.ts < now - Retention
      BY <1>2, <1>5, LogAssumption DEF Recent, TablesOK, Row
    <2> QED BY <1>4, <1>5, <2>1 DEF Recent
  <1>6. Prune => UNCHANGED now
    BY DEF Prune
  <1>7. ASSUME NEW d \in Disks, Cross(d) PROVE UNCHANGED now
    BY <1>7 DEF Cross
  <1> QED BY <1>1, <1>3, <1>4, <1>5, <1>6, <1>7, EventSteps

-----------------------------------------------------------------------------
(* Paging                                                                  *)

LEMMA LeadingGrows ==
  ASSUME NEW rows, IsFiniteSet(rows), NEW m \in Nat, NEW n \in Nat, m <= n
  PROVE  Leading(rows, m) \subseteq Leading(rows, n)
  <1> SUFFICES ASSUME NEW r \in rows, Cardinality({s \in rows : Newer(s, r)}) < m
               PROVE  Cardinality({s \in rows : Newer(s, r)}) < n
    BY DEF Leading
  <1>1. Cardinality({s \in rows : Newer(s, r)}) \in Nat
    BY FS_Subset, FS_CardinalityType
  <1> QED BY <1>1

\* A row keeps its place or moves back when rows are added, and when rows
\* older than it are taken away.
LEMMA LeadingStays ==
  ASSUME NEW rows, NEW later, IsFiniteSet(later), NEW r \in rows \cap later, NEW n \in Nat,
         \A s \in rows : Newer(s, r) => s \in later,
         r \in Leading(later, n)
  PROVE  r \in Leading(rows, n)
  <1> DEFINE before == {s \in rows : Newer(s, r)}
             after == {s \in later : Newer(s, r)}
  <1>1. before \subseteq after /\ IsFiniteSet(after)
    BY FS_Subset
  <1>2. Cardinality(before) <= Cardinality(after) /\ IsFiniteSet(before)
    BY <1>1, FS_Subset
  <1>3. Cardinality(before) \in Nat /\ Cardinality(after) \in Nat
    BY <1>1, <1>2, FS_CardinalityType
  <1>4. Cardinality(after) < n
    BY DEF Leading
  <1> QED BY <1>2, <1>3, <1>4 DEF Leading

PagesAre(n) == Leading(Matching(page.filter), n) \cap opened \subseteq seen

Paged ==
  /\ opened \subseteq history
  /\ page.at \in {"count", "fetch"} => PagesAre(page.offset)
  /\ page.at = "listed" => PagesAre(page.offset + PageSize)

\* What is among the first rows after a step was so before it, or is new.
LEMMA RowsMoveBack ==
  ASSUME TablesOK, TablesOK', InOrder, [Next]_vars, NEW f, NEW n \in Nat,
         NEW r \in history, r \in Leading(Matching(f)', n)
  PROVE  r \in Leading(Matching(f), n)
  <1>1. Matching(f)' \subseteq events' /\ IsFiniteSet(events')
    BY DEF Matching, TablesOK
  <1>2. IsFiniteSet(Matching(f)')
    BY <1>1, FS_Subset
  <1>3. r \in Matching(f)'
    BY DEF Leading
  <1>4. CASE events' = events
    BY <1>4 DEF Matching
  <1>5. ASSUME NEW d, NEW e, NEW ts \in Stamps, events' = Inserted(d, e, ts) PROVE r \in Leading(Matching(f), n)
    <2>1. r # NewRow(d, e, ts) /\ events' = events \cup {NewRow(d, e, ts)}
      BY <1>5, NewRowIsNewest
    <2>2. r \in Matching(f) /\ Matching(f) \subseteq Matching(f)'
      BY <1>3, <2>1 DEF Matching
    <2> QED BY <1>2, <1>3, <2>2, LeadingStays
  <1>6. CASE events' = Recent(events, Retention)
    <2>1. r \in events /\ r.ts >= now - Retention /\ r \in Matching(f)
      BY <1>3, <1>6 DEF Matching, Recent
    <2>2. now - Retention \in Int
      BY LogAssumption DEF TablesOK
    <2>3. ASSUME NEW s \in Matching(f), Newer(s, r) PROVE s \in Matching(f)'
      <3>1. s \in events /\ s.ts \in Nat /\ r.ts \in Nat
        BY <2>1 DEF Matching, TablesOK, Row
      <3>2. s.ts >= r.ts
        BY <2>3, <3>1 DEF Newer, Older
      <3>3. s.ts >= now - Retention
        BY <2>1, <2>2, <3>1, <3>2
      <3>4. s \in events'
        BY <1>6, <3>1, <3>3 DEF Recent
      <3> QED BY <3>4 DEF Matching
    <2> QED BY <1>2, <1>3, <2>1, <2>3, LeadingStays
  <1> QED BY <1>4, <1>5, <1>6, EventSteps

LEMMA StepPaged ==
  ASSUME Typed, Typed', InOrder, Paged, [HNext]_hvars
  PROVE  Paged'
  <1>1. /\ [Next]_vars
        /\ (history \subseteq history' /\ events' \subseteq history') \/ UNCHANGED <<vars, history, opened>>
    BY DEF HNext, hvars
  <1>2. events \subseteq history /\ history \subseteq history'
    BY <1>1 DEF InOrder
  <1>3. TablesOK /\ TablesOK' /\ PageAt /\ PageAt' /\ PageSize \in Nat \ {0}
    BY LogAssumption DEF Typed
  <1>4. ASSUME NEW f, NEW n \in Nat, Leading(Matching(f), n) \cap opened \subseteq seen,
               opened' = opened, seen \subseteq seen'
        PROVE  Leading(Matching(f)', n) \cap opened' \subseteq seen'
    <2> SUFFICES ASSUME NEW r \in opened, r \in Leading(Matching(f)', n) PROVE r \in seen
      BY <1>4
    <2>1. r \in history
      BY DEF Paged
    <2> QED BY <1>1, <1>3, <1>4, <2>1, RowsMoveBack
  <1>5. CASE UNCHANGED hvars
    BY <1>5 DEF hvars, vars, Paged, PagesAre, Matching, Leading
  <1>6. CASE HNext /\ page' = page
    <2>1. opened' = opened
      BY <1>6 DEF HNext, Closed
    <2>2. page.at \in {"count", "fetch", "listed"} => seen \subseteq seen'
      BY <1>6 DEF HNext, Closed, Shown
    <2>3. page.at \in {"count", "fetch", "listed"} => page.offset \in Nat /\ page.offset + PageSize \in Nat
      BY <1>3 DEF PageAt, Closed
    <2>4. page.at \in {"count", "fetch"} => PagesAre(page.offset)'
      BY <1>4, <1>6, <2>1, <2>2, <2>3 DEF Paged, PagesAre
    <2>5. page.at = "listed" => PagesAre(page.offset + PageSize)'
      BY <1>4, <1>6, <2>1, <2>2, <2>3 DEF Paged, PagesAre
    <2> QED BY <1>2, <1>6, <2>1, <2>4, <2>5 DEF Paged
  <1>7. ASSUME HNext, Reads \/ Restart PROVE Paged'
    <2>1. UNCHANGED events
      BY <1>7, ReadsOnly DEF Restart
    <2>2. \A f : Matching(f)' = Matching(f)
      BY <2>1 DEF Matching
    <2>3. ASSUME NEW f \in Filters, Browse(f) PROVE Paged'
      <3>1. page = Closed /\ page' = [at |-> "count", filter |-> f, offset |-> 0]
        BY <2>3 DEF Browse
      <3>2. page'.at = "count" /\ page'.offset = 0 /\ page'.filter = f
        BY <3>1
      <3>3. opened' = Matching(f)
        BY <1>7, <3>1, <3>2 DEF HNext
      <3>4. opened' \subseteq history'
        BY <1>2, <3>3 DEF Matching
      <3>5. Leading(Matching(f)', 0) = {}
        <4> SUFFICES ASSUME NEW r \in Matching(f)' PROVE ~(Cardinality({s \in Matching(f)' : Newer(s, r)}) < 0)
          BY DEF Leading
        <4>1. {s \in Matching(f)' : Newer(s, r)} \subseteq events' /\ IsFiniteSet(events')
          BY <1>3 DEF Matching, TablesOK
        <4>2. Cardinality({s \in Matching(f)' : Newer(s, r)}) \in Nat
          BY <4>1, FS_Subset, FS_CardinalityType
        <4> QED BY <4>2
      <3> QED BY <3>2, <3>4, <3>5 DEF Paged, PagesAre
    <2>4. ASSUME page # Closed PROVE opened' = opened /\ seen' = Shown
      BY <1>7, <2>4 DEF HNext
    <2>5. CASE CountRows
      <3>1. /\ page.at = "count" /\ page'.at = "fetch" /\ page'.filter = page.filter
            /\ page'.offset = page.offset
        BY <2>5 DEF CountRows
      <3>2. opened' = opened /\ seen' = seen
        BY <2>4, <3>1 DEF Closed, Shown
      <3> QED BY <1>2, <2>2, <3>1, <3>2 DEF Paged, PagesAre
    <2>6. CASE FetchPage
      <3> DEFINE n == page.offset + PageSize
      <3>1. /\ page.at = "fetch" /\ page'.at = "listed" /\ page'.filter = page.filter
            /\ page'.offset = page.offset
            /\ page'.rows = Leading(Matching(page.filter), n) \ Leading(Matching(page.filter), page.offset)
        BY <2>6 DEF FetchPage
      <3>2. opened' = opened /\ seen' = seen \cup page'.rows
        BY <2>4, <3>1 DEF Closed, Shown
      <3>3. Leading(Matching(page.filter), page.offset) \cap opened \subseteq seen
        BY <3>1 DEF Paged, PagesAre
      <3>4. Leading(Matching(page.filter), n) \cap opened' \subseteq seen'
        BY <3>1, <3>2, <3>3
      <3> QED BY <1>2, <2>2, <3>1, <3>2, <3>4 DEF Paged, PagesAre
    <2>7. CASE NextPage
      <3>1. /\ page.at = "listed" /\ page'.at = "count" /\ page'.filter = page.filter
            /\ page'.offset = page.offset + PageSize
        BY <2>7 DEF NextPage, Turned
      <3>2. opened' = opened /\ seen' = seen
        BY <2>4, <3>1 DEF Closed, Shown
      <3> QED BY <1>2, <2>2, <3>1, <3>2 DEF Paged, PagesAre
    <2>8. CASE PrevPage
      <3>1. /\ page.at = "listed" /\ page'.at = "count" /\ page'.filter = page.filter
            /\ page'.offset = Max({0, page.offset - PageSize})
        BY <2>8 DEF PrevPage, Turned
      <3>2. opened' = opened /\ seen' = seen
        BY <2>4, <3>1 DEF Closed, Shown
      <3>3. page.offset \in Nat
        BY <1>3, <3>1 DEF PageAt, Closed
      <3>4. page'.offset \in Nat /\ page.offset + PageSize \in Nat /\ page'.offset <= page.offset + PageSize
        <4>1. page'.offset \in Nat /\ page'.offset <= page.offset
          BY <1>3, <3>1, <3>3, LaterOffset
        <4> QED BY <1>3, <3>3, <4>1
      <3>5. IsFiniteSet(Matching(page.filter))
        BY <1>3, FS_Subset DEF Matching, TablesOK
      <3>6. Leading(Matching(page.filter), page'.offset) \subseteq Leading(Matching(page.filter), page.offset + PageSize)
        BY <3>4, <3>5, LeadingGrows
      <3>7. Leading(Matching(page.filter), page'.offset) \cap opened \subseteq seen
        BY <3>1, <3>6 DEF Paged, PagesAre
      <3> QED BY <1>2, <2>2, <3>1, <3>2, <3>7 DEF Paged, PagesAre
    <2>9. ASSUME NEW d \in Disks, Open(d) PROVE Paged'
      <3>1. page = Closed /\ page'.at = "rows"
        BY <2>9 DEF Open
      <3>2. opened' = opened
        BY <1>7, <3>1 DEF HNext
      <3> QED BY <1>2, <3>1, <3>2 DEF Paged
    <2>10. CASE \/ FetchRows \/ FetchBefore \/ Summary \/ Leave \/ Restart
                \/ (\E d \in Disks, c \in Charts : OpenChart(d, c)) \/ FetchSeries \/ FetchStats
      <3>1. page'.at \notin {"count", "fetch", "listed"}
        BY <2>10 DEF FetchRows, FetchBefore, Summary, Leave, Restart, Closed, OpenChart, FetchSeries,
           FetchStats
      <3>2. opened' = opened
        BY <1>7, <3>1 DEF HNext
      <3> QED BY <1>2, <3>1, <3>2 DEF Paged
    <2> QED BY <1>7, <2>3, <2>5, <2>6, <2>7, <2>8, <2>9, <2>10 DEF Reads
  <1>8. \/ UNCHANGED vars \/ Reads \/ Samples \/ Pass \/ Restart
        \/ \E d \in Disks, e \in Power \cup Other : Record(d, e)
    BY <1>1, NextCases
  <1>9. Pass \/ Samples \/ (\E d \in Disks, e \in Power \cup Other : Record(d, e)) \/ UNCHANGED vars
          => UNCHANGED page
    BY DEF Pass, Record, Samples, Sample, StoreReadings, StoreFails, Cross, CrossFails, Prune,
       PruneTemperatures, vars
  <1> QED BY <1>5, <1>6, <1>7, <1>8, <1>9

Shows == Typed /\ InOrder /\ Paged

LEMMA AlwaysShows == HSpec => []Shows
  <1>1. HInit => Shows
    <2> SUFFICES ASSUME HInit PROVE Shows
      OBVIOUS
    <2>1. Typed /\ events = {} /\ history = {} /\ opened = {} /\ page = Closed
      BY InitTyped DEF HInit, Init
    <2> QED BY <2>1 DEF Shows, InOrder, Paged, Closed
  <1>2. Shows /\ [HNext]_hvars => Shows'
    <2> SUFFICES ASSUME Shows, [HNext]_hvars PROVE Shows'
      OBVIOUS
    <2>1. [Next]_vars
      BY DEF HNext, hvars
    <2>2. Typed'
      BY <2>1, TablesTyped, ThreadTyped, PageTyped DEF Shows, Typed
    <2>3. InOrder'
      BY <2>2, StepInOrder DEF Shows, Typed
    <2> QED BY <2>2, <2>3, StepPaged DEF Shows
  <1> QED BY <1>1, <1>2, PTL DEF HSpec

(* Paging shows every row that was there when the log was opened and is    *)
(* still there, up to the end of the page shown, for any page size and any *)
(* number of rows recorded and pruned between two clicks and between the   *)
(* two statements of query.  The offset counts from the newest row: new    *)
(* rows push the others on, and a prune takes rows from the far end only.  *)
THEOREM NoRowSkippedHolds == HSpec => []NoRowSkipped
  <1>1. Shows => NoRowSkipped
    BY DEF Shows, Paged, PagesAre, NoRowSkipped
  <1> QED BY <1>1, AlwaysShows, PTL

-----------------------------------------------------------------------------
(* Crossings of the critical temperature                                   *)

Alternate(rows) ==
  /\ \A r \in rows : IsOldest(r, rows) => r.event = "temp_high"
  /\ \A r, s \in rows : IsNext(s, r, rows) => s.event # r.event

\* The newest crossing is what _hot remembers.
Remembered(d, rows) ==
  \/ rows = {} /\ d \notin hot
  \/ \E r \in rows : IsNewest(r, rows) /\ (r.event = "temp_high" <=> d \in hot)

IsLatest(r, d) == r \in readings /\ r.disk = d /\ \A s \in readings : s.disk = d => s.ts <= r.ts

\* In the round that is being looked at, d has been looked at.
LookedAt(d) == ~(tick.at = "cross" /\ d \in tick.left)

\* A round is stamped after those stored before it.
Watching ==
  /\ \A r \in readings : r.ts <= now
  /\ tick.at = "store" => \A r \in readings : r.ts <= lastTemp
  /\ \A d \in Disks :
       /\ (\E r \in readings : r.disk = d) => \E r \in readings : IsLatest(r, d)
       /\ \A r \in readings : IsLatest(r, d) =>
            IF LookedAt(d) THEN r.celsius >= Crit <=> d \in hot ELSE r.celsius = tick.got[d]

Crossed == \A d \in Disks : Alternate(Crossings(d)) /\ Remembered(d, Crossings(d))

\* A row that is newer than all and says the opposite of the newest.
LEMMA AlternateMore ==
  ASSUME NEW rows, NEW t, t.event \in Temps,
         \A r \in rows : Older(r, t) /\ ~Older(t, r) /\ r # t,
         ~Older(t, t),
         Alternate(rows),
         IF rows = {} THEN t.event = "temp_high"
         ELSE \E r \in rows : IsNewest(r, rows) /\ r.event # t.event
  PROVE  Alternate(rows \cup {t}) /\ IsNewest(t, rows \cup {t})
  <1> DEFINE more == rows \cup {t}
  <1>1. ASSUME NEW r \in more, IsOldest(r, more) PROVE r.event = "temp_high"
    <2>1. CASE r = t
      <3>1. rows = {}
        BY <1>1, <2>1 DEF IsOldest
      <3> QED BY <2>1, <3>1
    <2>2. CASE r \in rows
      <3>1. IsOldest(r, rows)
        BY <1>1, <2>2 DEF IsOldest
      <3> QED BY <2>2, <3>1 DEF Alternate
    <2> QED BY <2>1, <2>2
  <1>2. ASSUME NEW r \in more, NEW s \in more, IsNext(s, r, more) PROVE s.event # r.event
    <2>1. Older(r, s) /\ \A q \in more : ~(Older(r, q) /\ Older(q, s))
      BY <1>2 DEF IsNext
    <2>2. CASE r \in rows /\ s \in rows
      <3>1. IsNext(s, r, rows)
        BY <2>1 DEF IsNext
      <3> QED BY <2>2, <3>1 DEF Alternate
    <2>3. CASE r \in rows /\ s = t
      <3>1. PICK q \in rows : IsNewest(q, rows) /\ q.event # t.event
        BY <2>3
      <3>2. CASE q = r
        BY <2>3, <3>1, <3>2
      <3>3. CASE q # r
        <4>1. Older(r, q) /\ Older(q, t)
          BY <2>3, <3>1, <3>3 DEF IsNewest
        <4> QED BY <2>1, <2>3, <4>1
      <3> QED BY <3>2, <3>3
    <2>4. CASE r = t
      <3>1. s = t \/ s \in rows
        OBVIOUS
      <3> QED BY <2>1, <2>4, <3>1
    <2> QED BY <2>2, <2>3, <2>4
  <1>3. IsNewest(t, more)
    BY DEF IsNewest
  <1> QED BY <1>1, <1>2, <1>3 DEF Alternate

\* What a step that records no crossing leaves.
LEMMA SameCrossings ==
  ASSUME NEW d, history' = history \/ \E t : history' = history \cup {t} /\ t.event \notin Temps
  PROVE  Crossings(d)' = Crossings(d)
  <1>1. CASE history' = history
    BY <1>1 DEF Crossings
  <1>2. ASSUME NEW t, history' = history \cup {t}, t.event \notin Temps
        PROVE  Crossings(d)' = Crossings(d)
    BY <1>2 DEF Crossings
  <1> QED BY <1>1, <1>2

LEMMA CrossKeeps ==
  ASSUME Typed, InOrder, Crossed, [HNext]_hvars, NEW d \in Disks, Cross(d)
  PROVE  Crossed'
  <1>1. history' = history \cup events' \/ (events' = events /\ history' = history)
    BY DEF HNext, hvars, vars
  <1>2. events \subseteq history /\ TablesOK
    BY DEF InOrder, Typed
  <1>3. CASE hot' = hot
    <2>1. history' = history
      BY <1>1, <1>2, <1>3 DEF Cross
    <2> QED BY <1>3, <2>1 DEF Crossed, Crossings, Remembered
  <1>4. CASE hot' # hot
    <2> DEFINE e == IF IsHot(d) THEN "temp_high" ELSE "temp_normal"
    <2>0. PICK ts \in Stamps : events' = Inserted(d, e, ts)
      BY <1>4 DEF Cross
    <2> DEFINE t == NewRow(d, e, ts)
    <2>1. events' = Inserted(d, e, ts) /\ hot' = HotAfter(d)
      BY <2>0 DEF Cross
    <2>2. events' = events \cup {t} /\ t.disk = d /\ t.event = e
          /\ ~Older(t, t) /\ \A r \in history : Older(r, t) /\ ~Older(t, r) /\ r # t
      BY <1>2, <2>1, NewRowIsNewest
    <2>3. e \in Temps /\ (e = "temp_high" <=> d \in hot') /\ (d \in hot' <=> d \notin hot)
      BY <1>4, <2>1 DEF HotAfter, Temps
    <2>4. \A c \in Disks : c # d => (c \in hot' <=> c \in hot)
      BY <2>1 DEF HotAfter
    <2> HIDE DEF t, e
    <2>5. history' = history \cup {t}
      BY <1>1, <1>2, <2>2
    <2>6. ASSUME NEW c \in Disks, c # d PROVE Alternate(Crossings(c))' /\ Remembered(c, Crossings(c))'
      <3>1. Crossings(c)' = Crossings(c)
        BY <2>2, <2>5, <2>6 DEF Crossings
      <3>2. c \in hot' <=> c \in hot
        BY <2>4, <2>6
      <3> QED BY <3>1, <3>2 DEF Crossed, Remembered
    <2>7. Crossings(d)' = Crossings(d) \cup {t}
      BY <2>2, <2>3, <2>5 DEF Crossings
    <2>8. \A r \in Crossings(d) : r.event \in Temps /\ r \in history
      BY DEF Crossings
    <2>9. CASE Crossings(d) = {}
      <3>1. d \notin hot
        BY <2>9 DEF Crossed, Remembered
      <3>2. t.event = "temp_high"
        BY <2>2, <2>3, <3>1
      <3>3. Alternate(Crossings(d) \cup {t}) /\ IsNewest(t, Crossings(d) \cup {t})
        BY <2>2, <2>3, <2>8, <2>9, <3>2, AlternateMore DEF Crossed
      <3> QED BY <2>2, <2>3, <2>6, <2>7, <3>3 DEF Crossed, Remembered
    <2>10. CASE Crossings(d) # {}
      <3>1. PICK r \in Crossings(d) : IsNewest(r, Crossings(d)) /\ (r.event = "temp_high" <=> d \in hot)
        BY <2>10 DEF Crossed, Remembered
      <3>2. r.event # t.event
        BY <2>2, <2>3, <3>1
      <3>3. Alternate(Crossings(d) \cup {t}) /\ IsNewest(t, Crossings(d) \cup {t})
        BY <2>2, <2>3, <2>8, <2>10, <3>1, <3>2, AlternateMore DEF Crossed
      <3> QED BY <2>2, <2>3, <2>6, <2>7, <3>3 DEF Crossed, Remembered
    <2> QED BY <2>9, <2>10
  <1> QED BY <1>3, <1>4

LEMMA StepCrossed ==
  ASSUME Typed, InOrder, Crossed, [HNext]_hvars, ~disturbed, ~disturbed'
  PROVE  Crossed'
  <1>1. /\ [Next]_vars /\ (history' = history \cup events' \/ (events' = events /\ history' = history))
        /\ events \subseteq history /\ TablesOK
    BY DEF HNext, hvars, vars, InOrder, Typed
  <1>2. HNext => ~Restart /\ \A d \in Disks : ~CrossFails(d)
    BY DEF HNext
  <1>3. ASSUME NEW d \in Disks, Cross(d) PROVE Crossed'
    BY <1>3, CrossKeeps
  <1>4. ASSUME UNCHANGED hot, history' = history \/ \E t : history' = history \cup {t} /\ t.event \notin Temps
        PROVE  Crossed'
    <2>1. \A d \in Disks : Crossings(d)' = Crossings(d)
      BY <1>4, SameCrossings
    <2> QED BY <1>4, <2>1 DEF Crossed, Remembered
  <1>5. ASSUME NEW d \in Disks, NEW e \in Power \cup Other, Record(d, e) PROVE Crossed'
    <2>1. PICK ts \in Stamps : events' = Inserted(d, e, ts)
      BY <1>5 DEF Record
    <2>2. events' = events \cup {NewRow(d, e, ts)} /\ NewRow(d, e, ts).event = e
      BY <1>1, <2>1, NewRowIsNewest
    <2>3. history' = history \cup {NewRow(d, e, ts)} /\ e \notin Temps
      BY <1>1, <2>2 DEF Power, Other, Temps
    <2>4. UNCHANGED hot
      BY <1>5 DEF Record
    <2> QED BY <1>4, <2>2, <2>3, <2>4
  <1>6. Sample \/ StoreReadings \/ StoreFails \/ Prune \/ PruneTemperatures \/ Pass \/ UNCHANGED vars
          => events' \subseteq events /\ UNCHANGED hot
    BY DEF Sample, StoreReadings, StoreFails, Prune, PruneTemperatures, Pass, Recent, vars
  <1>7. CASE events' \subseteq events /\ UNCHANGED hot
    BY <1>1, <1>4, <1>7
  <1>8. UNCHANGED hvars => events' = events /\ UNCHANGED hot
    BY DEF hvars, vars
  <1> QED BY <1>1, <1>2, <1>3, <1>5, <1>6, <1>7, <1>8, NextCases, ReadsOnly DEF Samples

LEMMA StepWatching ==
  ASSUME Typed, Watching, [HNext]_hvars, ~disturbed, ~disturbed'
  PROVE  Watching'
  <1>1. [Next]_vars /\ TablesOK /\ ThreadOK
    BY DEF HNext, hvars, Typed
  <1>2. HNext => ~Restart /\ ~StoreFails /\ \A d \in Disks : ~CrossFails(d)
    BY DEF HNext
  <1>3. ASSUME UNCHANGED <<readings, hot>>, now' = now \/ now' = now + 1,
               \A d \in Disks : LookedAt(d)' <=> LookedAt(d),
               \A d \in Disks : ~LookedAt(d) => tick'.got[d] = tick.got[d],
               tick'.at = "store" => lastTemp' = now \/ UNCHANGED <<tick, lastTemp>>
        PROVE  Watching'
    <2>1. \A r \in readings : r.ts <= now'
      BY <1>1, <1>3 DEF Watching, TablesOK, Reading
    <2>2. \A r, d : IsLatest(r, d)' <=> IsLatest(r, d)
      BY <1>3 DEF IsLatest
    <2> QED BY <1>3, <2>1, <2>2 DEF Watching
  <1>4. CASE Sample \/ Prune
    BY <1>3, <1>4 DEF Sample, Prune, LookedAt, Idle
  <1>5. CASE StoreReadings
    <2> DEFINE new(d, at) == [ts |-> at, disk |-> d, celsius |-> tick.got[d]]
    <2>0. PICK at \in lastTemp..now : readings' = Replaced(tick.got, at)
      BY <1>5 DEF StoreReadings
    <2>1. /\ readings' = Replaced(tick.got, at) /\ UNCHANGED <<now, hot>>
          /\ tick' = [at |-> "cross", got |-> tick.got, left |-> DOMAIN tick.got] /\ tick.at = "store"
      BY <1>5, <2>0 DEF StoreReadings
    <2>2. tick'.at = "cross" /\ tick'.got = tick.got /\ tick'.left = DOMAIN tick.got
      BY <2>1
    <2>3. /\ \A r \in readings : r.ts \in Nat /\ r.ts <= at
          /\ at \in Nat /\ at <= now /\ now \in Nat
      BY <1>1, <2>1 DEF Watching, TablesOK, Reading, ThreadOK, RoundOK
    <2>4. \A r \in readings' : r.ts <= at /\ r.ts <= now'
      BY <2>1, <2>3 DEF Replaced
    <2>5. ASSUME NEW d \in DOMAIN tick.got
          PROVE  /\ \E r \in readings' : IsLatest(r, d)'
                 /\ \A r \in readings' : IsLatest(r, d)' => r.celsius = tick.got[d]
      <3> PICK n : n = new(d, at)
        OBVIOUS
      <3>1. n \in readings' /\ n.disk = d /\ n.ts = at /\ n.celsius = tick.got[d]
        BY <2>1 DEF Replaced
      <3>2. \A r \in readings' : r.disk = d => r = n \/ (r \in readings /\ r.ts # at)
        BY <2>1, <2>5 DEF Replaced
      <3>3. IsLatest(n, d)'
        BY <2>1, <2>4, <3>1 DEF IsLatest
      <3>4. ASSUME NEW r \in readings', IsLatest(r, d)' PROVE r.celsius = tick.got[d]
        <4>1. r.disk = d /\ at <= r.ts
          BY <3>1, <3>4 DEF IsLatest
        <4>2. r = n
          BY <1>1, <2>3, <3>2, <4>1 DEF TablesOK
        <4> QED BY <3>1, <4>2
      <3> HIDE DEF new
      <3> QED BY <3>1, <3>3, <3>4
    <2>6. ASSUME NEW d, d \notin DOMAIN tick.got PROVE \A r : IsLatest(r, d)' <=> IsLatest(r, d)
      <3>1. \A r : r \in readings' /\ r.disk = d <=> r \in readings /\ r.disk = d
        BY <2>1, <2>6 DEF Replaced
      <3> QED BY <3>1 DEF IsLatest
    <2>7. \A d \in Disks : LookedAt(d)
      BY <2>1 DEF LookedAt
    <2>8. \A d \in Disks : LookedAt(d)' <=> d \notin DOMAIN tick.got
      BY <2>2 DEF LookedAt
    <2>9. ASSUME NEW d \in Disks
          PROVE  /\ (\E r \in readings' : r.disk = d) => \E r \in readings' : IsLatest(r, d)'
                 /\ \A r \in readings' : IsLatest(r, d)' =>
                      IF LookedAt(d)' THEN r.celsius >= Crit <=> d \in hot' ELSE r.celsius = tick'.got[d]
      <3>1. CASE d \in DOMAIN tick.got
        <4>1. /\ \E r \in readings' : IsLatest(r, d)'
              /\ \A r \in readings' : IsLatest(r, d)' => r.celsius = tick'.got[d]
          BY <2>2, <2>5, <3>1
        <4>2. ~LookedAt(d)'
          BY <2>8, <3>1
        <4> QED BY <4>1, <4>2
      <3>2. CASE d \notin DOMAIN tick.got
        <4>1. \A r : r \in readings' /\ r.disk = d <=> r \in readings /\ r.disk = d
          BY <2>1, <3>2 DEF Replaced
        <4>2. \A r : IsLatest(r, d) => r \in readings /\ r.disk = d
          BY DEF IsLatest
        <4> QED BY <2>1, <2>6, <2>7, <2>8, <3>2, <4>1, <4>2 DEF Watching
      <3> QED BY <3>1, <3>2
    <2> QED BY <2>2, <2>4, <2>9 DEF Watching
  <1>6. ASSUME NEW d \in Disks, Cross(d) PROVE Watching'
    <2>1. /\ tick.at = "cross" /\ d \in tick.left /\ hot' = HotAfter(d) /\ UNCHANGED <<now, readings>>
          /\ tick' = IF tick.left = {d} THEN Idle ELSE [tick EXCEPT !.left = @ \ {d}]
          /\ tick = [at |-> "cross", got |-> tick.got, left |-> tick.left]
      BY <1>1, <1>6 DEF Cross, ThreadOK, RoundOK
    <2>2. \A r, c : IsLatest(r, c)' <=> IsLatest(r, c)
      BY <2>1 DEF IsLatest
    <2>3. ~LookedAt(d) /\ LookedAt(d)'
      BY <2>1 DEF LookedAt, Idle
    <2>4. ASSUME NEW c \in Disks, c # d
          PROVE  (LookedAt(c)' <=> LookedAt(c)) /\ (~LookedAt(c) => tick'.got[c] = tick.got[c])
      BY <2>1, <2>4 DEF LookedAt, Idle
    <2>5. /\ d \in hot' <=> tick.got[d] >= Crit
          /\ \A c \in Disks : c # d => (c \in hot' <=> c \in hot)
      BY <2>1 DEF HotAfter, IsHot
    <2>6. ASSUME NEW c \in Disks
          PROVE  \A r \in readings : IsLatest(r, c) =>
                   IF LookedAt(c)' THEN r.celsius >= Crit <=> c \in hot' ELSE r.celsius = tick'.got[c]
      <3>1. CASE c = d
        BY <2>3, <2>5, <3>1 DEF Watching
      <3>2. CASE c # d
        BY <2>4, <2>5, <3>2 DEF Watching
      <3> QED BY <3>1, <3>2
    <2>7. tick'.at # "store"
      BY <2>1 DEF Idle
    <2> QED BY <2>1, <2>2, <2>6, <2>7 DEF Watching
  <1>7. CASE PruneTemperatures
    <2>1. /\ readings' = Recent(readings, TempRetention) \/ readings' = readings
          /\ UNCHANGED <<now, hot>> /\ tick.at = "prunetemps" /\ tick'.at = "idle"
      BY <1>7 DEF PruneTemperatures, Idle
    <2>2. \A d \in Disks : LookedAt(d) /\ LookedAt(d)'
      BY <2>1 DEF LookedAt
    <2>3. \A r \in readings : r.ts \in Nat
      BY <1>1 DEF TablesOK, Reading
    <2>4. now - TempRetention \in Int
      BY <1>1, LogAssumption DEF TablesOK
    <2>5. ASSUME NEW d, NEW r \in readings', IsLatest(r, d)' PROVE IsLatest(r, d)
      <3>1. r \in readings /\ r.disk = d
        BY <2>1, <2>5 DEF Recent, IsLatest
      <3>2. ASSUME NEW s \in readings, s.disk = d PROVE s.ts <= r.ts
        <4>1. CASE s \in readings'
          BY <2>5, <3>2, <4>1 DEF IsLatest
        <4>2. CASE s \notin readings'
          BY <2>1, <2>3, <2>4, <3>1, <4>2 DEF Recent
        <4> QED BY <4>1, <4>2
      <3> QED BY <3>1, <3>2 DEF IsLatest
    <2>6. ASSUME NEW d \in Disks, NEW q \in readings', q.disk = d
          PROVE  \E r \in readings' : IsLatest(r, d)'
      <3>1. q \in readings
        BY <2>1 DEF Recent
      <3>2. PICK r \in readings : IsLatest(r, d)
        BY <2>6, <3>1 DEF Watching
      <3>3. q.ts <= r.ts
        BY <2>6, <3>1, <3>2 DEF IsLatest
      <3>4. r \in readings'
        BY <2>1, <2>3, <2>4, <3>1, <3>3 DEF Recent
      <3>5. IsLatest(r, d)'
        BY <2>1, <3>2, <3>4 DEF IsLatest, Recent
      <3> QED BY <3>4, <3>5
    <2>7. \A r \in readings' : r \in readings
      BY <2>1 DEF Recent
    <2> QED BY <2>1, <2>2, <2>5, <2>6, <2>7 DEF Watching
  <1>8. ASSUME UNCHANGED <<readings, hot, tick, lastTemp>>, now' = now \/ now' = now + 1 PROVE Watching'
    BY <1>3, <1>8 DEF LookedAt
  <1>9. Pass \/ UNCHANGED vars \/ UNCHANGED hvars \/ (\E d \in Disks, e \in Power \cup Other : Record(d, e))
          => UNCHANGED <<readings, hot, tick, lastTemp>> /\ (now' = now \/ now' = now + 1)
    BY DEF Pass, Record, vars, hvars
  <1> QED
    BY <1>1, <1>2, <1>4, <1>5, <1>6, <1>7, <1>8, <1>9, NextCases, ReadsOnly DEF Samples

Watched == ~disturbed => Watching /\ Crossed

LEMMA AlwaysWatched == HSpec => []Watched
  <1>1. HInit => Watched
    <2> SUFFICES ASSUME HInit, ~disturbed PROVE Watching /\ Crossed
      BY DEF Watched
    <2>1. readings = {} /\ history = {} /\ hot = {}
      BY DEF HInit, Init
    <2>2. \A d \in Disks : Crossings(d) = {}
      BY <2>1 DEF Crossings
    <2> QED BY <2>1, <2>2 DEF Watching, Crossed, Alternate, Remembered
  <1>2. Shows /\ Watched /\ [HNext]_hvars => Watched'
    <2> SUFFICES ASSUME Shows, Watched, [HNext]_hvars, ~disturbed' PROVE Watching' /\ Crossed'
      BY DEF Watched
    <2>1. ~disturbed
      BY DEF HNext, hvars
    <2> QED BY <2>1, StepWatching, StepCrossed DEF Watched, Shows
  <1> QED BY <1>1, <1>2, AlwaysShows, PTL DEF HSpec

(* Crossings of the critical temperature alternate in the log, pruned rows *)
(* included, starting with one to high, and after a round the newest one   *)
(* says whether the latest reading is critical, as long as no write failed *)
(* and the service was not restarted.  The order of the steps of a round   *)
(* matters: _hot and the event change together, after the reading.         *)
THEOREM CrossingsAlternateHolds == HSpec => []CrossingsAlternate
  <1>1. Shows /\ Watched => CrossingsAlternate
    <2> SUFFICES ASSUME Shows, Watching, Crossed, NEW d \in Disks
                 PROVE  LET rows == Crossings(d)
                        IN /\ Alternate(rows)
                           /\ tick = Idle /\ (\E r \in readings : r.disk = d) =>
                                (LatestTemperature(d).celsius >= Crit
                                   <=> \E r \in rows : IsNewest(r, rows) /\ r.event = "temp_high")
      BY DEF CrossingsAlternate, Watched, Alternate
    <2>1. Alternate(Crossings(d))
      BY DEF Crossed
    <2>2. ASSUME tick = Idle, \E r \in readings : r.disk = d
          PROVE  LatestTemperature(d).celsius >= Crit <=> d \in hot
      <3>1. \E r \in readings : r.disk = d /\ \A s \in readings : s.disk = d => s.ts <= r.ts
        BY <2>2 DEF Watching, IsLatest
      <3>2. LatestTemperature(d) \in readings /\ IsLatest(LatestTemperature(d), d)
        BY <3>1 DEF LatestTemperature, IsLatest
      <3>3. LookedAt(d)
        BY <2>2 DEF LookedAt, Idle
      <3> QED BY <3>2, <3>3 DEF Watching
    <2>3. d \in hot <=> \E r \in Crossings(d) : IsNewest(r, Crossings(d)) /\ r.event = "temp_high"
      <3>1. CASE Crossings(d) = {}
        BY <3>1 DEF Crossed, Remembered
      <3>2. CASE Crossings(d) # {}
        <4>1. PICK r \in Crossings(d) : IsNewest(r, Crossings(d)) /\ (r.event = "temp_high" <=> d \in hot)
          BY <3>2 DEF Crossed, Remembered
        <4>2. ASSUME NEW s \in Crossings(d), IsNewest(s, Crossings(d)) PROVE s = r
          <5>1. s = r \/ (Older(s, r) /\ Older(r, s))
            BY <4>1, <4>2 DEF IsNewest
          <5>2. s.ts \in Nat /\ r.ts \in Nat /\ s.id \in Nat /\ r.id \in Nat
            BY DEF Crossings, Shows, InOrder, Row
          <5> QED BY <5>1, <5>2 DEF Older
        <4> QED BY <4>1, <4>2
      <3> QED BY <3>1, <3>2
    <2> QED BY <2>1, <2>2, <2>3
  <1> QED BY <1>1, AlwaysShows, AlwaysWatched, PTL

=============================================================================
