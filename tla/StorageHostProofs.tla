------------------------- MODULE StorageHostProofs -------------------------
(***************************************************************************)
(* What the storage endpoints keep on a running host, for every set of     *)
(* clients, pools, bind mounts, disks and shares.                          *)
(***************************************************************************)
EXTENDS StorageHost, FiniteSetTheorems, SequenceTheorems, TLAPS

-----------------------------------------------------------------------------
(* Plans as sets of steps *)

Ahead(plan) == {plan[i] : i \in 1..Len(plan)}

LEMMA AheadEmpty == Ahead(<<>>) = {}
  BY DEF Ahead

LEMMA AheadOne == ASSUME NEW x PROVE Ahead(<<x>>) = {x}
  BY DEF Ahead

LEMMA AheadConcat ==
  ASSUME NEW S, NEW s \in Seq(S), NEW t \in Seq(S)
  PROVE  s \o t \in Seq(S) /\ Ahead(s \o t) = Ahead(s) \cup Ahead(t)
  <1>1. s \o t \in Seq(S)
    OBVIOUS
  <1>2. ASSUME NEW x \in Ahead(s \o t) PROVE x \in Ahead(s) \cup Ahead(t)
    BY <1>2 DEF Ahead
  <1>3. ASSUME NEW x \in Ahead(s) PROVE x \in Ahead(s \o t)
    BY <1>3 DEF Ahead
  <1>4. ASSUME NEW x \in Ahead(t) PROVE x \in Ahead(s \o t)
    <2>1. PICK i \in 1..Len(t) : t[i] = x
      BY <1>4 DEF Ahead
    <2>2. Len(s) + i \in 1..Len(s \o t) /\ (s \o t)[Len(s) + i] = x
      BY <2>1
    <2> QED BY <2>2 DEF Ahead
  <1> QED BY <1>1, <1>2, <1>3, <1>4

LEMMA AheadTail ==
  ASSUME NEW S, NEW s \in Seq(S), s # <<>>
  PROVE  /\ Ahead(s) = {Head(s)} \cup Ahead(Tail(s))
         /\ Head(s) \in S /\ Tail(s) \in Seq(S)
  <1>1. Len(s) \in Nat \ {0} /\ Tail(s) \in Seq(S) /\ Head(s) \in S /\ Head(s) = s[1]
    OBVIOUS
  <1>2. Len(Tail(s)) = Len(s) - 1 /\ \A i \in 1..Len(Tail(s)) : Tail(s)[i] = s[i + 1]
    OBVIOUS
  <1>3. ASSUME NEW x \in Ahead(s) PROVE x \in {Head(s)} \cup Ahead(Tail(s))
    <2>1. PICK i \in 1..Len(s) : s[i] = x
      BY <1>3 DEF Ahead
    <2>2. CASE i = 1
      BY <1>1, <2>1, <2>2
    <2>3. CASE i # 1
      <3>1. i - 1 \in 1..Len(Tail(s)) /\ Tail(s)[i - 1] = x
        BY <1>1, <1>2, <2>1, <2>3
      <3> QED BY <3>1 DEF Ahead
    <2> QED BY <2>2, <2>3
  <1>4. ASSUME NEW x \in Ahead(Tail(s)) PROVE x \in Ahead(s)
    <2>1. PICK i \in 1..Len(Tail(s)) : Tail(s)[i] = x
      BY <1>4 DEF Ahead
    <2>2. i + 1 \in 1..Len(s) /\ s[i + 1] = x
      BY <1>1, <1>2, <2>1
    <2> QED BY <2>2 DEF Ahead
  <1>5. Head(s) \in Ahead(s)
    BY <1>1 DEF Ahead
  <1> QED BY <1>1, <1>3, <1>4, <1>5

\* The order of the elements of a finite set lists each of them.
LEMMA Listed ==
  ASSUME NEW S, IsFiniteSet(S)
  PROVE  /\ Cardinality(S) \in Nat
         /\ \A i \in 1..Cardinality(S) : SetToSeq(S)[i] \in S
         /\ \A x \in S : \E i \in 1..Cardinality(S) : SetToSeq(S)[i] = x
  <1> DEFINE n == Cardinality(S)
  <1>1. n \in Nat /\ ExistsBijection(1..n, S)
    BY FS_CardinalityType
  <1>2. \E f \in [1..n -> S] : IsInjective(f)
    BY <1>1 DEF ExistsBijection, Bijection, Injection
  <1>3. SetToSeq(S) \in [1..n -> S] /\ IsInjective(SetToSeq(S))
    BY <1>2 DEF SetToSeq
  <1>4. SetToSeq(S) \in Injection(1..n, S)
    BY <1>3 DEF Injection
  <1>5. IsFiniteSet(1..n) /\ Cardinality(1..n) = n
    BY <1>1, FS_Interval
  <1>6. SetToSeq(S) \in Surjection(1..n, S)
    BY <1>4, <1>5, FS_Injection
  <1> QED BY <1>1, <1>3, <1>6 DEF Surjection

-----------------------------------------------------------------------------
(* Types *)

PoolDos == {"writePool", "stopPool", "dropPool", "lookPool", "tunePool", "done"}
BindDos == {"makeSource", "writeBind", "dropBind", "stopBind"}
DiskDos == {"addLine", "dropLine", "mountDisk", "umountDisk", "readLines"}

Retries == {Must("mountPool", p) : p \in PoolChoices} \cup {Must("startBind", b) : b \in BindChoices}

Places == {p.mountpoint : p \in PoolChoices} \cup {b.target : b \in BindChoices}

Steps ==
  [do : PoolDos, on : PoolChoices] \cup [do : {"mountPool"}, on : PoolChoices, must : BOOLEAN]
  \cup [do : BindDos, on : BindChoices] \cup [do : {"startBind"}, on : BindChoices, must : BOOLEAN]
  \cup [do : DiskDos, on : DiskChoices] \cup [do : {"writeLines"}, lines : SUBSET DiskChoices]
  \cup [do : {"ifDown"}, on : [at : Places, then : Retries]] \cup [do : {"save"}]

Kinds == {"none", "create", "update", "delete", "remount", "mount", "unmount", "fix"}

Configs == [pools : SUBSET PoolChoices, binds : SUBSET BindChoices,
            disks : SUBSET DiskChoices, shares : SUBSET ShareChoices]

BindNames == {b.name : b \in BindChoices}

Jobs == [kind : Kinds, plan : Seq(Steps), draft : Configs, down : SUBSET BindNames]

Proper(d) ==
  /\ Config!OnePerName(d.pools) /\ Config!OnePerName(d.binds)
  /\ Config!OnePerName(d.disks) /\ Config!OnePerName(d.shares)
  /\ IsFiniteSet(d.binds)

\* Files and requests; what is saved is typed by the configuration.
Links == ({"pool"} \X {p.name : p \in PoolChoices}) \cup ({"bind"} \X {b.name : b \in BindChoices})

FilesOK ==
  /\ poolUnits \subseteq PoolChoices /\ Config!OnePerName(poolUnits)
  /\ fstab \subseteq DiskChoices
  /\ enabled \subseteq Links
  /\ \A v \in bindUnits : v.bind \in BindChoices /\ v.requires \subseteq {p.name : p \in PoolChoices}
  /\ \A u, v \in bindUnits : u.bind.name = v.bind.name => u = v
  /\ marks \subseteq Watched

JobsOK ==
  /\ lock \in Clients \cup {NoClient}
  /\ job \in [Clients -> Jobs]
  /\ \A c \in Clients : /\ job[c] = Idle \/ job[c].plan # <<>>
                        /\ Proper(job[c].draft)

SavedOK == Config!ConfigTypeOK /\ IsFiniteSet(binds)

LEMMA OneStep ==
  ASSUME NEW x \in Steps
  PROVE  <<x>> \in Seq(Steps) /\ <<x>> # <<>> /\ Ahead(<<x>>) = {x}
  <1>1. <<x>> \in Seq(Steps)
    OBVIOUS
  <1>2. Len(<<x>>) = 1 /\ Len(<<>>) = 0
    OBVIOUS
  <1> QED BY <1>1, <1>2, AheadOne

LEMMA PoolStepTyped ==
  ASSUME NEW p \in PoolChoices, NEW step \in PoolDos
  PROVE  Do(step, p) \in Seq(Steps) /\ Ahead(Do(step, p)) = {[do |-> step, on |-> p]}
  <1>1. [do |-> step, on |-> p] \in Steps
    BY DEF Steps
  <1> QED BY <1>1, OneStep DEF Do

LEMMA BindStepTyped ==
  ASSUME NEW b \in BindChoices, NEW step \in BindDos
  PROVE  Do(step, b) \in Seq(Steps) /\ Ahead(Do(step, b)) = {[do |-> step, on |-> b]}
  <1>1. [do |-> step, on |-> b] \in Steps
    BY DEF Steps
  <1> QED BY <1>1, OneStep DEF Do

LEMMA DiskStepTyped ==
  ASSUME NEW d \in DiskChoices, NEW step \in DiskDos
  PROVE  Do(step, d) \in Seq(Steps) /\ Ahead(Do(step, d)) = {[do |-> step, on |-> d]}
  <1>1. [do |-> step, on |-> d] \in Steps
    BY DEF Steps
  <1> QED BY <1>1, OneStep DEF Do

LEMMA MountPoolTyped ==
  ASSUME NEW p \in PoolChoices
  PROVE  /\ Try("mountPool", p) \in Seq(Steps) /\ Must("mountPool", p) \in Seq(Steps)
         /\ Must("mountPool", p) # <<>>
         /\ Ahead(Try("mountPool", p)) = {[do |-> "mountPool", on |-> p, must |-> FALSE]}
         /\ Ahead(Must("mountPool", p)) = {[do |-> "mountPool", on |-> p, must |-> TRUE]}
  <1>1. [do |-> "mountPool", on |-> p, must |-> FALSE] \in Steps
    BY DEF Steps
  <1>2. [do |-> "mountPool", on |-> p, must |-> TRUE] \in Steps
    BY DEF Steps
  <1>3. /\ Try("mountPool", p) \in Seq(Steps)
        /\ Ahead(Try("mountPool", p)) = {[do |-> "mountPool", on |-> p, must |-> FALSE]}
    BY <1>1, OneStep DEF Try
  <1>4. /\ Must("mountPool", p) \in Seq(Steps) /\ Must("mountPool", p) # <<>>
        /\ Ahead(Must("mountPool", p)) = {[do |-> "mountPool", on |-> p, must |-> TRUE]}
    BY <1>2, OneStep DEF Must
  <1> QED BY <1>3, <1>4

LEMMA StartBindTyped ==
  ASSUME NEW b \in BindChoices
  PROVE  /\ Try("startBind", b) \in Seq(Steps) /\ Must("startBind", b) \in Seq(Steps)
         /\ Must("startBind", b) # <<>>
         /\ Ahead(Try("startBind", b)) = {[do |-> "startBind", on |-> b, must |-> FALSE]}
         /\ Ahead(Must("startBind", b)) = {[do |-> "startBind", on |-> b, must |-> TRUE]}
  <1>1. [do |-> "startBind", on |-> b, must |-> FALSE] \in Steps
    BY DEF Steps
  <1>2. [do |-> "startBind", on |-> b, must |-> TRUE] \in Steps
    BY DEF Steps
  <1>3. /\ Try("startBind", b) \in Seq(Steps)
        /\ Ahead(Try("startBind", b)) = {[do |-> "startBind", on |-> b, must |-> FALSE]}
    BY <1>1, OneStep DEF Try
  <1>4. /\ Must("startBind", b) \in Seq(Steps) /\ Must("startBind", b) # <<>>
        /\ Ahead(Must("startBind", b)) = {[do |-> "startBind", on |-> b, must |-> TRUE]}
    BY <1>2, OneStep DEF Must
  <1> QED BY <1>3, <1>4

LEMMA SaveTyped == Save \in Seq(Steps) /\ Ahead(Save) = {[do |-> "save"]}
  <1>1. [do |-> "save"] \in Steps
    BY DEF Steps
  <1> QED BY <1>1, OneStep DEF Save

LEMMA RetryTyped == ASSUME NEW then \in Retries PROVE then \in Seq(Steps) /\ then # <<>>
  BY MountPoolTyped, StartBindTyped DEF Retries

LEMMA IfDownTyped ==
  ASSUME NEW place \in Places, NEW then \in Retries
  PROVE  /\ Do("ifDown", [at |-> place, then |-> then]) \in Seq(Steps)
         /\ Ahead(Do("ifDown", [at |-> place, then |-> then]))
              = {[do |-> "ifDown", on |-> [at |-> place, then |-> then]]}
  <1>1. [at |-> place, then |-> then] \in [at : Places, then : Retries]
    OBVIOUS
  <1>2. [do |-> "ifDown", on |-> [at |-> place, then |-> then]]
          \in [do : {"ifDown"}, on : [at : Places, then : Retries]]
    BY <1>1
  <1>3. [do |-> "ifDown", on |-> [at |-> place, then |-> then]] \in Steps
    BY <1>2 DEF Steps
  <1> QED BY <1>3, OneStep DEF Do

LEMMA LinesTyped ==
  ASSUME fstab \subseteq DiskChoices
  PROVE  /\ <<[do |-> "writeLines", lines |-> fstab]>> \in Seq(Steps)
         /\ Ahead(<<[do |-> "writeLines", lines |-> fstab]>>)
              = {[do |-> "writeLines", lines |-> fstab]}
  <1>1. [do |-> "writeLines", lines |-> fstab] \in Steps
    BY DEF Steps
  <1> QED BY <1>1, OneStep

LEMMA StepFields ==
  ASSUME NEW s \in Steps
  PROVE  /\ s.do \in PoolDos \cup {"mountPool"} => s.on \in PoolChoices
         /\ s.do \in BindDos \cup {"startBind"} => s.on \in BindChoices
         /\ s.do \in DiskDos => s.on \in DiskChoices
         /\ s.do = "writeLines" => s.lines \subseteq DiskChoices
         /\ s.do = "ifDown" => s.on.then \in Retries
         /\ s.do \in {"mountPool", "startBind"} => s.must \in BOOLEAN
  BY DEF Steps, PoolDos, BindDos, DiskDos

-----------------------------------------------------------------------------
(* How a job moves *)

Fails(s) == \/ s.do \in {"stopPool", "umountDisk", "mountDisk"}
            \/ s.do \in {"mountPool", "startBind"} /\ s.must

Writes == {"save", "writePool", "lookPool", "dropPool", "writeBind", "dropBind",
           "addLine", "dropLine", "writeLines"}

Chooses == {"lookPool", "ifDown", "readLines"}

Becomes(c, plan) ==
  IF plan = <<>> THEN End(c)
  ELSE /\ UNCHANGED lock
       /\ \E j \in Jobs : /\ j.kind = job[c].kind /\ j.draft = job[c].draft /\ j.plan = plan
                          /\ job' = [job EXCEPT ![c] = j]

Onward(c) == Becomes(c, Tail(job[c].plan))

Marked == marks \subseteq marks' /\ marks' \subseteq marks \cup Watched

Still == UNCHANGED <<config, files>> /\ Marked

Step(c) == Head(job[c].plan)

\* The ways a step can go that write no file.
GivesUp(c) == Fails(Step(c)) /\ End(c) /\ Still

NoSource(c) ==
  /\ At(c, "makeSource") /\ End(c) /\ Still
  /\ (\E v \in bindUnits : v.bind \in job[c].draft.binds \ binds) /\ "cut" \in Watched => "cut" \in marks'

Passes(c) == Step(c).do \notin Writes \cup Chooses /\ Onward(c) /\ Still

LooksIfDown(c) ==
  At(c, "ifDown") /\ Still /\ (Becomes(c, <<>>) \/ Becomes(c, On(c).then))

ReadsLines(c) ==
  /\ At(c, "readLines") /\ Still
  /\ Becomes(c, <<>>) \/ Becomes(c, <<[do |-> "writeLines", lines |-> fstab]>>)

\* A remount never ends with the stop of its pool.
StopsLast(j) == j.kind = "remount" /\ Head(j.plan).do = "stopPool" => Tail(j.plan) # <<>>

LEMMA Continues ==
  ASSUME JobsOK, NEW c \in Clients, NEW plan \in Seq(Steps), Continue(c, plan)
  PROVE  Becomes(c, plan)
  <1>1. CASE plan = <<>>
    BY <1>1 DEF Continue, Becomes
  <1>2. CASE plan # <<>>
    <2> DEFINE j == [job[c] EXCEPT !.plan = plan]
    <2>1. job[c] \in Jobs
      BY DEF JobsOK
    <2>2. j \in Jobs /\ j.kind = job[c].kind /\ j.draft = job[c].draft /\ j.plan = plan
      BY <2>1 DEF Jobs
    <2>3. job' = [job EXCEPT ![c] = j] /\ UNCHANGED lock
      BY <1>2 DEF Continue
    <2> QED BY <1>2, <2>2, <2>3 DEF Becomes
  <1> QED BY <1>1, <1>2

LEMMA NextStep ==
  ASSUME JobsOK, NEW c \in Clients, job[c].plan # <<>>
  PROVE  /\ job[c] \in Jobs /\ job[c].plan \in Seq(Steps)
         /\ Step(c) \in Steps /\ Tail(job[c].plan) \in Seq(Steps)
         /\ Ahead(job[c].plan) = {Step(c)} \cup Ahead(Tail(job[c].plan))
  <1>1. job[c] \in Jobs /\ job[c].plan \in Seq(Steps)
    BY DEF JobsOK, Jobs
  <1> QED BY <1>1, AheadTail DEF Step

LEMMA Proceeds ==
  ASSUME JobsOK, NEW c \in Clients, job[c].plan # <<>>, Proceed(c)
  PROVE  Onward(c)
  BY NextStep, Continues DEF Proceed, Onward

LEMMA PassesOrGivesUp ==
  ASSUME FilesOK, JobsOK, NEW c \in Clients, job[c].plan # <<>>,
         Step(c).do \in {"mountPool", "startBind"}, Still, Proceed(c) \/ Fail(c)
  PROVE  GivesUp(c) \/ Passes(c)
  <1>1. CASE Proceed(c)
    BY <1>1, Proceeds DEF Passes, Writes, Chooses
  <1>2. CASE Fail(c)
    BY <1>2, Proceeds DEF Fail, GivesUp, Fails, Step, Passes, Writes, Chooses
  <1> QED BY <1>1, <1>2

LEMMA StillIfMarking ==
  ASSUME UNCHANGED <<config, files>>, UNCHANGED marks \/ \E new : Marking(new)
  PROVE  Still
  BY DEF Still, Marked, Marking

LEMMA UmountCases ==
  ASSUME FilesOK, JobsOK, NEW c \in Clients, job[c].plan # <<>>, NEW path,
         Step(c).do \in {"stopPool", "umountDisk"}, Still, Umount(c, path)
  PROVE  GivesUp(c) \/ Passes(c)
  BY Proceeds DEF Umount, GivesUp, Fails, Passes, Writes, Chooses

LEMMA StopCases ==
  ASSUME FilesOK, JobsOK, NEW c \in Clients, StopsLast(job[c]), StopPool(c)
  PROVE  GivesUp(c) \/ Passes(c)
  <1>1. job[c].plan # <<>> /\ Step(c).do = "stopPool" /\ Still
    BY DEF StopPool, At, Step, Still, Marked
  <1>2. CASE Proceed(c)
    BY <1>1, <1>2, Proceeds DEF Passes, Writes, Chooses
  <1>3. CASE End(c)
    BY <1>1, <1>3 DEF GivesUp, Fails
  <1>4. CASE Umount(c, On(c).mountpoint)
    BY <1>1, <1>4, UmountCases
  <1>5. ASSUME ProceedWithout(c, Dependents(On(c).name)) PROVE Passes(c)
    <2>1. CASE job[c].kind # "remount"
      BY <1>1, <1>5, <2>1, Proceeds DEF ProceedWithout, Passes, Writes, Chooses
    <2>2. CASE job[c].kind = "remount"
      <3> DEFINE down == {m.name : m \in Dependents(On(c).name)}
                 j == [job[c] EXCEPT !.plan = Tail(@), !.down = down]
      <3>1. \A m \in Dependents(On(c).name) : m.name \in BindNames
        BY DEF Dependents, FilesOK, BindNames
      <3>2. down \subseteq BindNames
        BY <3>1
      <3>3. j \in Jobs /\ j.kind = job[c].kind /\ j.draft = job[c].draft /\ j.plan = Tail(job[c].plan)
        BY <3>2, <1>1, NextStep DEF Jobs
      <3>4. UNCHANGED lock /\ job' = [job EXCEPT ![c] = j]
        BY <1>5, <2>2 DEF ProceedWithout
      <3>5. Tail(job[c].plan) # <<>>
        BY <1>1, <2>2 DEF StopsLast, Step
      <3>6. Onward(c)
        BY <3>3, <3>4, <3>5 DEF Onward, Becomes
      <3> QED BY <1>1, <3>6 DEF Passes, Writes, Chooses
    <2> QED BY <2>1, <2>2
  <1> QED BY <1>2, <1>3, <1>4, <1>5 DEF StopPool

LEMMA MakeSourceCases ==
  ASSUME FilesOK, JobsOK, NEW c \in Clients, MakeSource(c)
  PROVE  NoSource(c) \/ Passes(c)
  <1>1. job[c].plan # <<>> /\ Step(c).do = "makeSource" /\ Still
    BY StillIfMarking DEF MakeSource, At, Step, Still, Marked, Marking
  <1>2. CASE Proceed(c)
    BY <1>1, <1>2, Proceeds DEF Passes, Writes, Chooses
  <1>3. CASE ~Proceed(c)
    BY <1>1, <1>3 DEF MakeSource, NoSource, Marking
  <1> QED BY <1>2, <1>3

LEMMA WorkCases ==
  ASSUME FilesOK, JobsOK, NEW c \in Clients, StopsLast(job[c]), Work(c)
  PROVE  /\ job[c].plan # <<>>
         /\ \/ GivesUp(c) \/ NoSource(c) \/ Passes(c) \/ LooksIfDown(c) \/ ReadsLines(c)
            \/ SaveState(c) \/ WritePool(c) \/ LookAndWritePool(c) \/ DropPool(c)
            \/ WriteBind(c) \/ DropBind(c) \/ AddLine(c) \/ DropLine(c) \/ WriteLines(c)
  <1>1. job[c].plan # <<>>
    BY DEF Work, SaveState, WritePool, LookAndWritePool, DropPool, TunePool, StartPool, StopPool,
           MakeSource, WriteBind, DropBind, StartBind, StopBind, AddLine, DropLine, AttachDisk,
           DetachDisk, StartIfDown, ReadLines, WriteLines, Answer, At
  <1> DEFINE Goal == GivesUp(c) \/ NoSource(c) \/ Passes(c) \/ LooksIfDown(c) \/ ReadsLines(c)
  <1>2. ASSUME TunePool(c) \/ StopBind(c) \/ Answer(c) PROVE Goal
    <2>1. Step(c).do \in {"tunePool", "stopBind", "done"} /\ Proceed(c) /\ Still
      BY <1>2 DEF TunePool, StopBind, Answer, At, Step, Still, Marked
    <2> QED BY <1>1, <2>1, Proceeds DEF Passes, Writes, Chooses
  <1>3. ASSUME StartPool(c) PROVE Goal
    <2>1. UNCHANGED marks \/ \E new : Marking(new)
      BY <1>3 DEF StartPool
    <2>2. Step(c).do = "mountPool" /\ Still /\ (Proceed(c) \/ Fail(c))
      BY <1>3, <2>1, StillIfMarking DEF StartPool, At, Step
    <2> QED BY <1>1, <2>2, PassesOrGivesUp
  <1>4. ASSUME StartBind(c) PROVE Goal
    <2>1. Step(c).do = "startBind" /\ Still /\ (Proceed(c) \/ Fail(c))
      BY <1>4, StillIfMarking DEF StartBind, At, Step
    <2> QED BY <1>1, <2>1, PassesOrGivesUp
  <1>5. ASSUME AttachDisk(c) PROVE Goal
    <2>1. UNCHANGED marks \/ \E new : Marking(new)
      BY <1>5 DEF AttachDisk
    <2>2. Step(c).do = "mountDisk" /\ Still /\ (Proceed(c) \/ End(c))
      BY <1>5, <2>1, StillIfMarking DEF AttachDisk, At, Step
    <2> QED BY <1>1, <2>2, Proceeds DEF GivesUp, Fails, Passes, Writes, Chooses
  <1>6. ASSUME DetachDisk(c) PROVE Goal
    <2>1. Step(c).do = "umountDisk" /\ Still /\ Umount(c, On(c).mountpoint)
      BY <1>6 DEF DetachDisk, At, Step, Still, Marked
    <2> QED BY <1>1, <2>1, UmountCases
  <1>7. ASSUME StartIfDown(c) PROVE LooksIfDown(c)
    <2>1. At(c, "ifDown") /\ Still
      BY <1>7 DEF StartIfDown, Still, Marked
    <2>2. On(c).then \in Seq(Steps) /\ <<>> \in Seq(Steps)
      BY <1>1, <2>1, NextStep, StepFields, RetryTyped DEF At, On, Step
    <2> QED BY <1>7, <2>1, <2>2, Continues DEF StartIfDown, LooksIfDown
  <1>8. ASSUME ReadLines(c) PROVE ReadsLines(c)
    <2>1. At(c, "readLines") /\ Still
      BY <1>8 DEF ReadLines, Still, Marked
    <2>2. <<[do |-> "writeLines", lines |-> fstab]>> \in Seq(Steps) /\ <<>> \in Seq(Steps)
      BY LinesTyped DEF FilesOK
    <2> QED BY <1>8, <2>1, <2>2, Continues DEF ReadLines, ReadsLines
  <1> HIDE DEF Goal
  <1>9. CASE Goal
    BY <1>1, <1>9 DEF Goal
  <1> QED BY <1>1, <1>2, <1>3, <1>4, <1>5, <1>6, <1>7, <1>8, <1>9, StopCases, MakeSourceCases
          DEF Work, Goal

-----------------------------------------------------------------------------
(* Type correctness *)

LEMMA IdleTyped == Idle \in Jobs /\ Proper(Idle.draft) /\ Idle.plan = <<>>
  <1>1. Nothing \in Configs
    BY DEF Nothing, Configs
  <1>2. <<>> \in Seq(Steps)
    OBVIOUS
  <1>3. Idle \in Jobs /\ Idle.plan = <<>> /\ Idle.draft = Nothing
    BY <1>1, <1>2 DEF Idle, Jobs, Kinds
  <1>4. Proper(Nothing)
    BY FS_EmptySet DEF Proper, Nothing, Config!OnePerName
  <1> QED BY <1>3, <1>4

\* Dicts.
LEMMA PutKeepsNames ==
  ASSUME NEW S, Config!OnePerName(S), NEW x
  PROVE  Config!OnePerName(Config!Put(S, x))
  BY DEF Config!OnePerName, Config!Put, Config!Without

LEMMA WithoutKeepsNames ==
  ASSUME NEW S, Config!OnePerName(S), NEW name
  PROVE  Config!OnePerName(Config!Without(S, name))
  BY DEF Config!OnePerName, Config!Without

LEMMA MoveTyped ==
  ASSUME JobsOK, NEW c \in Clients, NEW plan, Becomes(c, plan)
  PROVE  JobsOK'
  <1>1. CASE plan = <<>>
    BY <1>1, IdleTyped DEF JobsOK, Becomes, End
  <1>2. CASE plan # <<>>
    <2>1. PICK j \in Jobs : j.draft = job[c].draft /\ j.plan = plan
                            /\ job' = [job EXCEPT ![c] = j]
      BY <1>2 DEF Becomes
    <2> QED BY <1>2, <2>1 DEF JobsOK, Becomes
  <1> QED BY <1>1, <1>2

LEMMA EndTyped == ASSUME JobsOK, NEW c \in Clients, End(c) PROVE JobsOK'
  BY MoveTyped DEF Becomes

LEMMA StillTyped == ASSUME FilesOK, SavedOK, Still PROVE FilesOK' /\ SavedOK'
  BY DEF Still, Marked, config, files, FilesOK, SavedOK, Config!ConfigTypeOK, Config!OnePerName

\* What a step that writes a file does, beside its write.
LEMMA Written ==
  ASSUME FilesOK, JobsOK, NEW c \in Clients,
         \/ SaveState(c) \/ WritePool(c) \/ LookAndWritePool(c) \/ DropPool(c)
         \/ WriteBind(c) \/ DropBind(c) \/ AddLine(c) \/ DropLine(c) \/ WriteLines(c)
  PROVE  /\ job[c].plan # <<>> /\ Marked
         /\ ~At(c, "lookPool") => Onward(c)
         /\ At(c, "lookPool") =>
              \/ Becomes(c, Save \o Do("tunePool", On(c)))
              \/ Becomes(c, Save \o Try("mountPool", On(c)))
  <1>1. job[c].plan # <<>>
    BY DEF SaveState, WritePool, LookAndWritePool, DropPool, WriteBind, DropBind, AddLine,
           DropLine, WriteLines, At
  <1>2. Marked
    BY DEF SaveState, WritePool, LookAndWritePool, DropPool, WriteBind, DropBind, AddLine,
           DropLine, WriteLines, Marked, Marking
  <1>3. CASE ~At(c, "lookPool")
    <2>1. Proceed(c)
      BY <1>3 DEF SaveState, WritePool, LookAndWritePool, DropPool, WriteBind, DropBind, AddLine,
             DropLine, WriteLines
    <2> QED BY <1>1, <1>2, <1>3, <2>1, Proceeds
  <1>4. CASE At(c, "lookPool")
    <2>1. LookAndWritePool(c)
      BY <1>4 DEF At, SaveState, WritePool, DropPool, WriteBind, DropBind, AddLine, DropLine,
             WriteLines
    <2>2. On(c) \in PoolChoices
      BY <1>1, <1>4, NextStep, StepFields DEF At, On, Step, PoolDos
    <2>3. /\ Save \o Do("tunePool", On(c)) \in Seq(Steps)
          /\ Save \o Try("mountPool", On(c)) \in Seq(Steps)
      BY <2>2, SaveTyped, PoolStepTyped, MountPoolTyped, AheadConcat DEF PoolDos
    <2>4. CASE IsMounted(On(c).mountpoint)
      <3>1. Continue(c, Save \o Do("tunePool", On(c)))
        BY <2>1, <2>4 DEF LookAndWritePool
      <3> QED BY <1>1, <1>2, <1>4, <2>3, <3>1, Continues
    <2>5. CASE ~IsMounted(On(c).mountpoint)
      <3>1. Continue(c, Save \o Try("mountPool", On(c)))
        BY <2>1, <2>5 DEF LookAndWritePool
      <3> QED BY <1>1, <1>2, <1>4, <2>3, <3>1, Continues
    <2> QED BY <2>4, <2>5
  <1> QED BY <1>3, <1>4

LEMMA WorkJobsTyped ==
  ASSUME FilesOK, JobsOK, NEW c \in Clients, StopsLast(job[c]), Work(c)
  PROVE  JobsOK'
  <1>1. GivesUp(c) \/ NoSource(c) => JobsOK'
    BY EndTyped DEF GivesUp, NoSource
  <1>2. Passes(c) => JobsOK'
    BY MoveTyped DEF Passes, Onward
  <1>3. LooksIfDown(c) \/ ReadsLines(c) => JobsOK'
    BY MoveTyped DEF LooksIfDown, ReadsLines
  <1>4. \/ SaveState(c) \/ WritePool(c) \/ LookAndWritePool(c) \/ DropPool(c)
        \/ WriteBind(c) \/ DropBind(c) \/ AddLine(c) \/ DropLine(c) \/ WriteLines(c)
        => JobsOK'
    BY Written, MoveTyped DEF Onward
  <1> QED BY <1>1, <1>2, <1>3, <1>4, WorkCases

LEMMA PoolFilesTyped ==
  ASSUME FilesOK, SavedOK, JobsOK, NEW c \in Clients, Marked,
         WritePool(c) \/ LookAndWritePool(c) \/ DropPool(c)
  PROVE  FilesOK' /\ SavedOK'
  <1>1. On(c) \in PoolChoices
    BY NextStep, StepFields DEF WritePool, LookAndWritePool, DropPool, At, On, Step, PoolDos
  <1>2. UNCHANGED <<config, bindUnits, fstab>>
    BY DEF WritePool, LookAndWritePool, DropPool
  <1>3. \/ poolUnits' = Config!Put(poolUnits, On(c))
        \/ poolUnits' = Config!Without(poolUnits, On(c).name)
    BY DEF WritePool, LookAndWritePool, DropPool
  <1>4. poolUnits' \subseteq PoolChoices
    BY <1>1, <1>3 DEF FilesOK, Config!Put, Config!Without
  <1>5. Config!OnePerName(poolUnits')
    BY <1>3, PutKeepsNames, WithoutKeepsNames DEF FilesOK
  <1>6. enabled' \subseteq Links
    <2>1. <<"pool", On(c).name>> \in Links
      BY <1>1 DEF Links
    <2> QED BY <2>1 DEF FilesOK, WritePool, LookAndWritePool, DropPool, Enable, Disable
  <1>7. FilesOK'
    BY <1>2, <1>4, <1>5, <1>6 DEF FilesOK, Marked, Config!OnePerName
  <1> QED BY <1>2, <1>7 DEF SavedOK, config, Config!ConfigTypeOK, Config!OnePerName

LEMMA BindFilesTyped ==
  ASSUME FilesOK, SavedOK, JobsOK, NEW c \in Clients, Marked, WriteBind(c) \/ DropBind(c)
  PROVE  FilesOK' /\ SavedOK'
  <1>1. On(c) \in BindChoices /\ job[c] \in Jobs
    BY NextStep, StepFields DEF WriteBind, DropBind, At, On, Step, BindDos
  <1>2. UNCHANGED <<config, poolUnits, fstab>>
    BY DEF WriteBind, DropBind
  <1> DEFINE unit == BindUnit(On(c), job[c].draft.pools)
  <1>3. /\ unit.bind = On(c)
        /\ unit.requires \subseteq {p.name : p \in PoolChoices}
    <2>1. job[c].draft.pools \subseteq PoolChoices
      BY <1>1 DEF Jobs, Configs
    <2> QED BY <2>1 DEF BindUnit
  <1>4. bindUnits' = WithoutUnit(On(c).name) \cup {unit} \/ bindUnits' = WithoutUnit(On(c).name)
    BY DEF WriteBind, DropBind
  <1> HIDE DEF unit
  <1>5. \A v \in bindUnits' : v.bind \in BindChoices /\ v.requires \subseteq {p.name : p \in PoolChoices}
    BY <1>1, <1>3, <1>4 DEF FilesOK, WithoutUnit
  <1>6. \A u, v \in bindUnits' : u.bind.name = v.bind.name => u = v
    BY <1>3, <1>4 DEF FilesOK, WithoutUnit
  <1>7. enabled' \subseteq Links
    <2>1. <<"bind", On(c).name>> \in Links
      BY <1>1 DEF Links
    <2> QED BY <2>1 DEF FilesOK, WriteBind, DropBind, Enable, Disable
  <1>8. FilesOK'
    BY <1>2, <1>5, <1>6, <1>7 DEF FilesOK, Marked, Config!OnePerName
  <1> QED BY <1>2, <1>8 DEF SavedOK, config, Config!ConfigTypeOK, Config!OnePerName

LEMMA LineFilesTyped ==
  ASSUME FilesOK, SavedOK, JobsOK, NEW c \in Clients, Marked,
         AddLine(c) \/ DropLine(c) \/ WriteLines(c)
  PROVE  FilesOK' /\ SavedOK'
  <1>1. UNCHANGED <<config, poolUnits, bindUnits, enabled>>
    BY DEF AddLine, DropLine, WriteLines
  <1>2. fstab' \subseteq DiskChoices
    <2>1. CASE WriteLines(c)
      BY <2>1, NextStep, StepFields DEF WriteLines, At, Step
    <2>2. CASE AddLine(c) \/ DropLine(c)
      <3>1. On(c) \in DiskChoices
        BY <2>2, NextStep, StepFields DEF AddLine, DropLine, At, On, Step, DiskDos
      <3> QED BY <2>2, <3>1 DEF AddLine, DropLine, FilesOK, Config!Put, Config!Without
    <2> QED BY <2>1, <2>2
  <1>3. FilesOK'
    BY <1>1, <1>2 DEF FilesOK, Marked, Config!OnePerName
  <1> QED BY <1>1, <1>3 DEF SavedOK, config, Config!ConfigTypeOK, Config!OnePerName

LEMMA SaveStateTyped ==
  ASSUME FilesOK, SavedOK, JobsOK, NEW c \in Clients, Marked, SaveState(c)
  PROVE  FilesOK' /\ SavedOK'
  <1>1. job[c] \in Jobs /\ Proper(job[c].draft)
    BY DEF JobsOK
  <1>2. FilesOK'
    BY DEF SaveState, files, FilesOK, Marked, Config!OnePerName
  <1>3. SavedOK'
    BY <1>1 DEF SaveState, SavedOK, Proper, Jobs, Configs, Config!ConfigTypeOK, Config!OnePerName
  <1> QED BY <1>2, <1>3

LEMMA WorkTyped ==
  ASSUME FilesOK, SavedOK, JobsOK, NEW c \in Clients, StopsLast(job[c]), Work(c)
  PROVE  FilesOK' /\ SavedOK' /\ JobsOK'
  <1>1. CASE GivesUp(c) \/ NoSource(c) \/ Passes(c) \/ LooksIfDown(c) \/ ReadsLines(c)
    BY <1>1, StillTyped, WorkJobsTyped DEF GivesUp, NoSource, Passes, LooksIfDown, ReadsLines
  <1>2. CASE \/ SaveState(c) \/ WritePool(c) \/ LookAndWritePool(c) \/ DropPool(c)
             \/ WriteBind(c) \/ DropBind(c) \/ AddLine(c) \/ DropLine(c) \/ WriteLines(c)
    BY <1>2, Written, WorkJobsTyped, PoolFilesTyped, BindFilesTyped, LineFilesTyped, SaveStateTyped
  <1> QED BY <1>1, <1>2, WorkCases

-----------------------------------------------------------------------------
(* What a plan and its draft promise *)

Changes == {"create", "update", "delete"}

\* Steps after which state.json or a file is no longer that of the request's
\* start, and nothing may end the request any more.
Touches == {"save", "writePool", "dropPool", "writeBind", "dropBind", "dropLine"}

\* The steps of an answer that is already decided.
After == {"mountPool", "tunePool", "done"}

\* Where a step may stand in a plan.
Leads(s, t) ==
  /\ s.do \notin {"lookPool", "done"}
  /\ t.do \notin {"writePool", "addLine", "umountDisk"}
  /\ t.do = "stopPool" => s.do = "writePool"
  /\ t.do \in {"dropPool", "lookPool"} => s.do = "stopPool" /\ s.on.name = t.on.name
  /\ t.do = "dropLine" => s.do = "umountDisk" /\ s.on = t.on

Follows(kind, s, t) ==
  /\ Leads(s, t)
  /\ s.do = "save" => t.do \in After
  /\ kind \in Changes /\ s.do \in Touches => ~Fails(t)
  /\ s.do \in {"writeBind", "dropBind"} /\ t.do = "makeSource" => kind = "create" /\ s.do = "writeBind"

Ordered(kind, plan) ==
  \A i, k \in 1..Len(plan) : i < k => Follows(kind, plan[i], plan[k])

PlanOK(j) ==
  /\ Ordered(j.kind, j.plan)
  /\ j.kind = "remount" /\ j.plan # <<>> => j.plan[Len(j.plan)].do # "stopPool"

Commits(j) == \E s \in Ahead(j.plan) : s.do \in {"save", "lookPool"}

\* Only a request with the lock does these.
LockedDos == {"save", "lookPool", "dropPool", "dropBind", "addLine", "dropLine"}

Unlocked(j) == \A s \in Ahead(j.plan) : s.do \notin LockedDos

\* The draft is one request away from state.json.
Prepared(d) ==
  \/ d = Now
  \/ \E p \in PoolChoices : /\ Config!CanCreatePool(p) \/ Config!CanUpdatePool(p)
                            /\ d = [Now EXCEPT !.pools = Config!Put(pools, p)]
  \/ \E p \in PoolChoices : /\ Config!CanReleasePool(p)
                            /\ d = [Now EXCEPT !.pools = Config!Without(pools, p.name)]
  \/ \E new \in SUBSET BindChoices : /\ Config!CanCreateBinds(new)
                                     /\ d = [Now EXCEPT !.binds = binds \cup new]
  \/ \E b \in BindChoices : /\ Config!CanUpdateBind(b)
                            /\ d = [Now EXCEPT !.binds = Config!Put(binds, b)]
  \/ \E b \in BindChoices : /\ Config!CanReleaseBind(b)
                            /\ d = [Now EXCEPT !.binds = Config!Without(binds, b.name)]
  \/ \E x \in DiskChoices : /\ Config!CanMountDisk(x)
                            /\ d = [Now EXCEPT !.disks = Config!Put(disks, x)]
  \/ \E x \in DiskChoices : /\ Config!CanReleaseDisk(x)
                            /\ d = [Now EXCEPT !.disks = Config!Without(disks, x.name)]

\* What a step that is still to come means for the draft.
StepOK(j, s) ==
  /\ s.do \notin {"ifDown", "readLines", "writeLines"}
  /\ s.do = "stopPool" /\ j.kind # "remount" => Config!BlockersForPath(s.on.mountpoint) = {}
  /\ s.do = "stopBind" => \/ \E b \in j.draft.binds : b.name = s.on.name /\ b.target = s.on.target
                          \/ Config!BlockersForPath(s.on.target) = {}
  /\ s.do \in {"writePool", "lookPool"} => j.draft.pools = Config!Put(pools, s.on)
  /\ s.do = "dropPool" => j.draft.pools = Config!Without(pools, s.on.name)
  /\ s.do = "addLine" => j.draft.disks = Config!Put(disks, s.on) /\ ~Config!Has(disks, s.on.name)
  /\ s.do = "dropLine" => j.draft.disks = Config!Without(disks, s.on.name)
  /\ s.do = "mountDisk" => s.on \notin disks
  /\ s.do = "writeBind" => /\ s.on \in j.draft.binds
                           /\ j.kind = "create" => ~Config!Has(binds, s.on.name)
  /\ s.do = "dropBind" => ~Config!Has(j.draft.binds, s.on.name)
  /\ s.do \in {"makeSource", "writeBind"} => j.draft.pools = pools /\ j.draft.disks = disks
  /\ s.do = "lookPool" => j.draft.disks = disks

DraftOK(j) ==
  /\ Prepared(j.draft)
  /\ j.kind \in Changes \cup {"remount"}
  /\ j.kind = "remount" => j.draft = Now
  /\ \A s \in Ahead(j.plan) : StepOK(j, s)

\* The request that holds the lock: before it saves, and after.
Held(j) ==
  IF Commits(j) THEN DraftOK(j) ELSE \A s \in Ahead(j.plan) : s.do \in After

JobsInv ==
  \A c \in Clients :
    /\ PlanOK(job[c])
    /\ IF lock = c THEN Held(job[c]) /\ job[c].plan # <<>> ELSE Unlocked(job[c])

\* What the steps to come still have to do to P, U and F, the pool units, the
\* bind mounts with a unit, and the lines of fstab.
Pending(j, P, U, F) ==
  /\ P # j.draft.pools => \E s \in Ahead(j.plan) : s.do \in {"writePool", "lookPool", "dropPool"}
  /\ \A b \in j.draft.binds \ U : \E s \in Ahead(j.plan) : s.do = "writeBind" /\ s.on = b
  /\ \A b \in U \ j.draft.binds :
       \E s \in Ahead(j.plan) : s.do \in {"writeBind", "dropBind"} /\ s.on.name = b.name
  /\ j.draft.disks \subseteq F \/ \E s \in Ahead(j.plan) : s.do = "addLine"

Units == {v.bind : v \in bindUnits}

Matches(P, U, F) == P = pools /\ U = binds /\ disks \subseteq F

\* The files while the request j changes them.
Halfway(j, P, U, F) ==
  /\ P \in {pools, j.draft.pools}
  /\ binds \cap j.draft.binds \subseteq U /\ U \subseteq binds \cup j.draft.binds
  /\ disks \cap j.draft.disks \subseteq F
  /\ (\E s \in Ahead(j.plan) : Fails(s)) => Matches(P, U, F)
  /\ (\E s \in Ahead(j.plan) : s.do = "makeSource") => binds \subseteq U
  /\ Pending(j, P, U, F)

Owns(c) == lock = c /\ Commits(job[c])

Clean == marks \cap {"cut", "stale"} = {}

FilesInv ==
  Clean =>
    /\ \A c \in Clients : Owns(c) => Halfway(job[c], poolUnits, Units, fstab)
    /\ (\A c \in Clients : ~Owns(c)) => Matches(poolUnits, Units, fstab)

-----------------------------------------------------------------------------
(* Ordered plans *)

LEMMA OrderedOne == ASSUME NEW kind, NEW x PROVE Ordered(kind, <<x>>)
  BY DEF Ordered

LEMMA OrderedConcat ==
  ASSUME NEW kind, NEW s \in Seq(Steps), NEW t \in Seq(Steps),
         Ordered(kind, s), Ordered(kind, t),
         \A x \in Ahead(s), y \in Ahead(t) : Follows(kind, x, y)
  PROVE  Ordered(kind, s \o t)
  <1> SUFFICES ASSUME NEW i \in 1..Len(s \o t), NEW k \in 1..Len(s \o t), i < k
               PROVE  Follows(kind, (s \o t)[i], (s \o t)[k])
    BY DEF Ordered
  <1>1. /\ Len(s) \in Nat /\ Len(t) \in Nat /\ Len(s \o t) = Len(s) + Len(t)
        /\ \A n \in 1..Len(s \o t) : (s \o t)[n] = IF n <= Len(s) THEN s[n] ELSE t[n - Len(s)]
    BY ConcatProperties, LenProperties
  <1>2. CASE k <= Len(s)
    BY <1>1, <1>2 DEF Ordered
  <1>3. CASE i <= Len(s) /\ Len(s) < k
    <2>1. s[i] \in Ahead(s) /\ t[k - Len(s)] \in Ahead(t)
      BY <1>1, <1>3 DEF Ahead
    <2> QED BY <1>1, <1>3, <2>1
  <1>4. CASE Len(s) < i
    <2>1. i - Len(s) \in 1..Len(t) /\ k - Len(s) \in 1..Len(t) /\ i - Len(s) < k - Len(s)
      BY <1>1, <1>4
    <2>2. Follows(kind, t[i - Len(s)], t[k - Len(s)])
      BY <2>1 DEF Ordered
    <2> QED BY <1>1, <1>4, <2>2
  <1> QED BY <1>1, <1>2, <1>3, <1>4

LEMMA OrderedTail ==
  ASSUME NEW kind, NEW s \in Seq(Steps), s # <<>>, Ordered(kind, s)
  PROVE  /\ Ordered(kind, Tail(s))
         /\ \A y \in Ahead(Tail(s)) : Follows(kind, Head(s), y)
  <1>1. /\ Len(s) \in Nat \ {0} /\ Len(Tail(s)) = Len(s) - 1 /\ Head(s) = s[1]
        /\ \A i \in 1..Len(Tail(s)) : Tail(s)[i] = s[i + 1]
    OBVIOUS
  <1>2. ASSUME NEW i \in 1..Len(Tail(s)), NEW k \in 1..Len(Tail(s)), i < k
        PROVE  Follows(kind, Tail(s)[i], Tail(s)[k])
    <2>1. i + 1 \in 1..Len(s) /\ k + 1 \in 1..Len(s) /\ i + 1 < k + 1
      BY <1>1, <1>2
    <2> QED BY <1>1, <2>1 DEF Ordered
  <1>3. ASSUME NEW y \in Ahead(Tail(s)) PROVE Follows(kind, Head(s), y)
    <2>1. PICK k \in 1..Len(Tail(s)) : y = Tail(s)[k]
      BY <1>3 DEF Ahead
    <2>2. 1 \in 1..Len(s) /\ k + 1 \in 1..Len(s) /\ 1 < k + 1 /\ y = s[k + 1]
      BY <1>1, <2>1
    <2> QED BY <1>1, <2>2 DEF Ordered
  <1> QED BY <1>2, <1>3 DEF Ordered

\* A plan with its steps, put together from shorter ones.
Plan(kind, plan, S) == plan \in Seq(Steps) /\ Ahead(plan) = S /\ Ordered(kind, plan)

LEMMA Join ==
  ASSUME NEW kind, NEW a, NEW b, NEW S, NEW T, Plan(kind, a, S), Plan(kind, b, T),
         \A s \in S, t \in T : Follows(kind, s, t)
  PROVE  Plan(kind, a \o b, S \cup T)
  BY AheadConcat, OrderedConcat DEF Plan

LEMMA LastOfConcat ==
  ASSUME NEW a \in Seq(Steps), NEW x
  PROVE  <<x>> \in Seq(Steps) => (a \o <<x>>) # <<>> /\ (a \o <<x>>)[Len(a \o <<x>>)] = x
  <1>1. Len(<<x>>) = 1 /\ <<x>>[1] = x
    OBVIOUS
  <1> SUFFICES ASSUME <<x>> \in Seq(Steps)
               PROVE  (a \o <<x>>) # <<>> /\ (a \o <<x>>)[Len(a \o <<x>>)] = x
    OBVIOUS
  <1>2. Len(a) \in Nat /\ Len(a \o <<x>>) = Len(a) + 1 /\ a \o <<x>> \in Seq(Steps)
    BY <1>1, ConcatProperties, LenProperties
  <1>3. (a \o <<x>>)[Len(a) + 1] = <<x>>[1]
    BY <1>1, <1>2, ConcatProperties
  <1>4. a \o <<x>> # <<>>
    BY <1>2
  <1> QED BY <1>1, <1>2, <1>3, <1>4

LEMMA PlanTail ==
  ASSUME NEW j \in Jobs, j.plan # <<>>, PlanOK(j),
         NEW j2, j2.kind = j.kind, j2.plan = Tail(j.plan)
  PROVE  /\ PlanOK(j2) /\ StopsLast(j)
         /\ Ahead(j.plan) = {Head(j.plan)} \cup Ahead(j2.plan)
         /\ \A y \in Ahead(j2.plan) : Follows(j.kind, Head(j.plan), y)
  <1>1. j.plan \in Seq(Steps)
    BY DEF Jobs
  <1>2. /\ Ordered(j2.kind, j2.plan) /\ \A y \in Ahead(j2.plan) : Follows(j.kind, Head(j.plan), y)
    BY <1>1, OrderedTail DEF PlanOK
  <1>3. Ahead(j.plan) = {Head(j.plan)} \cup Ahead(j2.plan)
    BY <1>1, AheadTail
  <1>4. /\ Len(j.plan) \in Nat \ {0} /\ Len(Tail(j.plan)) = Len(j.plan) - 1
        /\ Head(j.plan) = j.plan[1] /\ Tail(j.plan) \in Seq(Steps)
        /\ \A i \in 1..Len(Tail(j.plan)) : Tail(j.plan)[i] = j.plan[i + 1]
    BY <1>1
  <1>5. CASE Tail(j.plan) = <<>>
    <2>1. Len(Tail(j.plan)) = 0
      <3>1. Len(<<>>) = 0
        OBVIOUS
      <3>2. ASSUME NEW t, t = <<>> PROVE Len(t) = 0
        BY <3>1, <3>2
      <3> QED BY <1>5, <3>2
    <2>2. Len(j.plan) = 1
      BY <1>4, <2>1
    <2>3. Head(j.plan) = j.plan[Len(j.plan)]
      BY <1>4, <2>2
    <2> QED BY <1>2, <1>3, <1>5, <2>3 DEF PlanOK, StopsLast
  <1>6. CASE Tail(j.plan) # <<>>
    <2> DEFINE t == Tail(j.plan)
    <2>0. t \in Seq(Steps) /\ t # <<>> /\ Len(t) = Len(j.plan) - 1
      BY <1>4, <1>6
    <2> HIDE DEF t
    <2>1. Len(t) \in 1..Len(t) /\ Len(t) + 1 = Len(j.plan)
      <3>1. Len(t) \in Nat \ {0}
        BY <2>0, EmptySeq
      <3> QED BY <1>4, <2>0, <3>1
    <2>2. Tail(j.plan)[Len(Tail(j.plan))] = j.plan[Len(j.plan)]
      BY <1>4, <2>1 DEF t
    <2> QED BY <1>2, <1>3, <1>6, <2>2 DEF PlanOK, StopsLast
  <1> QED BY <1>5, <1>6

-----------------------------------------------------------------------------
(* The plans of the requests *)

LEMMA OneStepPlans ==
  ASSUME NEW kind
  PROVE  /\ Plan(kind, <<>>, {})
         /\ \A p \in PoolChoices, step \in PoolDos : Plan(kind, Do(step, p), {[do |-> step, on |-> p]})
         /\ \A b \in BindChoices, step \in BindDos : Plan(kind, Do(step, b), {[do |-> step, on |-> b]})
         /\ \A d \in DiskChoices, step \in DiskDos : Plan(kind, Do(step, d), {[do |-> step, on |-> d]})
         /\ Plan(kind, Save, {[do |-> "save"]})
  <1>1. Plan(kind, <<>>, {})
    BY AheadEmpty DEF Plan, Ordered
  <1>2. \A p \in PoolChoices, step \in PoolDos : Plan(kind, Do(step, p), {[do |-> step, on |-> p]})
    BY PoolStepTyped, OrderedOne DEF Plan, Do
  <1>3. \A b \in BindChoices, step \in BindDos : Plan(kind, Do(step, b), {[do |-> step, on |-> b]})
    BY BindStepTyped, OrderedOne DEF Plan, Do
  <1>4. \A d \in DiskChoices, step \in DiskDos : Plan(kind, Do(step, d), {[do |-> step, on |-> d]})
    BY DiskStepTyped, OrderedOne DEF Plan, Do
  <1>5. Plan(kind, Save, {[do |-> "save"]})
    BY SaveTyped, OrderedOne DEF Plan, Save
  <1> QED BY <1>1, <1>2, <1>3, <1>4, <1>5

LEMMA StartPlans ==
  ASSUME NEW kind
  PROVE  /\ \A p \in PoolChoices :
              /\ Plan(kind, Try("mountPool", p), {[do |-> "mountPool", on |-> p, must |-> FALSE]})
              /\ Plan(kind, Must("mountPool", p), {[do |-> "mountPool", on |-> p, must |-> TRUE]})
         /\ \A b \in BindChoices :
              /\ Plan(kind, Try("startBind", b), {[do |-> "startBind", on |-> b, must |-> FALSE]})
              /\ Plan(kind, Must("startBind", b), {[do |-> "startBind", on |-> b, must |-> TRUE]})
  <1>1. ASSUME NEW p \in PoolChoices
        PROVE  /\ Plan(kind, Try("mountPool", p), {[do |-> "mountPool", on |-> p, must |-> FALSE]})
               /\ Plan(kind, Must("mountPool", p), {[do |-> "mountPool", on |-> p, must |-> TRUE]})
    <2>1. Ordered(kind, Try("mountPool", p)) /\ Ordered(kind, Must("mountPool", p))
      BY OrderedOne DEF Try, Must
    <2> QED BY <2>1, MountPoolTyped DEF Plan
  <1>2. ASSUME NEW b \in BindChoices
        PROVE  /\ Plan(kind, Try("startBind", b), {[do |-> "startBind", on |-> b, must |-> FALSE]})
               /\ Plan(kind, Must("startBind", b), {[do |-> "startBind", on |-> b, must |-> TRUE]})
    <2>1. Ordered(kind, Try("startBind", b)) /\ Ordered(kind, Must("startBind", b))
      BY OrderedOne DEF Try, Must
    <2> QED BY <2>1, StartBindTyped DEF Plan
  <1> QED BY <1>1, <1>2

LEMMA ThreeSteps ==
  ASSUME NEW kind, NEW a, NEW b, NEW d, NEW x, NEW y, NEW z,
         Plan(kind, a, {x}), Plan(kind, b, {y}), Plan(kind, d, {z}),
         Follows(kind, x, y), Follows(kind, x, z), Follows(kind, y, z)
  PROVE  Plan(kind, a \o b \o d, {x, y, z})
  <1>1. Plan(kind, a \o b, {x} \cup {y})
    BY Join
  <1>2. Plan(kind, (a \o b) \o d, ({x} \cup {y}) \cup {z})
    BY <1>1, Join
  <1>3. ({x} \cup {y}) \cup {z} = {x, y, z}
    OBVIOUS
  <1> QED BY <1>2, <1>3

LEMMA CreatePoolPlan ==
  ASSUME NEW p \in PoolChoices
  PROVE  Plan("create", Do("writePool", p) \o Save \o Try("mountPool", p),
              {[do |-> "writePool", on |-> p], [do |-> "save"],
               [do |-> "mountPool", on |-> p, must |-> FALSE]})
  <1> DEFINE w == [do |-> "writePool", on |-> p]
             s == [do |-> "save"]
             m == [do |-> "mountPool", on |-> p, must |-> FALSE]
  <1>1. Plan("create", Do("writePool", p), {w}) /\ Plan("create", Save, {s})
        /\ Plan("create", Try("mountPool", p), {m})
    BY OneStepPlans, StartPlans DEF PoolDos
  <1>2. Follows("create", w, s) /\ Follows("create", w, m) /\ Follows("create", s, m)
    BY DEF Follows, Leads, Fails, Touches, After, Changes
  <1> HIDE DEF w, s, m
  <1>3. Plan("create", Do("writePool", p) \o Save \o Try("mountPool", p), {w, s, m})
    BY <1>1, <1>2, ThreeSteps
  <1> QED BY <1>3 DEF w, s, m

LEMMA UpdatePoolPlan ==
  ASSUME NEW p \in PoolChoices, NEW old \in PoolChoices, old.name = p.name, NEW moves \in BOOLEAN
  PROVE  Plan("update", (IF moves THEN Do("stopPool", old) ELSE <<>>) \o Do("lookPool", p),
              (IF moves THEN {[do |-> "stopPool", on |-> old]} ELSE {})
                \cup {[do |-> "lookPool", on |-> p]})
  <1> DEFINE t == [do |-> "stopPool", on |-> old]
             k == [do |-> "lookPool", on |-> p]
  <1>1. Plan("update", Do("stopPool", old), {t}) /\ Plan("update", Do("lookPool", p), {k})
        /\ Plan("update", <<>>, {})
    BY OneStepPlans DEF PoolDos
  <1>2. Follows("update", t, k)
    BY DEF Follows, Leads, Touches
  <1> HIDE DEF t, k
  <1>3. CASE moves
    <2>1. Plan("update", Do("stopPool", old) \o Do("lookPool", p), {t} \cup {k})
      BY <1>1, <1>2, Join
    <2> QED BY <1>3, <2>1 DEF t, k
  <1>4. CASE ~moves
    <2>1. Plan("update", <<>> \o Do("lookPool", p), {} \cup {k})
      BY <1>1, Join
    <2> QED BY <1>4, <2>1 DEF t, k
  <1> QED BY <1>3, <1>4

LEMMA DeletePoolPlan ==
  ASSUME NEW p \in PoolChoices
  PROVE  Plan("delete", DeletePlan(p),
              {[do |-> "stopPool", on |-> p], [do |-> "dropPool", on |-> p], [do |-> "save"]})
  <1> DEFINE t == [do |-> "stopPool", on |-> p]
             k == [do |-> "dropPool", on |-> p]
             s == [do |-> "save"]
  <1>1. Plan("delete", Do("stopPool", p), {t}) /\ Plan("delete", Do("dropPool", p), {k})
        /\ Plan("delete", Save, {s})
    BY OneStepPlans DEF PoolDos
  <1>2. Follows("delete", t, k) /\ Follows("delete", t, s) /\ Follows("delete", k, s)
    BY DEF Follows, Leads, Touches, Fails
  <1> HIDE DEF t, k, s
  <1>3. Plan("delete", Do("stopPool", p) \o Do("dropPool", p) \o Save, {t, k, s})
    BY <1>1, <1>2, ThreeSteps
  <1> QED BY <1>3 DEF DeletePlan, t, k, s

LEMMA DeleteBindPlan ==
  ASSUME NEW b \in BindChoices
  PROVE  Plan("delete", Do("stopBind", b) \o Do("dropBind", b) \o Save,
              {[do |-> "stopBind", on |-> b], [do |-> "dropBind", on |-> b], [do |-> "save"]})
  <1> DEFINE t == [do |-> "stopBind", on |-> b]
             k == [do |-> "dropBind", on |-> b]
             s == [do |-> "save"]
  <1>1. Plan("delete", Do("stopBind", b), {t}) /\ Plan("delete", Do("dropBind", b), {k})
        /\ Plan("delete", Save, {s})
    BY OneStepPlans DEF BindDos
  <1>2. Follows("delete", t, k) /\ Follows("delete", t, s) /\ Follows("delete", k, s)
    BY DEF Follows, Leads, Touches, Fails
  <1> HIDE DEF t, k, s
  <1>3. Plan("delete", Do("stopBind", b) \o Do("dropBind", b) \o Save, {t, k, s})
    BY <1>1, <1>2, ThreeSteps
  <1> QED BY <1>3 DEF t, k, s

LEMMA MountDiskPlan ==
  ASSUME NEW d \in DiskChoices
  PROVE  Plan("create", Do("addLine", d) \o Do("mountDisk", d) \o Save,
              {[do |-> "addLine", on |-> d], [do |-> "mountDisk", on |-> d], [do |-> "save"]})
  <1> DEFINE t == [do |-> "addLine", on |-> d]
             k == [do |-> "mountDisk", on |-> d]
             s == [do |-> "save"]
  <1>1. Plan("create", Do("addLine", d), {t}) /\ Plan("create", Do("mountDisk", d), {k})
        /\ Plan("create", Save, {s})
    BY OneStepPlans DEF DiskDos
  <1>2. Follows("create", t, k) /\ Follows("create", t, s) /\ Follows("create", k, s)
    BY DEF Follows, Leads, Touches, Fails
  <1> HIDE DEF t, k, s
  <1>3. Plan("create", Do("addLine", d) \o Do("mountDisk", d) \o Save, {t, k, s})
    BY <1>1, <1>2, ThreeSteps
  <1> QED BY <1>3 DEF t, k, s

LEMMA ReleaseDiskPlan ==
  ASSUME NEW d \in DiskChoices
  PROVE  Plan("delete", ReleasePlan(d),
              {[do |-> "umountDisk", on |-> d], [do |-> "dropLine", on |-> d], [do |-> "save"]})
  <1> DEFINE t == [do |-> "umountDisk", on |-> d]
             k == [do |-> "dropLine", on |-> d]
             s == [do |-> "save"]
  <1>1. Plan("delete", Do("umountDisk", d), {t}) /\ Plan("delete", Do("dropLine", d), {k})
        /\ Plan("delete", Save, {s})
    BY OneStepPlans DEF DiskDos
  <1>2. Follows("delete", t, k) /\ Follows("delete", t, s) /\ Follows("delete", k, s)
    BY DEF Follows, Leads, Touches, Fails
  <1> HIDE DEF t, k, s
  <1>3. Plan("delete", Do("umountDisk", d) \o Do("dropLine", d) \o Save, {t, k, s})
    BY <1>1, <1>2, ThreeSteps
  <1> QED BY <1>3 DEF ReleasePlan, t, k, s

LEMMA InstallSteps ==
  ASSUME NEW b \in BindChoices
  PROVE  /\ Install(b, TRUE)[1] = [do |-> "makeSource", on |-> b]
         /\ Install(b, TRUE)[2] = [do |-> "writeBind", on |-> b]
         /\ Install(b, TRUE)[3] = [do |-> "startBind", on |-> b, must |-> FALSE]
         /\ Install(b, FALSE)[1] = [do |-> "writeBind", on |-> b]
         /\ Install(b, FALSE)[2] = [do |-> "startBind", on |-> b, must |-> FALSE]
  <1> DEFINE m == [do |-> "makeSource", on |-> b]
             w == [do |-> "writeBind", on |-> b]
             s == [do |-> "startBind", on |-> b, must |-> FALSE]
  <1>1. Install(b, TRUE) = <<m>> \o <<w>> \o <<s>> /\ Install(b, FALSE) = <<>> \o <<w>> \o <<s>>
    BY DEF Install, Do, Try
  <1>2. m \in Steps /\ w \in Steps /\ s \in Steps
    BY DEF Steps, BindDos
  <1> HIDE DEF m, w, s
  <1>3. /\ <<m>> \in Seq(Steps) /\ <<w>> \in Seq(Steps) /\ <<s>> \in Seq(Steps)
        /\ Len(<<m>>) = 1 /\ Len(<<w>>) = 1 /\ Len(<<s>>) = 1
        /\ <<m>>[1] = m /\ <<w>>[1] = w /\ <<s>>[1] = s
    BY <1>2, OneStep
  <1>4. /\ <<m>> \o <<w>> \in Seq(Steps) /\ Len(<<m>> \o <<w>>) = 2
        /\ (<<m>> \o <<w>>)[1] = m /\ (<<m>> \o <<w>>)[2] = w
    BY <1>3, ConcatProperties
  <1>5. <<>> \o <<w>> = <<w>>
    BY <1>3, ConcatEmptySeq
  <1>6. /\ (<<m>> \o <<w>> \o <<s>>)[1] = m /\ (<<m>> \o <<w>> \o <<s>>)[2] = w
        /\ (<<m>> \o <<w>> \o <<s>>)[3] = s
    BY <1>3, <1>4, ConcatProperties
  <1>7. (<<w>> \o <<s>>)[1] = w /\ (<<w>> \o <<s>>)[2] = s
    BY <1>3, ConcatProperties
  <1> QED BY <1>1, <1>5, <1>6, <1>7 DEF m, w, s

InstallSet(new) ==
  {[do |-> "makeSource", on |-> b] : b \in new} \cup {[do |-> "writeBind", on |-> b] : b \in new}
  \cup {[do |-> "startBind", on |-> b, must |-> FALSE] : b \in new}

LEMMA InInstallSet ==
  ASSUME NEW new, NEW b \in new
  PROVE  /\ [do |-> "makeSource", on |-> b] \in InstallSet(new)
         /\ [do |-> "writeBind", on |-> b] \in InstallSet(new)
         /\ [do |-> "startBind", on |-> b, must |-> FALSE] \in InstallSet(new)
  BY DEF InstallSet

LEMMA InstallAllSteps ==
  ASSUME NEW new \in SUBSET BindChoices, IsFiniteSet(new), NEW make \in BOOLEAN
  PROVE  LET plan == InstallAll(new, make)
         IN  /\ plan \in Seq(Steps)
             /\ Ahead(plan) \subseteq InstallSet(new)
             /\ {[do |-> "writeBind", on |-> b] : b \in new} \subseteq Ahead(plan)
  <1> DEFINE N == Cardinality(new)
             n == IF make THEN 3 ELSE 2
             at == SetToSeq(new)
             step(i) == Install(at[((i - 1) \div n) + 1], make)[((i - 1) % n) + 1]
             plan == [i \in 1..(n * N) |-> step(i)]
  <1>1. /\ N \in Nat
        /\ \A i \in 1..N : at[i] \in new
        /\ \A x \in new : \E i \in 1..N : at[i] = x
    BY Listed
  <1>2. InstallAll(new, make) = plan
    BY DEF InstallAll
  <1> HIDE DEF N, at
  <1>3. n * N \in Nat
    BY <1>1
  <1>4. ASSUME NEW i \in 1..(n * N) PROVE step(i) \in InstallSet(new)
    <2>1. CASE make
      <3>1. ((i - 1) \div 3) + 1 \in 1..N /\ ((i - 1) % 3) + 1 \in 1..3
        BY <1>1, <2>1
      <3>2. at[((i - 1) \div 3) + 1] \in new
        BY <1>1, <3>1
      <3>3. ASSUME NEW b \in new, NEW k \in 1..3
            PROVE  Install(b, TRUE)[k] \in InstallSet(new)
        <4>1. k = 1 \/ k = 2 \/ k = 3
          OBVIOUS
        <4> QED BY <4>1, InstallSteps, InInstallSet
      <3>4. step(i) = Install(at[((i - 1) \div 3) + 1], TRUE)[((i - 1) % 3) + 1]
        BY <2>1
      <3> HIDE DEF step
      <3> QED BY <3>1, <3>2, <3>3, <3>4
    <2>2. CASE ~make
      <3>1. ((i - 1) \div 2) + 1 \in 1..N /\ ((i - 1) % 2) + 1 \in 1..2
        BY <1>1, <2>2
      <3>2. at[((i - 1) \div 2) + 1] \in new
        BY <1>1, <3>1
      <3>3. ASSUME NEW b \in new, NEW k \in 1..2
            PROVE  Install(b, FALSE)[k] \in InstallSet(new)
        <4>1. k = 1 \/ k = 2
          OBVIOUS
        <4> QED BY <4>1, InstallSteps, InInstallSet
      <3>4. step(i) = Install(at[((i - 1) \div 2) + 1], FALSE)[((i - 1) % 2) + 1]
        BY <2>2
      <3> HIDE DEF step
      <3> QED BY <3>1, <3>2, <3>3, <3>4
    <2> QED BY <2>1, <2>2
  <1>5. ASSUME NEW b \in new
        PROVE  \E i \in 1..(n * N) : step(i) = [do |-> "writeBind", on |-> b]
    <2>1. PICK q \in 1..N : at[q] = b
      BY <1>1
    <2>2. CASE make
      <3>1. 3 * (q - 1) + 2 \in 1..(3 * N)
        BY <1>1
      <3>2. ((3 * (q - 1) + 2) - 1) \div 3 = q - 1 /\ ((3 * (q - 1) + 2) - 1) % 3 = 1
        BY <1>1
      <3> DEFINE i == 3 * (q - 1) + 2
      <3>3. step(i) = Install(at[((i - 1) \div 3) + 1], TRUE)[((i - 1) % 3) + 1]
        BY <2>2
      <3>4. ((i - 1) \div 3) + 1 = q /\ ((i - 1) % 3) + 1 = 2
        BY <3>2
      <3>5. i \in 1..(n * N)
        BY <2>2, <3>1
      <3> HIDE DEF i, step
      <3>6. step(i) = Install(b, TRUE)[2]
        BY <2>1, <3>3, <3>4
      <3> QED BY <3>5, <3>6, InstallSteps
    <2>3. CASE ~make
      <3>1. 2 * (q - 1) + 1 \in 1..(2 * N)
        BY <1>1
      <3>2. ((2 * (q - 1) + 1) - 1) \div 2 = q - 1 /\ ((2 * (q - 1) + 1) - 1) % 2 = 0
        BY <1>1
      <3> DEFINE i == 2 * (q - 1) + 1
      <3>3. step(i) = Install(at[((i - 1) \div 2) + 1], FALSE)[((i - 1) % 2) + 1]
        BY <2>3
      <3>4. ((i - 1) \div 2) + 1 = q /\ ((i - 1) % 2) + 1 = 1
        BY <3>2
      <3>5. i \in 1..(n * N)
        BY <2>3, <3>1
      <3> HIDE DEF i, step
      <3>6. step(i) = Install(b, FALSE)[1]
        BY <2>1, <3>3, <3>4
      <3> QED BY <3>5, <3>6, InstallSteps
    <2> QED BY <2>2, <2>3
  <1>6. InstallSet(new) \subseteq Steps
    <2>1. \A b \in new : /\ [do |-> "makeSource", on |-> b] \in Steps
                          /\ [do |-> "writeBind", on |-> b] \in Steps
      BY DEF Steps, BindDos
    <2>2. \A b \in new : [do |-> "startBind", on |-> b, must |-> FALSE] \in Steps
      BY DEF Steps
    <2> QED BY <2>1, <2>2 DEF InstallSet
  <1> HIDE DEF n, step
  <1>7. plan \in Seq(Steps) /\ Len(plan) = n * N /\ \A i \in 1..(n * N) : plan[i] = step(i)
    BY <1>3, <1>4, <1>6
  <1> HIDE DEF plan
  <1> QED BY <1>2, <1>4, <1>5, <1>7 DEF Ahead

LEMMA CreateBindsPlan ==
  ASSUME NEW new \in SUBSET BindChoices, IsFiniteSet(new), NEW make \in BOOLEAN
  PROVE  \E A : /\ Plan("create", InstallAll(new, make) \o Save, A \cup {[do |-> "save"]})
                /\ A \subseteq InstallSet(new)
                /\ {[do |-> "writeBind", on |-> b] : b \in new} \subseteq A
  <1> DEFINE plan == InstallAll(new, make)
             s == [do |-> "save"]
  <1>1. /\ plan \in Seq(Steps)
        /\ Ahead(plan) \subseteq InstallSet(new)
        /\ {[do |-> "writeBind", on |-> b] : b \in new} \subseteq Ahead(plan)
    BY InstallAllSteps
  <1>2. \A x \in InstallSet(new) :
          /\ x.do \in {"makeSource", "writeBind", "startBind"}
          /\ x.do = "startBind" => x.must = FALSE
    BY DEF InstallSet
  <1>3. ASSUME NEW x \in InstallSet(new), NEW y \in InstallSet(new) PROVE Follows("create", x, y)
    BY <1>2 DEF Follows, Leads, Fails
  <1>4. \A x \in InstallSet(new) : Follows("create", x, s)
    BY <1>2 DEF Follows, Leads, Fails
  <1> HIDE DEF plan, s
  <1>5. \A i \in 1..Len(plan) : plan[i] \in InstallSet(new)
    BY <1>1 DEF Ahead
  <1>6. Ordered("create", plan)
    BY <1>3, <1>5 DEF Ordered
  <1>7. Plan("create", plan, Ahead(plan)) /\ Plan("create", Save, {s})
    BY <1>1, <1>6, OneStepPlans DEF Plan, s
  <1>8. Plan("create", plan \o Save, Ahead(plan) \cup {s})
    BY <1>1, <1>4, <1>7, Join
  <1> QED BY <1>1, <1>8 DEF plan, s

LEMMA UpdateBindPlan ==
  ASSUME NEW b \in BindChoices, NEW old \in BindChoices, NEW make \in BOOLEAN
  PROVE  Plan("update", Do("stopBind", old) \o Install(b, make) \o Save,
              ({[do |-> "stopBind", on |-> old]}
                \cup ((IF make THEN {[do |-> "makeSource", on |-> b]} ELSE {})
                      \cup {[do |-> "writeBind", on |-> b]}
                      \cup {[do |-> "startBind", on |-> b, must |-> FALSE]}))
              \cup {[do |-> "save"]})
  <1> DEFINE t == [do |-> "stopBind", on |-> old]
             m == [do |-> "makeSource", on |-> b]
             w == [do |-> "writeBind", on |-> b]
             u == [do |-> "startBind", on |-> b, must |-> FALSE]
             s == [do |-> "save"]
             M == IF make THEN {m} ELSE {}
             make1 == IF make THEN Do("makeSource", b) ELSE <<>>
  <1>1. /\ Plan("update", Do("stopBind", old), {t}) /\ Plan("update", Do("makeSource", b), {m})
        /\ Plan("update", Do("writeBind", b), {w}) /\ Plan("update", Try("startBind", b), {u})
        /\ Plan("update", Save, {s}) /\ Plan("update", <<>>, {})
    BY OneStepPlans, StartPlans DEF BindDos
  <1>2. \A x \in {t, m, w, u} : Follows("update", x, s)
    BY DEF Follows, Leads, Fails
  <1>3. \A x \in {m, w, u} : Follows("update", t, x)
    BY DEF Follows, Leads, Touches
  <1>4. Follows("update", m, w) /\ Follows("update", m, u) /\ Follows("update", w, u)
    BY DEF Follows, Leads, Fails
  <1> HIDE DEF t, m, w, u, s
  <1>5. Plan("update", make1, M)
    BY <1>1
  <1>6. M \subseteq {m}
    OBVIOUS
  <1> HIDE DEF M, make1
  <1>7. Plan("update", make1 \o Do("writeBind", b), M \cup {w})
    BY <1>1, <1>4, <1>5, <1>6, Join
  <1>8. Plan("update", make1 \o Do("writeBind", b) \o Try("startBind", b), M \cup {w} \cup {u})
    BY <1>1, <1>4, <1>6, <1>7, Join
  <1>9. Install(b, make) = make1 \o Do("writeBind", b) \o Try("startBind", b)
    BY DEF Install, make1
  <1>10. Plan("update", Do("stopBind", old) \o Install(b, make), {t} \cup (M \cup {w} \cup {u}))
    BY <1>1, <1>3, <1>6, <1>8, <1>9, Join
  <1>11. Plan("update", Do("stopBind", old) \o Install(b, make) \o Save,
              ({t} \cup (M \cup {w} \cup {u})) \cup {s})
    BY <1>1, <1>2, <1>6, <1>10, Join
  <1> QED BY <1>11 DEF t, m, w, u, s, M

\* The steps of a remount.
RemountSet(p) ==
  {[do |-> "writePool", on |-> p], [do |-> "stopPool", on |-> p],
   [do |-> "mountPool", on |-> p, must |-> TRUE]}
  \cup {[do |-> "startBind", on |-> b, must |-> TRUE] : b \in BindChoices}

LEMMA AnyOrder ==
  ASSUME NEW kind, kind \notin Changes, NEW s, NEW t,
         s.do \notin {"save", "lookPool", "writeBind", "dropBind", "done"},
         \/ t.do \in {"mountPool", "startBind", "save", "done"}
         \/ t.do = "stopPool" /\ s.do = "writePool"
  PROVE  Follows(kind, s, t)
  BY DEF Follows, Leads

LEMMA RemountPlanSteps ==
  ASSUME NEW p \in PoolChoices, SavedOK
  PROVE  \E A : /\ A \subseteq RemountSet(p) /\ A # {} /\ Plan("remount", RemountPlan(p), A)
               /\ \A b \in Restarted(p) : \E x \in A : x.do = "startBind" /\ x.on = b
  <1> DEFINE N == Cardinality(Restarted(p))
             at == SetToSeq(Restarted(p))
             again == [i \in 1..N |-> [do |-> "startBind", on |-> at[i], must |-> TRUE]]
             w == [do |-> "writePool", on |-> p]
             t == [do |-> "stopPool", on |-> p]
             m == [do |-> "mountPool", on |-> p, must |-> TRUE]
             first == Do("writePool", p) \o Do("stopPool", p) \o Must("mountPool", p)
  <1>1. IsFiniteSet(Restarted(p)) /\ Restarted(p) \subseteq BindChoices
    BY FS_Subset DEF Restarted, SavedOK, Config!ConfigTypeOK
  <1>2. /\ N \in Nat /\ \A i \in 1..N : at[i] \in BindChoices
        /\ \A b \in Restarted(p) : \E i \in 1..N : at[i] = b
    BY <1>1, Listed
  <1> HIDE DEF N, at
  <1>3. \A i \in 1..N : /\ again[i] \in RemountSet(p)
                        /\ again[i] \in Steps
                        /\ again[i].do = "startBind"
    <2>1. \A b \in BindChoices : [do |-> "startBind", on |-> b, must |-> TRUE] \in Steps
      BY DEF Steps
    <2> QED BY <1>2, <2>1 DEF RemountSet
  <1>4. again \in Seq(Steps) /\ Len(again) = N
    BY <1>2, <1>3
  <1>15. \A b \in Restarted(p) : \E i \in 1..N : again[i].do = "startBind" /\ again[i].on = b
    BY <1>2
  <1> HIDE DEF again
  <1>16. \A b \in Restarted(p) : \E x \in Ahead(again) : x.do = "startBind" /\ x.on = b
    BY <1>4, <1>15 DEF Ahead
  <1>5. Ahead(again) \subseteq RemountSet(p) /\ \A x \in Ahead(again) : x.do = "startBind"
    BY <1>3, <1>4 DEF Ahead
  <1>6. Ordered("remount", again)
    BY <1>3, <1>4, AnyOrder DEF Ordered, Changes
  <1>7. Plan("remount", again, Ahead(again))
    BY <1>4, <1>6 DEF Plan
  <1>8. /\ Plan("remount", Do("writePool", p), {w}) /\ Plan("remount", Do("stopPool", p), {t})
        /\ Plan("remount", Must("mountPool", p), {m})
    BY OneStepPlans, StartPlans DEF PoolDos
  <1>9. w.do = "writePool" /\ t.do = "stopPool" /\ m.do = "mountPool"
    OBVIOUS
  <1>10. {w, t, m} \subseteq RemountSet(p)
    BY DEF RemountSet
  <1> HIDE DEF w, t, m
  <1>11. /\ Follows("remount", w, t) /\ Follows("remount", w, m) /\ Follows("remount", t, m)
         /\ \A x \in {w, t, m}, y \in Ahead(again) : Follows("remount", x, y)
    BY <1>5, <1>9, AnyOrder DEF Changes
  <1>12. Plan("remount", first, {w, t, m})
    BY <1>8, <1>11, ThreeSteps
  <1> HIDE DEF first
  <1>13. Plan("remount", first \o again, {w, t, m} \cup Ahead(again))
    BY <1>7, <1>11, <1>12, Join
  <1>14. RemountPlan(p) = first \o again
    BY DEF RemountPlan, first, again, N, at
  <1> QED BY <1>5, <1>10, <1>13, <1>14, <1>16

-----------------------------------------------------------------------------
(* What a request begins *)

NewJob(kind, plan, draft) == [kind |-> kind, plan |-> plan, draft |-> draft, down |-> {}]

Sound(j) == j \in Jobs /\ Proper(j.draft) /\ j.plan # <<>> /\ j.down = {} /\ PlanOK(j)

RemountDos == {"writePool", "stopPool", "mountPool", "startBind", "save", "done"}

\* What the guards of a request have made sure of for its steps.
Opens(j) ==
  \A s \in Ahead(j.plan) :
    /\ s.do = "writePool" => s.on \in pools \/ ~Config!Has(pools, s.on.name)
    /\ s.do = "lookPool" =>
         \E old \in pools : /\ old.name = s.on.name
                            /\ \/ old.mountpoint = s.on.mountpoint
                               \/ \E t \in Ahead(j.plan) : t.do = "stopPool"
    /\ s.do = "dropPool" => /\ Config!CanReleasePool(s.on)
                            /\ \E t \in Ahead(j.plan) : t.do = "stopPool"
    /\ s.do = "addLine" => /\ \A m \in mounted : m.kind = "disk" => m.name # s.on.name
                           /\ \A t \in Ahead(j.plan) : t.do \in {"addLine", "mountDisk", "save"}
    /\ s.do = "umountDisk" => s.on \in disks
    /\ s.do = "dropLine" => /\ Config!CanReleaseDisk(s.on)
                            /\ \E t \in Ahead(j.plan) : t.do = "umountDisk"
    /\ j.kind = "remount" =>
         /\ s.do \in RemountDos /\ (s.do = "startBind" => s.must)
         /\ s.do = "stopPool" =>
              /\ s.on \in pools
              /\ \A b \in Restarted(s.on) :
                   \E t \in Ahead(j.plan) : t.do = "startBind" /\ t.on = b

\* A line of fstab goes only with its own step.
DropsLines(j) == disks \subseteq j.draft.disks \/ \E s \in Ahead(j.plan) : s.do = "dropLine"

LockedJob(j) ==
  /\ Sound(j) /\ Commits(j) /\ DraftOK(j) /\ Pending(j, pools, binds, disks)
  /\ Opens(j) /\ DropsLines(j)

FreeJob(j) == Sound(j) /\ Unlocked(j) /\ Opens(j) /\ j.draft = Now

LEMMA NewJobSound ==
  ASSUME NEW kind \in Kinds, NEW plan, NEW S, S # {}, Plan(kind, plan, S),
         NEW draft \in Configs, Proper(draft),
         kind = "remount" => plan[Len(plan)].do # "stopPool"
  PROVE  LET j == NewJob(kind, plan, draft)
         IN  /\ Sound(j) /\ Ahead(j.plan) = S
             /\ j.kind = kind /\ j.draft = draft
  <1> DEFINE j == NewJob(kind, plan, draft)
  <1>1. j.kind = kind /\ j.plan = plan /\ j.draft = draft /\ j.down = {} /\ j \in Jobs
    BY DEF NewJob, Jobs, Plan
  <1>2. plan # <<>>
    BY AheadEmpty DEF Plan
  <1>3. PlanOK(j)
    BY <1>1 DEF PlanOK, Plan
  <1> QED BY <1>1, <1>2, <1>3 DEF Sound, Plan

LEMMA NowTyped ==
  ASSUME SavedOK
  PROVE  Now \in Configs /\ Proper(Now)
  BY DEF SavedOK, Now, Configs, Proper, Config!ConfigTypeOK

LEMMA DraftTyped ==
  ASSUME SavedOK
  PROVE  /\ \A S \in SUBSET PoolChoices : Config!OnePerName(S) =>
              [Now EXCEPT !.pools = S] \in Configs /\ Proper([Now EXCEPT !.pools = S])
         /\ \A S \in SUBSET BindChoices : Config!OnePerName(S) /\ IsFiniteSet(S) =>
              [Now EXCEPT !.binds = S] \in Configs /\ Proper([Now EXCEPT !.binds = S])
         /\ \A S \in SUBSET DiskChoices : Config!OnePerName(S) =>
              [Now EXCEPT !.disks = S] \in Configs /\ Proper([Now EXCEPT !.disks = S])
  <1>1. ASSUME NEW S \in SUBSET PoolChoices, Config!OnePerName(S)
        PROVE  [Now EXCEPT !.pools = S] \in Configs /\ Proper([Now EXCEPT !.pools = S])
    BY <1>1 DEF SavedOK, Now, Configs, Proper, Config!ConfigTypeOK
  <1>2. ASSUME NEW S \in SUBSET BindChoices, Config!OnePerName(S), IsFiniteSet(S)
        PROVE  [Now EXCEPT !.binds = S] \in Configs /\ Proper([Now EXCEPT !.binds = S])
    BY <1>2 DEF SavedOK, Now, Configs, Proper, Config!ConfigTypeOK
  <1>3. ASSUME NEW S \in SUBSET DiskChoices, Config!OnePerName(S)
        PROVE  [Now EXCEPT !.disks = S] \in Configs /\ Proper([Now EXCEPT !.disks = S])
    BY <1>3 DEF SavedOK, Now, Configs, Proper, Config!ConfigTypeOK
  <1> QED BY <1>1, <1>2, <1>3

LEMMA PoolDraft ==
  ASSUME SavedOK, NEW p \in PoolChoices
  PROVE  LET put  == [Now EXCEPT !.pools = Config!Put(pools, p)]
             less == [Now EXCEPT !.pools = Config!Without(pools, p.name)]
         IN  /\ put \in Configs /\ Proper(put) /\ less \in Configs /\ Proper(less)
             /\ put.pools = Config!Put(pools, p) /\ less.pools = Config!Without(pools, p.name)
             /\ put.binds = binds /\ put.disks = disks /\ less.binds = binds /\ less.disks = disks
  <1>1. /\ Config!Put(pools, p) \in SUBSET PoolChoices /\ Config!OnePerName(Config!Put(pools, p))
        /\ Config!Without(pools, p.name) \in SUBSET PoolChoices
        /\ Config!OnePerName(Config!Without(pools, p.name))
    <2>1. pools \subseteq PoolChoices /\ Config!OnePerName(pools)
      BY DEF SavedOK, Config!ConfigTypeOK
    <2> QED BY <2>1, PutKeepsNames, WithoutKeepsNames DEF Config!Put, Config!Without
  <1> QED BY <1>1, DraftTyped DEF Now

LEMMA DiskDraft ==
  ASSUME SavedOK, NEW d \in DiskChoices
  PROVE  LET put  == [Now EXCEPT !.disks = Config!Put(disks, d)]
             less == [Now EXCEPT !.disks = Config!Without(disks, d.name)]
         IN  /\ put \in Configs /\ Proper(put) /\ less \in Configs /\ Proper(less)
             /\ put.disks = Config!Put(disks, d) /\ less.disks = Config!Without(disks, d.name)
             /\ put.binds = binds /\ put.pools = pools /\ less.binds = binds /\ less.pools = pools
  <1>1. /\ Config!Put(disks, d) \in SUBSET DiskChoices /\ Config!OnePerName(Config!Put(disks, d))
        /\ Config!Without(disks, d.name) \in SUBSET DiskChoices
        /\ Config!OnePerName(Config!Without(disks, d.name))
    <2>1. disks \subseteq DiskChoices /\ Config!OnePerName(disks)
      BY DEF SavedOK, Config!ConfigTypeOK
    <2> QED BY <2>1, PutKeepsNames, WithoutKeepsNames DEF Config!Put, Config!Without
  <1> QED BY <1>1, DraftTyped DEF Now

LEMMA BindDraft ==
  ASSUME SavedOK, NEW b \in BindChoices
  PROVE  LET put  == [Now EXCEPT !.binds = Config!Put(binds, b)]
             less == [Now EXCEPT !.binds = Config!Without(binds, b.name)]
         IN  /\ put \in Configs /\ Proper(put) /\ less \in Configs /\ Proper(less)
             /\ put.binds = Config!Put(binds, b) /\ less.binds = Config!Without(binds, b.name)
             /\ put.disks = disks /\ put.pools = pools /\ less.disks = disks /\ less.pools = pools
  <1>1. /\ Config!Put(binds, b) \in SUBSET BindChoices /\ Config!OnePerName(Config!Put(binds, b))
        /\ Config!Without(binds, b.name) \in SUBSET BindChoices
        /\ Config!OnePerName(Config!Without(binds, b.name))
    <2>1. binds \subseteq BindChoices /\ Config!OnePerName(binds)
      BY DEF SavedOK, Config!ConfigTypeOK
    <2> QED BY <2>1, PutKeepsNames, WithoutKeepsNames DEF Config!Put, Config!Without
  <1>2. IsFiniteSet(Config!Without(binds, b.name)) /\ IsFiniteSet(Config!Put(binds, b))
    <2>1. Config!Without(binds, b.name) \subseteq binds
      BY DEF Config!Without
    <2>2. IsFiniteSet(Config!Without(binds, b.name))
      BY <2>1, FS_Subset DEF SavedOK
    <2>3. IsFiniteSet({b})
      BY FS_Singleton
    <2> QED BY <2>2, <2>3, FS_Union DEF Config!Put
  <1> QED BY <1>1, <1>2, DraftTyped DEF Now

LEMMA NewBindsDraft ==
  ASSUME SavedOK, NEW new \in SUBSET BindChoices, IsFiniteSet(new), Config!CanCreateBinds(new)
  PROVE  LET more == [Now EXCEPT !.binds = binds \cup new]
         IN  /\ more \in Configs /\ Proper(more) /\ more.binds = binds \cup new
             /\ more.pools = pools /\ more.disks = disks
  <1>1. binds \cup new \in SUBSET BindChoices /\ IsFiniteSet(binds \cup new)
    BY FS_Union DEF SavedOK, Config!ConfigTypeOK
  <1>2. Config!OnePerName(binds \cup new)
    BY DEF SavedOK, Config!ConfigTypeOK, Config!CanCreateBinds, Config!OnePerName, Config!Has
  <1> QED BY <1>1, <1>2, DraftTyped DEF Now

LEMMA CreatePoolJob ==
  ASSUME SavedOK, NEW p \in PoolChoices, Config!CanCreatePool(p)
  PROVE  LockedJob(NewJob("create", Do("writePool", p) \o Save \o Try("mountPool", p),
                          [Now EXCEPT !.pools = Config!Put(pools, p)]))
  <1> DEFINE draft == [Now EXCEPT !.pools = Config!Put(pools, p)]
             plan == Do("writePool", p) \o Save \o Try("mountPool", p)
             j == NewJob("create", plan, draft)
             w == [do |-> "writePool", on |-> p]
             s == [do |-> "save"]
             m == [do |-> "mountPool", on |-> p, must |-> FALSE]
  <1>1. draft \in Configs /\ Proper(draft)
        /\ draft.pools = Config!Put(pools, p) /\ draft.binds = binds /\ draft.disks = disks
    BY PoolDraft
  <1>2. Prepared(draft)
    BY DEF Prepared
  <1> HIDE DEF draft
  <1>3. Plan("create", plan, {w, s, m})
    BY CreatePoolPlan
  <1> HIDE DEF plan
  <1> DEFINE S == {w, s, m}
  <1>4. S = {w, s, m}
    OBVIOUS
  <1>5. S # {}
    OBVIOUS
  <1>6. Plan("create", plan, S)
    BY <1>3
  <1> HIDE DEF S
  <1>7. Sound(j) /\ Ahead(j.plan) = S /\ j.kind = "create" /\ j.draft = draft
    BY <1>1, <1>6, <1>5, NewJobSound DEF Kinds
  <1> HIDE DEF j
  <1>8. StepOK(j, w) /\ StepOK(j, s) /\ StepOK(j, m)
    BY <1>1, <1>7 DEF StepOK
  <1>9. DraftOK(j)
    BY <1>4, <1>2, <1>7, <1>8 DEF DraftOK, Changes
  <1>10. Commits(j) /\ Pending(j, pools, binds, disks)
    BY <1>4, <1>1, <1>7 DEF Commits, Pending
  <1>11. Opens(j) /\ DropsLines(j)
    BY <1>4, <1>1, <1>7 DEF Opens, DropsLines, Config!CanCreatePool
  <1> QED BY <1>7, <1>9, <1>10, <1>11 DEF LockedJob, j, plan, draft

LEMMA UpdatePoolJob ==
  ASSUME SavedOK, NEW p \in PoolChoices, NEW old \in pools, old.name = p.name, Config!CanUpdatePool(p)
  PROVE  LockedJob(NewJob("update",
                     (IF p.mountpoint # old.mountpoint THEN Do("stopPool", old) ELSE <<>>)
                       \o Do("lookPool", p),
                     [Now EXCEPT !.pools = Config!Put(pools, p)]))
  <1> DEFINE draft == [Now EXCEPT !.pools = Config!Put(pools, p)]
             moves == p.mountpoint # old.mountpoint
             plan == (IF moves THEN Do("stopPool", old) ELSE <<>>) \o Do("lookPool", p)
             j == NewJob("update", plan, draft)
             t == [do |-> "stopPool", on |-> old]
             k == [do |-> "lookPool", on |-> p]
             S == (IF moves THEN {t} ELSE {}) \cup {k}
  <1>1. draft \in Configs /\ Proper(draft)
        /\ draft.pools = Config!Put(pools, p) /\ draft.binds = binds /\ draft.disks = disks
    BY PoolDraft
  <1>2. Prepared(draft)
    BY DEF Prepared
  <1> HIDE DEF draft
  <1>3. moves => Config!BlockersForPath(old.mountpoint) = {}
    <2>1. PICK x \in pools : /\ x.name = p.name
                             /\ p.mountpoint = x.mountpoint \/ Config!BlockersForPath(x.mountpoint) = {}
      BY DEF Config!CanUpdatePool
    <2>2. x = old
      BY <2>1 DEF SavedOK, Config!ConfigTypeOK, Config!OnePerName
    <2> QED BY <2>1, <2>2
  <1>4. Plan("update", plan, S)
    <2>1. old \in PoolChoices /\ moves \in BOOLEAN
      BY DEF SavedOK, Config!ConfigTypeOK
    <2> QED BY <2>1, UpdatePoolPlan
  <1> HIDE DEF plan
  <1>5. S # {} /\ k \in S /\ (t \in S <=> moves) /\ S \subseteq {t, k}
    OBVIOUS
  <1> HIDE DEF S
  <1>6. Sound(j) /\ Ahead(j.plan) = S /\ j.kind = "update" /\ j.draft = draft
    BY <1>1, <1>4, <1>5, NewJobSound DEF Kinds
  <1> HIDE DEF j
  <1>7. StepOK(j, k) /\ (moves => StepOK(j, t))
    BY <1>1, <1>3, <1>6 DEF StepOK
  <1>8. DraftOK(j)
    BY <1>2, <1>5, <1>6, <1>7 DEF DraftOK, Changes
  <1>9. Commits(j) /\ Pending(j, pools, binds, disks)
    BY <1>1, <1>5, <1>6 DEF Commits, Pending
  <1>10. Opens(j) /\ DropsLines(j)
    BY <1>1, <1>5, <1>6 DEF Opens, DropsLines
  <1> QED BY <1>6, <1>8, <1>9, <1>10 DEF LockedJob, j, plan, draft

LEMMA DeletePoolJob ==
  ASSUME SavedOK, NEW p \in PoolChoices, Config!CanReleasePool(p)
  PROVE  LockedJob(NewJob("delete", DeletePlan(p),
                          [Now EXCEPT !.pools = Config!Without(pools, p.name)]))
  <1> DEFINE draft == [Now EXCEPT !.pools = Config!Without(pools, p.name)]
             plan == DeletePlan(p)
             j == NewJob("delete", plan, draft)
             t == [do |-> "stopPool", on |-> p]
             k == [do |-> "dropPool", on |-> p]
             s == [do |-> "save"]
             S == {t, k, s}
  <1>1. draft \in Configs /\ Proper(draft)
        /\ draft.pools = Config!Without(pools, p.name) /\ draft.binds = binds /\ draft.disks = disks
    BY PoolDraft
  <1>2. Prepared(draft)
    BY DEF Prepared
  <1> HIDE DEF draft
  <1>3. Plan("delete", plan, S)
    BY DeletePoolPlan
  <1> HIDE DEF plan
  <1>4. S = {t, k, s}
    OBVIOUS
  <1>5. S # {}
    OBVIOUS
  <1> HIDE DEF S
  <1>6. Sound(j) /\ Ahead(j.plan) = S /\ j.kind = "delete" /\ j.draft = draft
    BY <1>1, <1>3, <1>5, NewJobSound DEF Kinds
  <1> HIDE DEF j
  <1>7. StepOK(j, t) /\ StepOK(j, k) /\ StepOK(j, s)
    BY <1>1, <1>6 DEF StepOK, Config!CanReleasePool
  <1>8. DraftOK(j)
    BY <1>2, <1>4, <1>6, <1>7 DEF DraftOK, Changes
  <1>9. Commits(j) /\ Pending(j, pools, binds, disks)
    BY <1>1, <1>4, <1>6 DEF Commits, Pending
  <1>10. Opens(j) /\ DropsLines(j)
    BY <1>1, <1>4, <1>6 DEF Opens, DropsLines
  <1> QED BY <1>6, <1>8, <1>9, <1>10 DEF LockedJob, j, plan, draft

LEMMA CreateBindsJob ==
  ASSUME SavedOK, NEW new \in SUBSET BindChoices, IsFiniteSet(new), NEW make \in BOOLEAN,
         Config!CanCreateBinds(new)
  PROVE  LockedJob(NewJob("create", InstallAll(new, make) \o Save, [Now EXCEPT !.binds = binds \cup new]))
  <1> DEFINE draft == [Now EXCEPT !.binds = binds \cup new]
             plan == InstallAll(new, make) \o Save
             j == NewJob("create", plan, draft)
             s == [do |-> "save"]
  <1>1. draft \in Configs /\ Proper(draft)
        /\ draft.binds = binds \cup new /\ draft.pools = pools /\ draft.disks = disks
    BY NewBindsDraft
  <1>2. Prepared(draft)
    BY DEF Prepared
  <1> HIDE DEF draft
  <1>3. PICK A : /\ Plan("create", plan, A \cup {s})
                 /\ A \subseteq InstallSet(new)
                 /\ {[do |-> "writeBind", on |-> b] : b \in new} \subseteq A
    BY CreateBindsPlan
  <1> HIDE DEF plan
  <1> DEFINE S == A \cup {s}
  <1>0. S # {} /\ s \in S /\ s.do = "save" /\ A \subseteq S /\ S \subseteq A \cup {s}
    OBVIOUS
  <1> HIDE DEF S
  <1>4. Sound(j) /\ Ahead(j.plan) = S /\ j.kind = "create" /\ j.draft = draft
    BY <1>0, <1>1, <1>3, NewJobSound DEF Kinds, S
  <1> HIDE DEF j
  <1>5. StepOK(j, s)
    BY DEF StepOK
  <1>6. ASSUME NEW b \in new
        PROVE  /\ StepOK(j, [do |-> "makeSource", on |-> b])
               /\ StepOK(j, [do |-> "writeBind", on |-> b])
               /\ StepOK(j, [do |-> "startBind", on |-> b, must |-> FALSE])
    BY <1>1, <1>4 DEF StepOK, Config!CanCreateBinds
  <1>7. \A x \in A : StepOK(j, x)
    BY <1>3, <1>6 DEF InstallSet
  <1>8. DraftOK(j)
    BY <1>0, <1>2, <1>4, <1>5, <1>7 DEF DraftOK, Changes
  <1>9. Commits(j)
    BY <1>0, <1>4 DEF Commits
  <1>10. \A b \in new : \E x \in Ahead(j.plan) : x.do = "writeBind" /\ x.on = b
    <2>1. ASSUME NEW b \in new PROVE [do |-> "writeBind", on |-> b] \in Ahead(j.plan)
      BY <1>0, <1>3, <1>4
    <2> QED BY <2>1
  <1>11. Pending(j, pools, binds, disks)
    BY <1>1, <1>4, <1>10 DEF Pending
  <1>12. \A x \in Ahead(j.plan) : x.do \in {"makeSource", "writeBind", "startBind", "save"}
    BY <1>0, <1>3, <1>4 DEF InstallSet
  <1>13. Opens(j) /\ DropsLines(j)
    BY <1>1, <1>4, <1>12 DEF Opens, DropsLines
  <1> QED BY <1>4, <1>8, <1>9, <1>11, <1>13 DEF LockedJob, j, plan, draft

LEMMA UpdateBindJob ==
  ASSUME SavedOK, NEW b \in BindChoices, NEW old \in binds, old.name = b.name, NEW make \in BOOLEAN,
         Config!CanUpdateBind(b)
  PROVE  LockedJob(NewJob("update", Do("stopBind", old) \o Install(b, make) \o Save,
                          [Now EXCEPT !.binds = Config!Put(binds, b)]))
  <1> DEFINE draft == [Now EXCEPT !.binds = Config!Put(binds, b)]
             plan == Do("stopBind", old) \o Install(b, make) \o Save
             j == NewJob("update", plan, draft)
             t == [do |-> "stopBind", on |-> old]
             m == [do |-> "makeSource", on |-> b]
             w == [do |-> "writeBind", on |-> b]
             u == [do |-> "startBind", on |-> b, must |-> FALSE]
             s == [do |-> "save"]
             S == ({t} \cup ((IF make THEN {m} ELSE {}) \cup {w} \cup {u})) \cup {s}
  <1>1. draft \in Configs /\ Proper(draft)
        /\ draft.binds = Config!Put(binds, b) /\ draft.pools = pools /\ draft.disks = disks
    BY BindDraft
  <1>2. Prepared(draft)
    BY DEF Prepared
  <1> HIDE DEF draft
  <1>3. Plan("update", plan, S)
    <2>1. old \in BindChoices
      BY DEF SavedOK, Config!ConfigTypeOK
    <2> QED BY <2>1, UpdateBindPlan
  <1> HIDE DEF plan
  <1>4. w \in S /\ s \in S /\ S \subseteq {t, m, w, u, s}
    OBVIOUS
  <1>5. S # {}
    OBVIOUS
  <1> HIDE DEF S
  <1>6. Sound(j) /\ Ahead(j.plan) = S /\ j.kind = "update" /\ j.draft = draft
    BY <1>1, <1>3, <1>5, NewJobSound DEF Kinds
  <1> HIDE DEF j
  <1>7. StepOK(j, t) /\ StepOK(j, m) /\ StepOK(j, u) /\ StepOK(j, s)
    <2>1. PICK x \in binds : /\ x.name = b.name
                             /\ b.target = x.target \/ Config!BlockersForPath(x.target) = {}
      BY DEF Config!CanUpdateBind
    <2>2. x = old
      BY <2>1 DEF SavedOK, Config!ConfigTypeOK, Config!OnePerName
    <2>3. b \in j.draft.binds
      BY <1>1, <1>6 DEF Config!Put
    <2> QED BY <1>1, <1>6, <2>1, <2>2, <2>3 DEF StepOK
  <1>8. StepOK(j, w)
    BY <1>1, <1>6 DEF StepOK, Config!Put
  <1>9. DraftOK(j)
    BY <1>2, <1>4, <1>6, <1>7, <1>8 DEF DraftOK, Changes
  <1>10. Commits(j)
    BY <1>4, <1>6 DEF Commits
  <1>11. /\ w \in Ahead(j.plan) /\ w.do = "writeBind" /\ w.on = b
         /\ \A x \in Ahead(j.plan) : x.do \in {"stopBind", "makeSource", "writeBind", "startBind", "save"}
    BY <1>4, <1>6
  <1> HIDE DEF t, m, w, u, s
  <1>12. /\ \A x \in j.draft.binds \ binds : x = b
         /\ \A x \in binds \ j.draft.binds : x.name = b.name
    BY <1>1, <1>6 DEF Config!Put, Config!Without
  <1>13. Pending(j, pools, binds, disks)
    BY <1>1, <1>6, <1>11, <1>12 DEF Pending
  <1>14. Opens(j) /\ DropsLines(j)
    BY <1>1, <1>6, <1>11 DEF Opens, DropsLines
  <1> QED BY <1>6, <1>9, <1>10, <1>13, <1>14 DEF LockedJob, j, plan, draft

LEMMA DeleteBindJob ==
  ASSUME SavedOK, NEW b \in BindChoices, Config!CanReleaseBind(b)
  PROVE  LockedJob(NewJob("delete", Do("stopBind", b) \o Do("dropBind", b) \o Save,
                          [Now EXCEPT !.binds = Config!Without(binds, b.name)]))
  <1> DEFINE draft == [Now EXCEPT !.binds = Config!Without(binds, b.name)]
             plan == Do("stopBind", b) \o Do("dropBind", b) \o Save
             j == NewJob("delete", plan, draft)
             t == [do |-> "stopBind", on |-> b]
             k == [do |-> "dropBind", on |-> b]
             s == [do |-> "save"]
             S == {t, k, s}
  <1>1. draft \in Configs /\ Proper(draft)
        /\ draft.binds = Config!Without(binds, b.name) /\ draft.pools = pools /\ draft.disks = disks
    BY BindDraft
  <1>2. Prepared(draft)
    BY DEF Prepared
  <1> HIDE DEF draft
  <1>3. Plan("delete", plan, S)
    BY DeleteBindPlan
  <1> HIDE DEF plan
  <1>4. S = {t, k, s}
    OBVIOUS
  <1>5. S # {}
    OBVIOUS
  <1> HIDE DEF S
  <1>6. Sound(j) /\ Ahead(j.plan) = S /\ j.kind = "delete" /\ j.draft = draft
    BY <1>1, <1>3, <1>5, NewJobSound DEF Kinds
  <1> HIDE DEF j
  <1>7. StepOK(j, t) /\ StepOK(j, k) /\ StepOK(j, s)
    BY <1>1, <1>6 DEF StepOK, Config!Without, Config!Has, Config!CanReleaseBind
  <1>8. DraftOK(j)
    BY <1>2, <1>4, <1>6, <1>7 DEF DraftOK, Changes
  <1>9. Commits(j) /\ Pending(j, pools, binds, disks)
    BY <1>1, <1>4, <1>6 DEF Commits, Pending, Config!Without
  <1>10. Opens(j) /\ DropsLines(j)
    BY <1>1, <1>4, <1>6 DEF Opens, DropsLines, Config!CanReleaseDisk
  <1> QED BY <1>6, <1>8, <1>9, <1>10 DEF LockedJob, j, plan, draft

LEMMA MountDiskJob ==
  ASSUME SavedOK, NEW d \in DiskChoices, Config!CanMountDisk(d),
         ~\E m \in mounted : m.kind = "disk" /\ m.name = d.name
  PROVE  LockedJob(NewJob("create", Do("addLine", d) \o Do("mountDisk", d) \o Save,
                          [Now EXCEPT !.disks = Config!Put(disks, d)]))
  <1> DEFINE draft == [Now EXCEPT !.disks = Config!Put(disks, d)]
             plan == Do("addLine", d) \o Do("mountDisk", d) \o Save
             j == NewJob("create", plan, draft)
             t == [do |-> "addLine", on |-> d]
             k == [do |-> "mountDisk", on |-> d]
             s == [do |-> "save"]
             S == {t, k, s}
  <1>1. draft \in Configs /\ Proper(draft)
        /\ draft.disks = Config!Put(disks, d) /\ draft.pools = pools /\ draft.binds = binds
    BY DiskDraft
  <1>2. Prepared(draft)
    BY DEF Prepared
  <1> HIDE DEF draft
  <1>3. Plan("create", plan, S)
    BY MountDiskPlan
  <1> HIDE DEF plan
  <1>4. S = {t, k, s}
    OBVIOUS
  <1>5. S # {}
    OBVIOUS
  <1> HIDE DEF S
  <1>6. Sound(j) /\ Ahead(j.plan) = S /\ j.kind = "create" /\ j.draft = draft
    BY <1>1, <1>3, <1>5, NewJobSound DEF Kinds
  <1> HIDE DEF j
  <1>7. StepOK(j, t) /\ StepOK(j, k) /\ StepOK(j, s)
    BY <1>1, <1>6 DEF StepOK, Config!CanMountDisk, Config!Has
  <1>8. DraftOK(j)
    BY <1>2, <1>4, <1>6, <1>7 DEF DraftOK, Changes
  <1>9. Commits(j) /\ Pending(j, pools, binds, disks)
    BY <1>1, <1>4, <1>6 DEF Commits, Pending
  <1>10. disks \subseteq j.draft.disks
    BY <1>1, <1>6 DEF Config!CanMountDisk, Config!Put, Config!Without, Config!Has
  <1>11. Opens(j) /\ DropsLines(j)
    BY <1>4, <1>6, <1>10 DEF Opens, DropsLines
  <1> QED BY <1>6, <1>8, <1>9, <1>11 DEF LockedJob, j, plan, draft

LEMMA ReleaseDiskJob ==
  ASSUME SavedOK, NEW d \in DiskChoices, Config!CanReleaseDisk(d)
  PROVE  LockedJob(NewJob("delete", ReleasePlan(d),
                          [Now EXCEPT !.disks = Config!Without(disks, d.name)]))
  <1> DEFINE draft == [Now EXCEPT !.disks = Config!Without(disks, d.name)]
             plan == ReleasePlan(d)
             j == NewJob("delete", plan, draft)
             t == [do |-> "umountDisk", on |-> d]
             k == [do |-> "dropLine", on |-> d]
             s == [do |-> "save"]
             S == {t, k, s}
  <1>1. draft \in Configs /\ Proper(draft)
        /\ draft.disks = Config!Without(disks, d.name) /\ draft.pools = pools /\ draft.binds = binds
    BY DiskDraft
  <1>2. Prepared(draft)
    BY DEF Prepared
  <1> HIDE DEF draft
  <1>3. Plan("delete", plan, S)
    BY ReleaseDiskPlan
  <1> HIDE DEF plan
  <1>4. S = {t, k, s}
    OBVIOUS
  <1>5. S # {}
    OBVIOUS
  <1> HIDE DEF S
  <1>6. Sound(j) /\ Ahead(j.plan) = S /\ j.kind = "delete" /\ j.draft = draft
    BY <1>1, <1>3, <1>5, NewJobSound DEF Kinds
  <1> HIDE DEF j
  <1>7. StepOK(j, t) /\ StepOK(j, k) /\ StepOK(j, s)
    BY <1>1, <1>6 DEF StepOK, Config!Without
  <1>8. DraftOK(j)
    BY <1>2, <1>4, <1>6, <1>7 DEF DraftOK, Changes
  <1>9. Commits(j) /\ Pending(j, pools, binds, disks)
    BY <1>1, <1>4, <1>6 DEF Commits, Pending, Config!Without
  <1>10. Opens(j) /\ DropsLines(j)
    BY <1>1, <1>4, <1>6 DEF Opens, DropsLines, Config!CanReleaseDisk
  <1> QED BY <1>6, <1>8, <1>9, <1>10 DEF LockedJob, j, plan, draft

LEMMA PassthroughJob ==
  ASSUME SavedOK, NEW p \in pools, NEW up \in BOOLEAN
  PROVE  LockedJob(NewJob("remount",
                     (IF up THEN RemountPlan(p) ELSE Do("writePool", p) \o Must("mountPool", p))
                       \o Save \o Do("done", p), Now))
  <1> DEFINE first == IF up THEN RemountPlan(p) ELSE Do("writePool", p) \o Must("mountPool", p)
             plan == first \o Save \o Do("done", p)
             j == NewJob("remount", plan, Now)
             w == [do |-> "writePool", on |-> p]
             m == [do |-> "mountPool", on |-> p, must |-> TRUE]
             s == [do |-> "save"]
             z == [do |-> "done", on |-> p]
  <1>0. p \in PoolChoices
    BY DEF SavedOK, Config!ConfigTypeOK
  <1>1. Now \in Configs /\ Proper(Now)
    BY NowTyped
  <1>2. \A x \in RemountSet(p) : /\ x.do \in {"writePool", "stopPool", "mountPool", "startBind"}
                                 /\ x.do \in {"writePool", "stopPool"} => x.on = p
                                 /\ x.do = "startBind" => x.must
    BY DEF RemountSet
  <1>3. \E A : /\ A \subseteq RemountSet(p) /\ Plan("remount", first, A)
              /\ \A x \in A : x.do = "stopPool" =>
                   \A b \in Restarted(p) : \E y \in A : y.do = "startBind" /\ y.on = b
    <2>1. CASE up
      BY <1>0, <2>1, RemountPlanSteps
    <2>2. CASE ~up
      <3>1. Plan("remount", Do("writePool", p), {w}) /\ Plan("remount", Must("mountPool", p), {m})
        BY <1>0, OneStepPlans, StartPlans DEF PoolDos
      <3>2. Follows("remount", w, m)
        BY AnyOrder DEF Changes
      <3>3. {w} \cup {m} \subseteq RemountSet(p) /\ w.do # "stopPool" /\ m.do # "stopPool"
        BY DEF RemountSet
      <3> HIDE DEF w, m
      <3>4. Plan("remount", Do("writePool", p) \o Must("mountPool", p), {w} \cup {m})
        BY <3>1, <3>2, Join
      <3> QED BY <2>2, <3>3, <3>4
    <2> QED BY <2>1, <2>2
  <1>4. PICK A : /\ A \subseteq RemountSet(p) /\ Plan("remount", first, A)
                 /\ \A x \in A : x.do = "stopPool" =>
                      \A b \in Restarted(p) : \E y \in A : y.do = "startBind" /\ y.on = b
    BY <1>3
  <1> HIDE DEF first
  <1>5. Plan("remount", Save, {s}) /\ Plan("remount", Do("done", p), {z})
    BY <1>0, OneStepPlans DEF PoolDos
  <1>6. Follows("remount", s, z)
    BY DEF Follows, Leads, After, Changes
  <1>7. \A x \in A, y \in {s, z} : Follows("remount", x, y)
    BY <1>2, <1>4, AnyOrder DEF Changes
  <1>8. s.do = "save" /\ StepOK(j, s) /\ StepOK(j, z) /\ z.do = "done"
    BY DEF StepOK
  <1>9. Do("done", p) = <<z>> /\ <<z>> \in Seq(Steps)
    BY <1>0, PoolStepTyped DEF Do, PoolDos
  <1> HIDE DEF s, z
  <1>10. Plan("remount", first \o Save, A \cup {s})
    BY <1>4, <1>5, <1>7, Join
  <1>11. Plan("remount", plan, (A \cup {s}) \cup {z})
    BY <1>5, <1>6, <1>7, <1>10, Join
  <1>12. plan[Len(plan)].do # "stopPool"
    <2>1. plan[Len(plan)] = z
      BY <1>9, <1>10, LastOfConcat DEF Plan
    <2> QED BY <1>8, <2>1
  <1> HIDE DEF plan
  <1> DEFINE S == (A \cup {s}) \cup {z}
  <1>13. S # {}
    OBVIOUS
  <1>14. s \in S /\ S \subseteq A \cup {s, z} /\ A \subseteq S
    OBVIOUS
  <1> HIDE DEF S
  <1>15. Sound(j) /\ Ahead(j.plan) = S /\ j.kind = "remount" /\ j.draft = Now
    BY <1>1, <1>11, <1>12, <1>13, NewJobSound DEF Kinds, S
  <1> HIDE DEF j
  <1>16. Config!Put(pools, p) = pools
    BY DEF SavedOK, Config!ConfigTypeOK, Config!OnePerName, Config!Put, Config!Without
  <1>17. \A x \in A : StepOK(j, x)
    BY <1>2, <1>4, <1>15, <1>16 DEF StepOK, Now
  <1>18. DraftOK(j)
    BY <1>8, <1>14, <1>15, <1>17 DEF DraftOK, Changes, Prepared
  <1>19. Commits(j)
    BY <1>8, <1>14, <1>15 DEF Commits
  <1>20. Pending(j, pools, binds, disks)
    BY <1>15 DEF Pending, Now
  <1>21. Opens(j) /\ DropsLines(j)
    BY <1>2, <1>4, <1>8, <1>14, <1>15 DEF Opens, DropsLines, RemountDos, Now
  <1> QED BY <1>15, <1>18, <1>19, <1>20, <1>21 DEF LockedJob, j, plan, first

LEMMA FreeOneStep ==
  ASSUME SavedOK, NEW kind \in Kinds \ {"remount"}, NEW plan, NEW x, Plan(kind, plan, {x}),
         x.do \notin LockedDos \cup {"writePool", "umountDisk"}
  PROVE  FreeJob(NewJob(kind, plan, Now))
  <1> DEFINE j == NewJob(kind, plan, Now)
  <1>1. Sound(j) /\ Ahead(j.plan) = {x} /\ j.kind # "remount" /\ j.draft = Now
    BY NowTyped, NewJobSound
  <1> HIDE DEF j
  <1>2. Unlocked(j) /\ Opens(j)
    BY <1>1 DEF Unlocked, Opens, LockedDos
  <1> QED BY <1>1, <1>2 DEF FreeJob, j

LEMMA FreeTwoSteps ==
  ASSUME SavedOK, NEW kind \in Kinds \ ({"remount"} \cup Changes), NEW a, NEW b, NEW x, NEW y,
         Plan(kind, a, {x}), Plan(kind, b, {y}),
         x.do \in {"writePool", "writeBind"}, y.do = "ifDown", x.do = "writePool" => x.on \in pools
  PROVE  FreeJob(NewJob(kind, a \o b, Now))
  <1> DEFINE j == NewJob(kind, a \o b, Now)
  <1>1. Follows(kind, x, y)
    BY DEF Follows, Leads, LockedDos
  <1>2. Plan(kind, a \o b, {x} \cup {y})
    BY <1>1, Join
  <1>3. {x} \cup {y} # {}
    OBVIOUS
  <1>4. Sound(j) /\ Ahead(j.plan) = {x} \cup {y} /\ j.kind # "remount" /\ j.draft = Now
    BY <1>2, <1>3, NowTyped, NewJobSound
  <1> HIDE DEF j
  <1>5. Unlocked(j) /\ Opens(j)
    BY <1>4 DEF Unlocked, Opens, LockedDos
  <1> QED BY <1>4, <1>5 DEF FreeJob, j

LEMMA RemountJob ==
  ASSUME SavedOK, NEW p \in pools
  PROVE  FreeJob(NewJob("remount", RemountPlan(p) \o Do("done", p), Now))
  <1> DEFINE plan == RemountPlan(p) \o Do("done", p)
             j == NewJob("remount", plan, Now)
             z == [do |-> "done", on |-> p]
  <1>1. p \in PoolChoices
    BY DEF SavedOK, Config!ConfigTypeOK
  <1>2. PICK A : /\ A \subseteq RemountSet(p) /\ A # {} /\ Plan("remount", RemountPlan(p), A)
                 /\ \A b \in Restarted(p) : \E x \in A : x.do = "startBind" /\ x.on = b
    BY <1>1, RemountPlanSteps
  <1>3. \A x \in RemountSet(p) : /\ x.do \in {"writePool", "stopPool", "mountPool", "startBind"}
                                 /\ x.do \in {"writePool", "stopPool"} => x.on = p
                                 /\ x.do = "startBind" => x.must
    BY DEF RemountSet
  <1>4. Plan("remount", Do("done", p), {z})
    BY <1>1, OneStepPlans DEF PoolDos
  <1>5. \A x \in A : Follows("remount", x, z)
    BY <1>2, <1>3, AnyOrder DEF Changes
  <1>6. Do("done", p) = <<z>> /\ <<z>> \in Seq(Steps)
    BY <1>1, PoolStepTyped DEF Do, PoolDos
  <1>7. z.do = "done"
    OBVIOUS
  <1> HIDE DEF z
  <1>8. Plan("remount", plan, A \cup {z})
    BY <1>2, <1>4, <1>5, Join
  <1>9. plan[Len(plan)] = z
    BY <1>2, <1>6, LastOfConcat DEF Plan
  <1> HIDE DEF plan
  <1>10. A \cup {z} # {}
    OBVIOUS
  <1>11. Sound(j) /\ Ahead(j.plan) = A \cup {z} /\ j.kind = "remount" /\ j.draft = Now
    BY <1>7, <1>8, <1>9, <1>10, NowTyped, NewJobSound DEF Kinds
  <1> HIDE DEF j
  <1>12. Unlocked(j)
    BY <1>2, <1>3, <1>7, <1>11 DEF Unlocked, LockedDos
  <1>13. Opens(j)
    BY <1>2, <1>3, <1>7, <1>11 DEF Opens, RemountDos
  <1> QED BY <1>11, <1>12, <1>13 DEF FreeJob, j, plan

Begins(c, j) ==
  job[c] = Idle /\ job' = [job EXCEPT ![c] = j] /\ UNCHANGED <<config, files, marks>>

TakesLock(c) == \E j : LockedJob(j) /\ Locks(c) /\ Begins(c, j)

TakesNone(c) == \E j : FreeJob(j) /\ UNCHANGED lock /\ Begins(c, j)

LEMMA AcceptsLocked ==
  ASSUME NEW c, NEW kind, NEW plan, NEW draft, job[c] = Idle,
         AcceptLocked(c, kind, plan, draft), LockedJob(NewJob(kind, plan, draft))
  PROVE  TakesLock(c)
  BY DEF AcceptLocked, Accept, TakesLock, Begins, NewJob

LEMMA AcceptsFree ==
  ASSUME NEW c, NEW kind, NEW plan, job[c] = Idle,
         AcceptUnlocked(c, kind, plan), FreeJob(NewJob(kind, plan, Now))
  PROVE  TakesNone(c)
  BY DEF AcceptUnlocked, Accept, TakesNone, Begins, NewJob

LEMMA PoolRequests ==
  ASSUME SavedOK, NEW c \in Clients, NEW p \in PoolChoices
  PROVE  /\ CreatePool(c, p) \/ DeletePool(c, p) \/ FixPassthrough(c, p) => TakesLock(c)
         /\ \A old \in pools : UpdatePool(c, p, old) => TakesLock(c)
         /\ RemountPool(c, p) \/ MountPool(c, p) \/ UnmountPool(c, p) \/ FixPoolUnit(c, p)
              => TakesNone(c)
  <1>1. ASSUME CreatePool(c, p) PROVE TakesLock(c)
    BY <1>1, CreatePoolJob, AcceptsLocked DEF CreatePool, Arrive
  <1>2. ASSUME DeletePool(c, p) PROVE TakesLock(c)
    BY <1>2, DeletePoolJob, AcceptsLocked DEF DeletePool, Arrive
  <1>3. ASSUME FixPassthrough(c, p) PROVE TakesLock(c)
    <2>1. p \in pools /\ job[c] = Idle /\ IsMounted(p.mountpoint) \in BOOLEAN
      BY <1>3 DEF FixPassthrough, Arrive, IsMounted, MountedIn
    <2> QED BY <1>3, <2>1, PassthroughJob, AcceptsLocked DEF FixPassthrough
  <1>4. ASSUME NEW old \in pools, UpdatePool(c, p, old) PROVE TakesLock(c)
    BY <1>4, UpdatePoolJob, AcceptsLocked DEF UpdatePool, Arrive
  <1>5. ASSUME RemountPool(c, p) PROVE TakesNone(c)
    BY <1>5, RemountJob, AcceptsFree DEF RemountPool, Arrive
  <1>6. ASSUME MountPool(c, p) PROVE TakesNone(c)
    <2> DEFINE x == [do |-> "mountPool", on |-> p, must |-> TRUE]
    <2>1. Plan("mount", Must("mountPool", p), {x}) /\ x.do \notin LockedDos \cup {"writePool", "umountDisk"}
      BY StartPlans DEF LockedDos
    <2>2. FreeJob(NewJob("mount", Must("mountPool", p), Now))
      BY <2>1, FreeOneStep DEF Kinds
    <2> QED BY <1>6, <2>2, AcceptsFree DEF MountPool, Arrive
  <1>7. ASSUME UnmountPool(c, p) PROVE TakesNone(c)
    <2> DEFINE x == [do |-> "stopPool", on |-> p]
    <2>1. Plan("unmount", Do("stopPool", p), {x}) /\ x.do \notin LockedDos \cup {"writePool", "umountDisk"}
      BY OneStepPlans DEF LockedDos, PoolDos
    <2>2. FreeJob(NewJob("unmount", Do("stopPool", p), Now))
      BY <2>1, FreeOneStep DEF Kinds
    <2> QED BY <1>7, <2>2, AcceptsFree DEF UnmountPool, Arrive
  <1>8. ASSUME FixPoolUnit(c, p) PROVE TakesNone(c)
    <2> DEFINE retry == [at |-> p.mountpoint, then |-> Must("mountPool", p)]
               x == [do |-> "writePool", on |-> p]
               y == [do |-> "ifDown", on |-> retry]
    <2>1. Plan("fix", Do("writePool", p), {x}) /\ x.do = "writePool" /\ x.on = p /\ p \in pools
      BY <1>8, OneStepPlans DEF FixPoolUnit, PoolDos
    <2>2. Plan("fix", Do("ifDown", retry), {y})
      <3>1. p.mountpoint \in Places /\ Must("mountPool", p) \in Retries
        BY DEF Places, Retries
      <3>2. Do("ifDown", retry) \in Seq(Steps) /\ Ahead(Do("ifDown", retry)) = {y}
        BY <3>1, IfDownTyped
      <3>3. Ordered("fix", Do("ifDown", retry))
        BY OrderedOne DEF Do
      <3> QED BY <3>2, <3>3 DEF Plan
    <2>3. y.do = "ifDown"
      OBVIOUS
    <2>4. "fix" \in Kinds \ ({"remount"} \cup Changes)
      BY DEF Kinds, Changes
    <2> HIDE DEF x, y, retry
    <2>5. FreeJob(NewJob("fix", Do("writePool", p) \o Do("ifDown", retry), Now))
      BY <2>1, <2>2, <2>3, <2>4, FreeTwoSteps
    <2> QED BY <1>8, <2>5, AcceptsFree DEF FixPoolUnit, Arrive, retry
  <1> QED BY <1>1, <1>2, <1>3, <1>4, <1>5, <1>6, <1>7, <1>8

LEMMA BindRequests ==
  ASSUME SavedOK, NEW c \in Clients
  PROVE  /\ \A new \in SUBSET BindChoices, make \in BOOLEAN : CreateBinds(c, new, make) => TakesLock(c)
         /\ \A b \in BindChoices :
              /\ \A old \in binds, make \in BOOLEAN : UpdateBind(c, b, old, make) => TakesLock(c)
              /\ DeleteBind(c, b) => TakesLock(c)
              /\ StartBindNow(c, b) \/ StopBindNow(c, b) \/ FixBindUnit(c, b) \/ FixBindSource(c, b)
                   => TakesNone(c)
  <1>1. ASSUME NEW new \in SUBSET BindChoices, NEW make \in BOOLEAN, CreateBinds(c, new, make)
        PROVE  TakesLock(c)
    BY <1>1, CreateBindsJob, AcceptsLocked DEF CreateBinds, Arrive
  <1>2. ASSUME NEW b \in BindChoices, NEW old \in binds, NEW make \in BOOLEAN,
               UpdateBind(c, b, old, make)
        PROVE  TakesLock(c)
    BY <1>2, UpdateBindJob, AcceptsLocked DEF UpdateBind, Arrive
  <1>3. ASSUME NEW b \in BindChoices, DeleteBind(c, b) PROVE TakesLock(c)
    BY <1>3, DeleteBindJob, AcceptsLocked DEF DeleteBind, Arrive
  <1>4. ASSUME NEW b \in BindChoices, StartBindNow(c, b) PROVE TakesNone(c)
    <2> DEFINE x == [do |-> "startBind", on |-> b, must |-> TRUE]
    <2>1. Plan("mount", Must("startBind", b), {x}) /\ x.do \notin LockedDos \cup {"writePool", "umountDisk"}
      BY StartPlans DEF LockedDos
    <2>2. FreeJob(NewJob("mount", Must("startBind", b), Now))
      BY <2>1, FreeOneStep DEF Kinds
    <2> QED BY <1>4, <2>2, AcceptsFree DEF StartBindNow, Arrive
  <1>5. ASSUME NEW b \in BindChoices, StopBindNow(c, b) PROVE TakesNone(c)
    <2> DEFINE x == [do |-> "stopBind", on |-> b]
    <2>1. Plan("unmount", Do("stopBind", b), {x}) /\ x.do \notin LockedDos \cup {"writePool", "umountDisk"}
      BY OneStepPlans DEF LockedDos, BindDos
    <2>2. FreeJob(NewJob("unmount", Do("stopBind", b), Now))
      BY <2>1, FreeOneStep DEF Kinds
    <2> QED BY <1>5, <2>2, AcceptsFree DEF StopBindNow, Arrive
  <1>6. ASSUME NEW b \in BindChoices, FixBindSource(c, b) PROVE TakesNone(c)
    <2> DEFINE x == [do |-> "makeSource", on |-> b]
    <2>1. Plan("fix", Do("makeSource", b), {x}) /\ x.do \notin LockedDos \cup {"writePool", "umountDisk"}
      BY OneStepPlans DEF LockedDos, BindDos
    <2>2. FreeJob(NewJob("fix", Do("makeSource", b), Now))
      BY <2>1, FreeOneStep DEF Kinds
    <2> QED BY <1>6, <2>2, AcceptsFree DEF FixBindSource, Arrive
  <1>7. ASSUME NEW b \in BindChoices, FixBindUnit(c, b) PROVE TakesNone(c)
    <2> DEFINE retry == [at |-> b.target, then |-> Must("startBind", b)]
               x == [do |-> "writeBind", on |-> b]
               y == [do |-> "ifDown", on |-> retry]
    <2>1. Plan("fix", Do("writeBind", b), {x}) /\ x.do = "writeBind"
      BY OneStepPlans DEF BindDos
    <2>2. Plan("fix", Do("ifDown", retry), {y})
      <3>1. b.target \in Places /\ Must("startBind", b) \in Retries
        BY DEF Places, Retries
      <3>2. Do("ifDown", retry) \in Seq(Steps) /\ Ahead(Do("ifDown", retry)) = {y}
        BY <3>1, IfDownTyped
      <3>3. Ordered("fix", Do("ifDown", retry))
        BY OrderedOne DEF Do
      <3> QED BY <3>2, <3>3 DEF Plan
    <2>3. y.do = "ifDown"
      OBVIOUS
    <2>4. "fix" \in Kinds \ ({"remount"} \cup Changes)
      BY DEF Kinds, Changes
    <2> HIDE DEF x, y, retry
    <2>5. FreeJob(NewJob("fix", Do("writeBind", b) \o Do("ifDown", retry), Now))
      BY <2>1, <2>2, <2>3, <2>4, FreeTwoSteps
    <2> QED BY <1>7, <2>5, AcceptsFree DEF FixBindUnit, Arrive, retry
  <1> QED BY <1>1, <1>2, <1>3, <1>4, <1>5, <1>6, <1>7

LEMMA DiskRequests ==
  ASSUME SavedOK, NEW c \in Clients, NEW d \in DiskChoices
  PROVE  /\ MountDisk(c, d) \/ UnmountDisk(c, d) => TakesLock(c)
         /\ FixDiskMount(c, d) \/ FixNoatime(c, d) => TakesNone(c)
  <1>1. ASSUME MountDisk(c, d) PROVE TakesLock(c)
    BY <1>1, MountDiskJob, AcceptsLocked DEF MountDisk, Arrive
  <1>2. ASSUME UnmountDisk(c, d) PROVE TakesLock(c)
    BY <1>2, ReleaseDiskJob, AcceptsLocked DEF UnmountDisk, Arrive
  <1>3. ASSUME NEW step \in {"mountDisk", "readLines"}, AcceptUnlocked(c, "fix", Do(step, d)),
               job[c] = Idle
        PROVE  TakesNone(c)
    <2> DEFINE x == [do |-> step, on |-> d]
    <2>1. Plan("fix", Do(step, d), {x}) /\ x.do \notin LockedDos \cup {"writePool", "umountDisk"}
      BY OneStepPlans DEF LockedDos, DiskDos
    <2>2. FreeJob(NewJob("fix", Do(step, d), Now))
      BY <2>1, FreeOneStep DEF Kinds
    <2> QED BY <1>3, <2>2, AcceptsFree
  <1>4. ASSUME FixDiskMount(c, d) \/ FixNoatime(c, d) PROVE TakesNone(c)
    BY <1>3, <1>4 DEF FixDiskMount, FixNoatime, Arrive
  <1> QED BY <1>1, <1>2, <1>4

LEMMA RequestCases ==
  ASSUME SavedOK, NEW c \in Clients, Request(c)
  PROVE  TakesLock(c) \/ TakesNone(c) \/ ChangeShares(c)
  <1>1. CASE Fix(c)
    BY <1>1, PoolRequests, BindRequests, DiskRequests DEF Fix
  <1>2. CASE ~Fix(c) /\ ~ChangeShares(c)
    BY <1>2, PoolRequests, BindRequests, DiskRequests DEF Request
  <1> QED BY <1>1, <1>2

-----------------------------------------------------------------------------
(* Jobs stay as they should *)

LEMMA GuardsLater ==
  ASSUME UNCHANGED config
  PROVE  /\ Now' = Now
         /\ \A p : /\ Config!CanCreatePool(p)' = Config!CanCreatePool(p)
                   /\ Config!CanUpdatePool(p)' = Config!CanUpdatePool(p)
                   /\ Config!CanReleasePool(p)' = Config!CanReleasePool(p)
         /\ \A new : Config!CanCreateBinds(new)' = Config!CanCreateBinds(new)
         /\ \A b : /\ Config!CanUpdateBind(b)' = Config!CanUpdateBind(b)
                   /\ Config!CanReleaseBind(b)' = Config!CanReleaseBind(b)
         /\ \A d : /\ Config!CanMountDisk(d)' = Config!CanMountDisk(d)
                   /\ Config!CanReleaseDisk(d)' = Config!CanReleaseDisk(d)
         /\ \A q : Config!BlockersForPath(q)' = Config!BlockersForPath(q)
  <1>1. pools' = pools /\ binds' = binds /\ disks' = disks /\ shares' = shares
    BY DEF config
  <1>2. Now' = Now
    BY <1>1 DEF Now
  <1>3. ASSUME NEW q PROVE Config!BlockersForPath(q)' = Config!BlockersForPath(q)
    BY <1>1 DEF Config!BlockersForPath, Config!Presented
  <1>4. ASSUME NEW q PROVE /\ Config!PoolsUsingPath(q)' = Config!PoolsUsingPath(q)
                           /\ Config!BindsUsingPath(q)' = Config!BindsUsingPath(q)
    BY <1>1 DEF Config!PoolsUsingPath, Config!BindsUsingPath
  <1>5. ASSUME NEW p PROVE Config!PoolConflict(p)' = Config!PoolConflict(p)
    BY <1>1 DEF Config!PoolConflict
  <1>6. ASSUME NEW b PROVE Config!BindConflict(b)' = Config!BindConflict(b)
    BY <1>1 DEF Config!BindConflict
  <1>7. ASSUME NEW p
        PROVE  /\ Config!CanCreatePool(p)' = Config!CanCreatePool(p)
               /\ Config!CanUpdatePool(p)' = Config!CanUpdatePool(p)
               /\ Config!CanReleasePool(p)' = Config!CanReleasePool(p)
    BY <1>1, <1>3, <1>4, <1>5
       DEF Config!CanCreatePool, Config!CanUpdatePool, Config!CanReleasePool
  <1>8. ASSUME NEW new PROVE Config!CanCreateBinds(new)' = Config!CanCreateBinds(new)
    BY <1>1, <1>6 DEF Config!CanCreateBinds
  <1>9. ASSUME NEW b PROVE /\ Config!CanUpdateBind(b)' = Config!CanUpdateBind(b)
                           /\ Config!CanReleaseBind(b)' = Config!CanReleaseBind(b)
    BY <1>1, <1>3, <1>6 DEF Config!CanUpdateBind, Config!CanReleaseBind
  <1>10. ASSUME NEW d PROVE /\ Config!CanMountDisk(d)' = Config!CanMountDisk(d)
                            /\ Config!CanReleaseDisk(d)' = Config!CanReleaseDisk(d)
    BY <1>1, <1>4 DEF Config!CanMountDisk, Config!CanReleaseDisk
  <1> QED BY <1>2, <1>3, <1>7, <1>8, <1>9, <1>10

LEMMA PreparedLater ==
  ASSUME NEW c, UNCHANGED config, Prepared(job'[c].draft)
  PROVE  Prepared(job[c].draft)'
  <1>1. pools' = pools /\ binds' = binds /\ disks' = disks /\ shares' = shares
    BY DEF config
  <1> QED BY <1>1, GuardsLater DEF Prepared

LEMMA HeldLater ==
  ASSUME NEW c, UNCHANGED config, Held(job'[c])
  PROVE  Held(job[c])'
  <1>1. pools' = pools /\ binds' = binds /\ disks' = disks /\ shares' = shares
    BY DEF config
  <1>2. ASSUME DraftOK(job'[c]) PROVE DraftOK(job[c])'
    <2>1. Prepared(job[c].draft)'
      BY <1>2, PreparedLater DEF DraftOK
    <2>2. job'[c].kind = "remount" => job'[c].draft = Now'
      BY <1>1, <1>2 DEF DraftOK, Now
    <2>3. ASSUME NEW s \in Ahead(job'[c].plan) PROVE StepOK(job[c], s)'
      <3>1. StepOK(job'[c], s)
        BY <1>2, <2>3 DEF DraftOK
      <3> QED BY <1>1, <3>1 DEF StepOK, Config!BlockersForPath, Config!Presented, Config!Has
    <2> QED BY <1>2, <2>1, <2>2, <2>3 DEF DraftOK
  <1> QED BY <1>2 DEF Held, Commits

LEMMA IdleFine == PlanOK(Idle) /\ Unlocked(Idle)
  <1>1. Idle.plan = <<>> /\ Idle.kind = "none"
    BY DEF Idle
  <1> QED BY <1>1, AheadEmpty DEF PlanOK, Ordered, Unlocked

LEMMA TailHeld ==
  ASSUME NEW j \in Jobs, j.plan # <<>>, PlanOK(j), Held(j), Head(j.plan).do # "lookPool",
         NEW j2, j2.kind = j.kind, j2.draft = j.draft, j2.plan = Tail(j.plan)
  PROVE  Held(j2)
  <1>1. /\ Ahead(j.plan) = {Head(j.plan)} \cup Ahead(j2.plan)
        /\ \A y \in Ahead(j2.plan) : Follows(j.kind, Head(j.plan), y)
    BY PlanTail
  <1>2. CASE Commits(j2)
    <2>1. Commits(j)
      BY <1>1, <1>2 DEF Commits
    <2>2. DraftOK(j)
      BY <2>1 DEF Held
    <2>3. \A s \in Ahead(j2.plan) : StepOK(j2, s)
      BY <1>1, <2>2 DEF DraftOK, StepOK
    <2> QED BY <1>2, <2>2, <2>3 DEF Held, DraftOK
  <1>3. CASE ~Commits(j2)
    <2>1. CASE Commits(j)
      <3>1. Head(j.plan).do = "save"
        BY <1>1, <1>3, <2>1 DEF Commits
      <3> QED BY <1>1, <1>3, <3>1 DEF Held, Follows
    <2>2. CASE ~Commits(j)
      BY <1>1, <1>3, <2>2 DEF Held
    <2> QED BY <2>1, <2>2
  <1> QED BY <1>2, <1>3

\* The other clients, while c goes on to plan.
LEMMA OthersKeep ==
  ASSUME JobsOK, JobsInv, NEW c \in Clients, NEW plan, Becomes(c, plan),
         UNCHANGED config \/ lock = c, NEW d \in Clients, d # c
  PROVE  /\ job'[d] = job[d] /\ PlanOK(job'[d])
         /\ IF lock' = d THEN Held(job[d])' /\ job'[d].plan # <<>> ELSE Unlocked(job'[d])
  <1>1. NoClient \notin Clients
    BY HostAssumption
  <1>2. job'[d] = job[d] /\ (lock' = d <=> lock = d)
    BY <1>1 DEF Becomes, End, JobsOK
  <1>3. CASE lock = d
    BY <1>2, <1>3, HeldLater DEF JobsInv
  <1>4. CASE lock # d
    BY <1>2, <1>4 DEF JobsInv
  <1> QED BY <1>2, <1>3, <1>4 DEF JobsInv

LEMMA MoveKeepsJobs ==
  ASSUME JobsOK, JobsInv, NEW c \in Clients, NEW plan, Becomes(c, plan),
         UNCHANGED config \/ lock = c,
         plan # <<>> => /\ PlanOK(job'[c])
                        /\ IF lock = c THEN Held(job[c])' ELSE Unlocked(job'[c])
  PROVE  JobsInv'
  <1>1. PlanOK(job'[c]) /\ IF lock' = c THEN Held(job[c])' /\ job'[c].plan # <<>> ELSE Unlocked(job'[c])
    <2>1. CASE plan = <<>>
      <3>1. NoClient # c
        BY HostAssumption
      <3>2. job'[c] = Idle /\ lock' # c
        BY <2>1, <3>1 DEF Becomes, End, JobsOK
      <3> QED BY <3>2, IdleFine
    <2>2. CASE plan # <<>>
      <3>1. lock' = lock /\ job'[c].plan = plan
        BY <2>2 DEF Becomes, JobsOK
      <3> QED BY <2>2, <3>1
    <2> QED BY <2>1, <2>2
  <1> QED BY <1>1, OthersKeep DEF JobsInv, PlanOK, Unlocked

LEMMA BecomesJob ==
  ASSUME JobsOK, NEW c \in Clients, NEW plan, plan # <<>>, Becomes(c, plan)
  PROVE  /\ job'[c] \in Jobs /\ job'[c].kind = job[c].kind /\ job'[c].draft = job[c].draft
         /\ job'[c].plan = plan
  BY DEF Becomes, JobsOK

LEMMA OnwardKeepsJobs ==
  ASSUME JobsOK, JobsInv, NEW c \in Clients, job[c].plan # <<>>, Onward(c),
         Step(c).do # "lookPool", UNCHANGED config
  PROVE  JobsInv'
  <1> DEFINE rest == Tail(job[c].plan)
  <1>1. Becomes(c, rest) /\ job[c] \in Jobs
    BY DEF Onward, JobsOK
  <1>2. ASSUME rest # <<>>
        PROVE  PlanOK(job'[c]) /\ IF lock = c THEN Held(job[c])' ELSE Unlocked(job'[c])
    <2>1. /\ job'[c] \in Jobs /\ job'[c].kind = job[c].kind /\ job'[c].draft = job[c].draft
          /\ job'[c].plan = rest
      BY <1>1, <1>2, BecomesJob
    <2>2. PlanOK(job[c])
      BY DEF JobsInv
    <2>3. PlanOK(job'[c]) /\ Ahead(job[c].plan) = {Step(c)} \cup Ahead(job'[c].plan)
      BY <1>1, <2>1, <2>2, PlanTail DEF Step
    <2>4. CASE lock = c
      <3>1. Held(job'[c])
        BY <1>1, <2>1, <2>2, <2>4, TailHeld DEF JobsInv, Step
      <3> QED BY <2>3, <2>4, <3>1, HeldLater
    <2>5. CASE lock # c
      BY <2>3, <2>5 DEF JobsInv, Unlocked
    <2> QED BY <2>4, <2>5
  <1> QED BY <1>1, <1>2, MoveKeepsJobs

\* Only a request without the lock looks at a place or reads the lines.
LEMMA ChoosesUnlocked ==
  ASSUME JobsOK, JobsInv, NEW c \in Clients, job[c].plan # <<>>,
         Step(c).do \in {"ifDown", "readLines"}
  PROVE  lock # c
  <1> SUFFICES ASSUME lock = c PROVE FALSE
    OBVIOUS
  <1>1. Step(c) \in Ahead(job[c].plan) /\ Held(job[c])
    BY NextStep DEF JobsInv
  <1>2. CASE Commits(job[c])
    BY <1>1, <1>2 DEF Held, DraftOK, StepOK
  <1>3. CASE ~Commits(job[c])
    BY <1>1, <1>3 DEF Held, After
  <1> QED BY <1>2, <1>3

LEMMA AnswersAlone ==
  ASSUME NEW j, NEW x, j.plan = <<x>>, x.do \notin LockedDos \cup {"stopPool"}
  PROVE  PlanOK(j) /\ Unlocked(j)
  <1>1. Ahead(j.plan) = {x} /\ Ordered(j.kind, j.plan)
    BY AheadOne, OrderedOne
  <1>2. j.plan[Len(j.plan)] = x
    <2>1. Len(<<x>>) = 1 /\ <<x>>[1] = x
      OBVIOUS
    <2> QED BY <2>1
  <1> QED BY <1>1, <1>2 DEF PlanOK, Unlocked

LEMMA ChoosesKeepsJobs ==
  ASSUME JobsOK, JobsInv, NEW c \in Clients, job[c].plan # <<>>, LooksIfDown(c) \/ ReadsLines(c)
  PROVE  JobsInv'
  <1>1. lock # c
    BY ChoosesUnlocked DEF LooksIfDown, ReadsLines, At, Step
  <1>2. UNCHANGED config
    BY DEF LooksIfDown, ReadsLines, Still
  <1>3. CASE Becomes(c, <<>>)
    BY <1>2, <1>3, MoveKeepsJobs
  <1>4. CASE LooksIfDown(c) /\ Becomes(c, On(c).then)
    <2>1. On(c).then \in Retries
      BY <1>4, NextStep, StepFields DEF LooksIfDown, At, On, Step
    <2>2. PICK x : On(c).then = <<x>> /\ x.do \in {"mountPool", "startBind"}
      BY <2>1 DEF Retries, Must
    <2>3. <<x>> # <<>>
      OBVIOUS
    <2>4. job'[c].plan = <<x>>
      BY <1>4, <2>2, <2>3, BecomesJob
    <2>5. PlanOK(job'[c]) /\ Unlocked(job'[c])
      BY <2>2, <2>4, AnswersAlone DEF LockedDos
    <2> QED BY <1>1, <1>2, <1>4, <2>5, MoveKeepsJobs
  <1>5. CASE ReadsLines(c) /\ Becomes(c, <<[do |-> "writeLines", lines |-> fstab]>>)
    <2> DEFINE x == [do |-> "writeLines", lines |-> fstab]
    <2>1. x.do = "writeLines"
      OBVIOUS
    <2> HIDE DEF x
    <2>2. <<x>> # <<>>
      OBVIOUS
    <2>3. Becomes(c, <<x>>)
      BY <1>5 DEF x
    <2>4. job'[c].plan = <<x>>
      BY <2>2, <2>3, BecomesJob
    <2>5. PlanOK(job'[c]) /\ Unlocked(job'[c])
      BY <2>1, <2>4, AnswersAlone DEF LockedDos
    <2> QED BY <1>1, <1>2, <2>3, <2>5, MoveKeepsJobs
  <1> QED BY <1>3, <1>4, <1>5 DEF LooksIfDown, ReadsLines

\* A request about to save, or to look at a pool, holds the lock.
LEMMA CommitsLocked ==
  ASSUME JobsOK, JobsInv, NEW c \in Clients, job[c].plan # <<>>,
         Step(c).do \in LockedDos
  PROVE  lock = c /\ Held(job[c]) /\ (Step(c).do \in {"save", "lookPool"} => Commits(job[c]))
  <1>1. Step(c) \in Ahead(job[c].plan)
    BY NextStep
  <1>2. lock = c
    BY <1>1 DEF JobsInv, Unlocked
  <1> QED BY <1>1, <1>2 DEF JobsInv, Commits

LEMMA LookKeepsJobs ==
  ASSUME FilesOK, JobsOK, JobsInv, NEW c \in Clients, LookAndWritePool(c)
  PROVE  JobsInv'
  <1>1. job[c].plan # <<>> /\ At(c, "lookPool") /\ UNCHANGED config /\ Step(c).do = "lookPool"
    BY DEF LookAndWritePool, At, Step
  <1>2. lock = c /\ Commits(job[c]) /\ DraftOK(job[c])
    BY <1>1, CommitsLocked DEF LockedDos, Held
  <1>3. On(c) \in PoolChoices
    BY <1>1, NextStep, StepFields DEF On, Step, PoolDos
  <1>4. ASSUME NEW x, x.do \in After, NEW last, last = <<x>>, \A kind : Plan(kind, last, {x}),
               x.do = "mountPool" => x.must = FALSE, Becomes(c, Save \o last)
        PROVE  JobsInv'
    <2> DEFINE s == [do |-> "save"]
               kind == job[c].kind
               plan == Save \o last
    <2>1. Follows(kind, s, x)
      BY <1>4 DEF Follows, Leads, Fails, After
    <2>2. Plan(kind, Save, {s}) /\ s.do = "save"
      BY OneStepPlans
    <2> HIDE DEF s
    <2>3. Plan(kind, plan, {s} \cup {x})
      BY <1>4, <2>1, <2>2, Join
    <2>4. plan # <<>> /\ plan[Len(plan)] = x
      BY <1>4, <2>2, LastOfConcat DEF Plan
    <2> HIDE DEF plan
    <2>5. /\ job'[c].kind = job[c].kind /\ job'[c].draft = job[c].draft /\ job'[c].plan = plan
      BY <1>4, <2>4, BecomesJob DEF plan
    <2>6. PlanOK(job'[c]) /\ Ahead(job'[c].plan) = {s, x}
      BY <1>4, <2>3, <2>4, <2>5 DEF PlanOK, Plan, After
    <2>7. Commits(job'[c])
      BY <2>2, <2>6 DEF Commits
    <2>8. StepOK(job'[c], s) /\ StepOK(job'[c], x)
      BY <1>4, <2>2 DEF StepOK, After
    <2>9. DraftOK(job'[c])
      BY <1>2, <2>5, <2>6, <2>8 DEF DraftOK
    <2>10. Held(job[c])'
      BY <1>1, <2>7, <2>9, HeldLater DEF Held
    <2> QED BY <1>1, <1>2, <1>4, <2>6, <2>10, MoveKeepsJobs DEF plan
  <1>5. CASE Becomes(c, Save \o Do("tunePool", On(c)))
    <2> DEFINE x == [do |-> "tunePool", on |-> On(c)]
    <2>1. x.do \in After /\ x.do # "mountPool" /\ Do("tunePool", On(c)) = <<x>>
          /\ \A kind : Plan(kind, Do("tunePool", On(c)), {x})
      BY <1>3, OneStepPlans DEF After, Do, PoolDos
    <2> QED BY <1>4, <1>5, <2>1
  <1>6. CASE Becomes(c, Save \o Try("mountPool", On(c)))
    <2> DEFINE x == [do |-> "mountPool", on |-> On(c), must |-> FALSE]
    <2>1. x.do \in After /\ x.must = FALSE /\ Try("mountPool", On(c)) = <<x>>
          /\ \A kind : Plan(kind, Try("mountPool", On(c)), {x})
      BY <1>3, StartPlans DEF After, Try
    <2> QED BY <1>4, <1>6, <2>1
  <1> QED BY <1>1, <1>5, <1>6, Written

LEMMA SaveKeepsJobs ==
  ASSUME FilesOK, JobsOK, JobsInv, NEW c \in Clients, SaveState(c)
  PROVE  JobsInv'
  <1> DEFINE rest == Tail(job[c].plan)
  <1>1. job[c].plan # <<>> /\ Step(c).do = "save" /\ ~At(c, "lookPool") /\ job[c] \in Jobs
    BY DEF SaveState, At, Step, JobsOK
  <1>2. lock = c /\ PlanOK(job[c])
    BY <1>1, CommitsLocked DEF LockedDos, JobsInv
  <1>3. Becomes(c, rest)
    BY <1>1, Written DEF Onward
  <1>4. ASSUME rest # <<>> PROVE PlanOK(job'[c]) /\ Held(job[c])'
    <2>1. job'[c].kind = job[c].kind /\ job'[c].plan = rest
      BY <1>3, <1>4, BecomesJob
    <2>2. PlanOK(job'[c]) /\ \A y \in Ahead(job'[c].plan) : Follows(job[c].kind, Step(c), y)
      BY <1>1, <1>2, <2>1, PlanTail DEF Step
    <2>3. \A y \in Ahead(job'[c].plan) : y.do \in After
      BY <1>1, <2>2 DEF Follows
    <2>4. ~Commits(job'[c])
      BY <2>3 DEF Commits, After
    <2> QED BY <2>2, <2>3, <2>4 DEF Held, Commits
  <1> QED BY <1>2, <1>3, <1>4, MoveKeepsJobs

\* A job about to work has a plan, and does not end with the stop of a remount.
LEMMA WorksOn ==
  ASSUME JobsOK, JobsInv, NEW c \in Clients, Work(c)
  PROVE  job[c].plan # <<>> /\ StopsLast(job[c])
  <1>1. job[c].plan # <<>>
    BY DEF Work, SaveState, WritePool, LookAndWritePool, DropPool, TunePool, StartPool, StopPool,
           MakeSource, WriteBind, DropBind, StartBind, StopBind, AddLine, DropLine, AttachDisk,
           DetachDisk, StartIfDown, ReadLines, WriteLines, Answer, At
  <1> DEFINE j2 == [job[c] EXCEPT !.plan = Tail(@)]
  <1>2. job[c] \in Jobs /\ PlanOK(job[c]) /\ j2.kind = job[c].kind /\ j2.plan = Tail(job[c].plan)
    BY DEF JobsOK, JobsInv, Jobs
  <1> QED BY <1>1, <1>2, PlanTail

LEMMA WorkKeepsJobs ==
  ASSUME FilesOK, JobsOK, JobsInv, NEW c \in Clients, Work(c)
  PROVE  JobsInv'
  <1>0. /\ job[c].plan # <<>>
        /\ \/ GivesUp(c) \/ NoSource(c) \/ Passes(c) \/ LooksIfDown(c) \/ ReadsLines(c)
           \/ SaveState(c) \/ WritePool(c) \/ LookAndWritePool(c) \/ DropPool(c)
           \/ WriteBind(c) \/ DropBind(c) \/ AddLine(c) \/ DropLine(c) \/ WriteLines(c)
    BY WorksOn, WorkCases
  <1>1. CASE GivesUp(c) \/ NoSource(c)
    <2>1. Becomes(c, <<>>) /\ UNCHANGED config
      BY <1>1 DEF GivesUp, NoSource, Still, Becomes
    <2> QED BY <2>1, MoveKeepsJobs
  <1>2. CASE Passes(c)
    BY <1>0, <1>2, OnwardKeepsJobs DEF Passes, Still, Chooses
  <1>3. CASE LooksIfDown(c) \/ ReadsLines(c)
    BY <1>0, <1>3, ChoosesKeepsJobs
  <1>4. CASE LookAndWritePool(c)
    BY <1>4, LookKeepsJobs
  <1>5. CASE SaveState(c)
    BY <1>5, SaveKeepsJobs
  <1>6. CASE WritePool(c) \/ DropPool(c) \/ WriteBind(c) \/ DropBind(c)
             \/ AddLine(c) \/ DropLine(c) \/ WriteLines(c)
    <2>1. Step(c).do # "lookPool" /\ ~At(c, "lookPool")
      BY <1>6 DEF WritePool, DropPool, WriteBind, DropBind, AddLine, DropLine, WriteLines, At, Step
    <2>2. UNCHANGED config
      BY <1>6 DEF WritePool, DropPool, WriteBind, DropBind, AddLine, DropLine, WriteLines
    <2>3. Onward(c)
      BY <1>6, <2>1, Written
    <2> QED BY <1>0, <2>1, <2>2, <2>3, OnwardKeepsJobs
  <1> QED BY <1>0, <1>1, <1>2, <1>3, <1>4, <1>5, <1>6

LEMMA RequestKeepsJobs ==
  ASSUME JobsOK, JobsInv, NEW c \in Clients, TakesLock(c) \/ TakesNone(c) \/ ChangeShares(c)
  PROVE  JobsOK' /\ JobsInv'
  <1>1. NoClient \notin Clients
    BY HostAssumption
  <1>2. ASSUME NEW d \in Clients, lock = NoClient, job'[d] = job[d]
        PROVE  PlanOK(job'[d]) /\ Unlocked(job'[d])
    BY <1>1, <1>2 DEF JobsInv
  <1>3. CASE TakesLock(c)
    <2>1. PICK j : LockedJob(j) /\ Locks(c) /\ Begins(c, j)
      BY <1>3 DEF TakesLock
    <2>2. JobsOK'
      BY <2>1 DEF JobsOK, LockedJob, Sound, Locks, Begins
    <2>3. job'[c] = j /\ UNCHANGED config /\ PlanOK(j) /\ Held(j) /\ j.plan # <<>>
      BY <2>1 DEF JobsOK, Begins, LockedJob, Sound, Held
    <2>4. Held(job[c])'
      BY <2>3, HeldLater
    <2>5. \A d \in Clients \ {c} : PlanOK(job'[d]) /\ Unlocked(job'[d]) /\ lock' # d
      BY <1>2, <2>1 DEF JobsOK, Begins, Locks
    <2> QED BY <2>1, <2>2, <2>3, <2>4, <2>5 DEF JobsInv, Locks, PlanOK, Unlocked
  <1>4. CASE TakesNone(c)
    <2>1. PICK j : FreeJob(j) /\ UNCHANGED lock /\ Begins(c, j)
      BY <1>4 DEF TakesNone
    <2>2. JobsOK'
      BY <2>1 DEF JobsOK, FreeJob, Sound, Begins
    <2>3. job'[c] = j /\ UNCHANGED config /\ PlanOK(j) /\ Unlocked(j)
      BY <2>1 DEF JobsOK, Begins, FreeJob, Sound
    <2>4. lock # c
      BY <2>1 DEF JobsInv, Begins, Idle
    <2>5. ASSUME NEW d \in Clients, d # c
          PROVE  /\ PlanOK(job'[d])
                 /\ IF lock' = d THEN Held(job[d])' /\ job'[d].plan # <<>> ELSE Unlocked(job'[d])
      <3>1. job'[d] = job[d] /\ lock' = lock
        BY <2>1, <2>5 DEF JobsOK, Begins
      <3>2. CASE lock = d
        BY <2>3, <3>1, <3>2, HeldLater DEF JobsInv
      <3>3. CASE lock # d
        BY <3>1, <3>3 DEF JobsInv
      <3> QED BY <3>1, <3>2, <3>3 DEF JobsInv
    <2> QED BY <2>1, <2>2, <2>3, <2>4, <2>5 DEF JobsInv, PlanOK, Unlocked
  <1>5. CASE ChangeShares(c)
    <2>1. lock = NoClient /\ UNCHANGED <<lock, job>>
      BY <1>5 DEF ChangeShares
    <2>2. JobsOK'
      BY <2>1 DEF JobsOK
    <2>3. \A d \in Clients : PlanOK(job'[d]) /\ Unlocked(job'[d]) /\ lock' # d
      BY <1>1, <1>2, <2>1
    <2> QED BY <2>2, <2>3 DEF JobsInv, PlanOK, Unlocked
  <1> QED BY <1>3, <1>4, <1>5

LEMMA DroppedKeepsJobs ==
  ASSUME JobsOK, Dropped
  PROVE  JobsOK' /\ JobsInv'
  <1>1. NoClient \notin Clients
    BY HostAssumption
  <1>2. /\ lock' = NoClient /\ \A c \in Clients : job'[c] = Idle
        /\ job' \in [Clients -> Jobs]
    BY IdleTyped DEF Dropped
  <1>3. JobsOK'
    BY <1>2, IdleTyped DEF JobsOK
  <1>4. \A c \in Clients : PlanOK(job'[c]) /\ Unlocked(job'[c]) /\ lock' # c
    BY <1>1, <1>2, IdleFine
  <1> QED BY <1>3, <1>4 DEF JobsInv, PlanOK, Unlocked

\* What every step of the host keeps.
Kept == FilesOK /\ SavedOK /\ JobsOK /\ JobsInv

LEMMA RequestTyped ==
  ASSUME FilesOK, SavedOK, NEW c \in Clients, TakesLock(c) \/ TakesNone(c) \/ ChangeShares(c)
  PROVE  FilesOK' /\ SavedOK'
  <1>1. CASE TakesLock(c) \/ TakesNone(c)
    <2>1. UNCHANGED <<config, files, marks>>
      BY <1>1 DEF TakesLock, TakesNone, Begins
    <2>2. Still
      BY <2>1 DEF Still, Marked
    <2> QED BY <2>2, StillTyped
  <1>2. CASE ChangeShares(c)
    <2>1. UNCHANGED <<files, marks>> /\ Config!ShareChange
      BY <1>2 DEF ChangeShares
    <2>2. UNCHANGED <<pools, binds, disks>>
      BY <2>1 DEF Config!ShareChange, Config!CreateShare, Config!UpdateShare, Config!DeleteShare
    <2>3. shares' \subseteq ShareChoices /\ Config!OnePerName(shares')
      <3> PICK s \in ShareChoices :
             Config!CreateShare(s) \/ Config!UpdateShare(s) \/ Config!DeleteShare(s)
        BY <2>1 DEF Config!ShareChange
      <3>1. shares' = Config!Put(shares, s) \/ shares' = Config!Without(shares, s.name)
        BY DEF Config!CreateShare, Config!UpdateShare, Config!DeleteShare
      <3>2. shares' \subseteq ShareChoices
        BY <3>1 DEF SavedOK, Config!ConfigTypeOK, Config!Put, Config!Without
      <3>3. Config!OnePerName(shares')
        BY <3>1, PutKeepsNames, WithoutKeepsNames DEF SavedOK, Config!ConfigTypeOK
      <3> QED BY <3>2, <3>3
    <2>4. FilesOK'
      BY <2>1 DEF FilesOK, files, Config!OnePerName
    <2> QED BY <2>2, <2>3, <2>4 DEF SavedOK, Config!ConfigTypeOK, Config!OnePerName
  <1> QED BY <1>1, <1>2

LEMMA HostTyped ==
  ASSUME FilesOK, SavedOK, Restart \/ Reboot
  PROVE  FilesOK' /\ SavedOK'
  <1>1. UNCHANGED <<config, files>> /\ marks' \subseteq marks \cup Watched
    BY DEF Restart, Reboot, Marking
  <1>2. FilesOK'
    BY <1>1 DEF FilesOK, files, Config!OnePerName
  <1> QED BY <1>1, <1>2 DEF SavedOK, config, Config!ConfigTypeOK, Config!OnePerName

LEMMA InitKept == Init => Kept
  <1> SUFFICES ASSUME Init PROVE Kept
    OBVIOUS
  <1>1. pools = {} /\ binds = {} /\ disks = {} /\ shares = {} /\ lock = NoClient
        /\ poolUnits = {} /\ bindUnits = {} /\ fstab = {} /\ enabled = {} /\ marks = {}
    BY DEF Init, Config!Init
  <1>2. FilesOK
    BY <1>1 DEF FilesOK, Config!OnePerName
  <1>3. SavedOK
    BY <1>1, FS_EmptySet DEF SavedOK, Config!ConfigTypeOK, Config!OnePerName
  <1>4. JobsOK
    BY <1>1, IdleTyped DEF JobsOK, Init
  <1>5. JobsInv
    <2>1. \A c \in Clients : job[c] = Idle /\ lock # c
      BY <1>1, HostAssumption DEF Init
    <2> QED BY <2>1, IdleFine DEF JobsInv
  <1> QED BY <1>2, <1>3, <1>4, <1>5 DEF Kept

LEMMA NextKept == Kept /\ [Next]_vars => Kept'
  <1> SUFFICES ASSUME Kept, [Next]_vars PROVE Kept'
    OBVIOUS
  <1>0. FilesOK /\ SavedOK /\ JobsOK /\ JobsInv
    BY DEF Kept
  <1>1. CASE Restart \/ Reboot
    <2>1. Dropped
      BY <1>1 DEF Restart, Reboot
    <2> QED BY <1>0, <1>1, <2>1, HostTyped, DroppedKeepsJobs DEF Kept
  <1>2. ASSUME NEW c \in Clients, Request(c) PROVE Kept'
    BY <1>0, <1>2, RequestCases, RequestTyped, RequestKeepsJobs DEF Kept
  <1>3. ASSUME NEW c \in Clients, Work(c) PROVE Kept'
    BY <1>0, <1>3, WorksOn, WorkTyped, WorkKeepsJobs DEF Kept
  <1>4. CASE UNCHANGED vars
    <2>1. Still /\ UNCHANGED <<config, lock, job>>
      BY <1>4 DEF vars, Still, Marked
    <2>2. FilesOK' /\ SavedOK'
      BY <1>0, <2>1, StillTyped
    <2>3. JobsOK'
      BY <1>0, <2>1 DEF JobsOK
    <2>4. ASSUME NEW c \in Clients
          PROVE  /\ PlanOK(job'[c])
                 /\ IF lock' = c THEN Held(job[c])' /\ job'[c].plan # <<>> ELSE Unlocked(job'[c])
      BY <1>0, <2>1, HeldLater DEF JobsInv
    <2>5. JobsInv'
      BY <2>4 DEF JobsInv, PlanOK, Unlocked
    <2> QED BY <2>2, <2>3, <2>5 DEF Kept
  <1> QED BY <1>1, <1>2, <1>3, <1>4 DEF Next

LEMMA AlwaysKept == Spec => []Kept
  BY InitKept, NextKept, PTL DEF Spec

(* Type correctness: whatever requests overlap, fail or are cut off, there *)
(* is one unit file per pool and per bind mount, each of a pool or a bind  *)
(* mount that users may send, and every request under way has a step left. *)
THEOREM HostTypeCorrect == Spec => []TypeOK
  <1>1. Kept => TypeOK
    BY DEF Kept, FilesOK, Links, SavedOK, JobsOK, TypeOK, Config!OnePerName
  <1> QED BY <1>1, AlwaysKept, PTL

(* The check for shares still holds when a request with the lock unmounts a *)
(* pool or a bind mount to move or delete it: update_pool, delete_pool,     *)
(* update_bind and delete_bind stop it before they write, while the         *)
(* configuration is the one they checked.                                   *)
THEOREM LockedStopsAreSafeHolds == Spec => []LockedStopsAreSafe
  <1>1. Kept => LockedStopsAreSafe
    <2> SUFFICES ASSUME Kept, NEW c \in Clients, StopsUnderShares(c), lock = c PROVE FALSE
      BY DEF LockedStopsAreSafe
    <2>1. /\ job[c].plan # <<>>
          /\ \/ /\ Step(c).do = "stopPool" /\ job[c].kind # "remount"
                /\ Config!BlockersForPath(Step(c).on.mountpoint) # {}
             \/ /\ Step(c).do = "stopBind"
                /\ ~\E b \in job[c].draft.binds : /\ b.name = Step(c).on.name
                                                  /\ b.target = Step(c).on.target
                /\ Config!BlockersForPath(Step(c).on.target) # {}
      BY DEF StopsUnderShares, At, On, Step
    <2>2. Step(c) \in Ahead(job[c].plan) /\ Held(job[c])
      BY <2>1, NextStep DEF Kept, JobsInv
    <2>3. CASE Commits(job[c])
      BY <2>1, <2>2, <2>3 DEF Held, DraftOK, StepOK
    <2>4. CASE ~Commits(job[c])
      BY <2>1, <2>2, <2>4 DEF Held, After
    <2> QED BY <2>3, <2>4
  <1> QED BY <1>1, AlwaysKept, PTL

-----------------------------------------------------------------------------
(* state.json: one request, one step *)

LEMMA SaveIsARequest ==
  ASSUME Kept, NEW c \in Clients, SaveState(c)
  PROVE  [Config!Next]_(Config!config)
  <1> DEFINE d == job[c].draft
  <1>1. job[c].plan # <<>> /\ Step(c).do = "save"
    BY DEF SaveState, At, Step
  <1>2. Prepared(d)
    BY <1>1, CommitsLocked DEF Kept, LockedDos, Held, DraftOK
  <1>3. pools' = d.pools /\ binds' = d.binds /\ disks' = d.disks /\ shares' = d.shares
    BY DEF SaveState
  <1> DEFINE Goal == [Config!Next]_(Config!config)
  <1> HIDE DEF d
  <1>4. CASE d = Now
    BY <1>3, <1>4 DEF Now, Config!config
  <1>5. ASSUME NEW p \in PoolChoices, Config!CanCreatePool(p) \/ Config!CanUpdatePool(p),
               d = [Now EXCEPT !.pools = Config!Put(pools, p)]
        PROVE  Goal
    <2>1. pools' = Config!Put(pools, p) /\ UNCHANGED <<binds, disks, shares>>
      BY <1>3, <1>5 DEF Now
    <2>2. Config!CreatePool(p) \/ Config!UpdatePool(p)
      BY <1>5, <2>1 DEF Config!CreatePool, Config!UpdatePool
    <2> QED BY <2>2 DEF Config!Next, Config!PoolChange
  <1>6. ASSUME NEW p \in PoolChoices, Config!CanReleasePool(p),
               d = [Now EXCEPT !.pools = Config!Without(pools, p.name)]
        PROVE  Goal
    <2>1. pools' = Config!Without(pools, p.name) /\ UNCHANGED <<binds, disks, shares>>
      BY <1>3, <1>6 DEF Now
    <2>2. Config!DeletePool(p)
      BY <1>6, <2>1 DEF Config!DeletePool
    <2> QED BY <2>2 DEF Config!Next, Config!PoolChange
  <1>7. ASSUME NEW new \in SUBSET BindChoices, Config!CanCreateBinds(new),
               d = [Now EXCEPT !.binds = binds \cup new]
        PROVE  Goal
    <2>1. binds' = binds \cup new /\ UNCHANGED <<pools, disks, shares>>
      BY <1>3, <1>7 DEF Now
    <2>2. Config!CreateBinds(new)
      BY <1>7, <2>1 DEF Config!CreateBinds
    <2> QED BY <2>2 DEF Config!Next, Config!BindChange
  <1>8. ASSUME NEW b \in BindChoices, Config!CanUpdateBind(b),
               d = [Now EXCEPT !.binds = Config!Put(binds, b)]
        PROVE  Goal
    <2>1. binds' = Config!Put(binds, b) /\ UNCHANGED <<pools, disks, shares>>
      BY <1>3, <1>8 DEF Now
    <2>2. Config!UpdateBind(b)
      BY <1>8, <2>1 DEF Config!UpdateBind
    <2> QED BY <2>2 DEF Config!Next, Config!BindChange
  <1>9. ASSUME NEW b \in BindChoices, Config!CanReleaseBind(b),
               d = [Now EXCEPT !.binds = Config!Without(binds, b.name)]
        PROVE  Goal
    <2>1. binds' = Config!Without(binds, b.name) /\ UNCHANGED <<pools, disks, shares>>
      BY <1>3, <1>9 DEF Now
    <2>2. Config!DeleteBind(b)
      BY <1>9, <2>1 DEF Config!DeleteBind
    <2> QED BY <2>2 DEF Config!Next, Config!BindChange
  <1>10. ASSUME NEW x \in DiskChoices, Config!CanMountDisk(x),
                d = [Now EXCEPT !.disks = Config!Put(disks, x)]
         PROVE  Goal
    <2>1. disks' = Config!Put(disks, x) /\ UNCHANGED <<pools, binds, shares>>
      BY <1>3, <1>10 DEF Now
    <2>2. Config!MountDisk(x)
      BY <1>10, <2>1 DEF Config!MountDisk
    <2> QED BY <2>2 DEF Config!Next, Config!DiskChange
  <1>11. ASSUME NEW x \in DiskChoices, Config!CanReleaseDisk(x),
                d = [Now EXCEPT !.disks = Config!Without(disks, x.name)]
         PROVE  Goal
    <2>1. disks' = Config!Without(disks, x.name) /\ UNCHANGED <<pools, binds, shares>>
      BY <1>3, <1>11 DEF Now
    <2>2. Config!UnmountDisk(x)
      BY <1>11, <2>1 DEF Config!UnmountDisk
    <2> QED BY <2>2 DEF Config!Next, Config!DiskChange
  <1> HIDE DEF Goal
  <1>12. Goal
    <2>1. CASE \E p \in PoolChoices : /\ Config!CanCreatePool(p) \/ Config!CanUpdatePool(p)
                                      /\ d = [Now EXCEPT !.pools = Config!Put(pools, p)]
      BY <2>1, <1>5
    <2>2. CASE d = Now
      BY <2>2, <1>4 DEF Goal
    <2>3. CASE \E new \in SUBSET BindChoices : /\ Config!CanCreateBinds(new)
                                               /\ d = [Now EXCEPT !.binds = binds \cup new]
      BY <2>3, <1>7
    <2> QED BY <1>2, <1>6, <1>8, <1>9, <1>10, <1>11, <2>1, <2>2, <2>3 DEF Prepared
  <1> QED BY <1>12 DEF Goal

LEMMA StepIsARequest == Kept /\ [Next]_vars => [Config!Next]_(Config!config)
  <1> SUFFICES ASSUME Kept, [Next]_vars PROVE [Config!Next]_(Config!config)
    OBVIOUS
  <1> DEFINE Goal == [Config!Next]_(Config!config)
  <1>1. UNCHANGED config => Goal
    BY DEF config, Config!config
  <1>2. CASE Restart \/ Reboot
    BY <1>1, <1>2 DEF Restart, Reboot
  <1>3. ASSUME NEW c \in Clients, Request(c) PROVE Goal
    <2>1. CASE TakesLock(c) \/ TakesNone(c)
      BY <1>1, <2>1 DEF TakesLock, TakesNone, Begins
    <2>2. CASE ChangeShares(c)
      BY <2>2 DEF ChangeShares, Config!Next
    <2> QED BY <1>3, <2>1, <2>2, RequestCases DEF Kept
  <1>4. ASSUME NEW c \in Clients, Work(c) PROVE Goal
    <2>1. CASE SaveState(c)
      BY <2>1, SaveIsARequest
    <2>2. CASE ~SaveState(c)
      <3>1. UNCHANGED config
        BY <1>4, <2>2
           DEF Work, WritePool, LookAndWritePool, DropPool, TunePool, StartPool, StopPool,
               MakeSource, WriteBind, DropBind, StartBind, StopBind, AddLine, DropLine, AttachDisk,
               DetachDisk, StartIfDown, ReadLines, WriteLines, Answer
      <3> QED BY <1>1, <3>1
    <2> QED BY <2>1, <2>2
  <1>5. CASE UNCHANGED vars
    BY <1>1, <1>5 DEF vars
  <1>6. CASE Next
    <2>1. CASE \E c \in Clients : Request(c) \/ Work(c)
      BY <2>1, <1>3, <1>4
    <2> QED BY <1>2, <1>6, <2>1 DEF Next
  <1> QED BY <1>5, <1>6

(* The refinement: whatever requests overlap, fail or are cut off, each    *)
(* change of state.json is one request of StorageConfig, checked and made  *)
(* on the configuration it changes (state_store.lock, held from load to    *)
(* save), and a crash leaves what was saved last.                          *)
THEOREM HostImplementsConfig == Spec => ImplementsConfig
  <1>1. Init => Config!Init
    BY DEF Init
  <1> QED BY <1>1, AlwaysKept, StepIsARequest, PTL DEF Spec, ImplementsConfig, Config!Spec

-----------------------------------------------------------------------------
(* The files follow state.json *)

LEMMA OwnersLater ==
  ASSUME NEW c \in Clients, UNCHANGED config, lock' = c,
         Halfway(job'[c], poolUnits', Units', fstab')
  PROVE  (\E d \in Clients : Owns(d)') => FilesInv'
  <1>1. pools' = pools /\ binds' = binds /\ disks' = disks
    BY DEF config
  <1>2. Halfway(job[c], poolUnits, Units, fstab)'
    BY <1>1 DEF Halfway, Matches, Pending
  <1> QED BY <1>2 DEF FilesInv, Owns

LEMMA MatchLater ==
  ASSUME poolUnits' = pools', Units' = binds', disks' \subseteq fstab',
         \A c \in Clients : ~Owns(c)'
  PROVE  FilesInv'
  BY DEF FilesInv, Matches

\* A step that changes no file, and no request that is changing them.
LEMMA SameFiles ==
  ASSUME FilesInv, UNCHANGED config, poolUnits' = poolUnits, Units' = Units, fstab' = fstab,
         Clean' => Clean,
         \A c \in Clients : (Owns(c)' <=> Owns(c)) /\ (Owns(c) => job'[c] = job[c])
  PROVE  FilesInv'
  <1>1. pools' = pools /\ binds' = binds /\ disks' = disks
    BY DEF config
  <1> SUFFICES ASSUME Clean' PROVE /\ \A c \in Clients : Owns(c)' => Halfway(job[c], poolUnits, Units, fstab)'
                                   /\ (\A c \in Clients : ~Owns(c)') => Matches(poolUnits, Units, fstab)'
    BY DEF FilesInv
  <1>2. ASSUME NEW c \in Clients, Owns(c)' PROVE Halfway(job[c], poolUnits, Units, fstab)'
    <2>1. Halfway(job[c], poolUnits, Units, fstab) /\ job'[c] = job[c]
      BY <1>2 DEF FilesInv
    <2> QED BY <1>1, <2>1 DEF Halfway, Matches, Pending
  <1>3. ASSUME \A c \in Clients : ~Owns(c)' PROVE Matches(poolUnits, Units, fstab)'
    <2>1. Matches(poolUnits, Units, fstab)
      BY <1>3 DEF FilesInv
    <2> QED BY <1>1, <2>1 DEF Matches
  <1> QED BY <1>2, <1>3

LEMMA MarkedClean == Marked => (Clean' => Clean)
  BY DEF Marked, Clean

LEMMA UnitsStay == ASSUME UNCHANGED bindUnits PROVE Units' = Units
  BY DEF Units

LEMMA StayFiles == ASSUME Still PROVE poolUnits' = poolUnits /\ Units' = Units /\ fstab' = fstab
  BY UnitsStay DEF Still, files

\* Which units a write leaves.
LEMMA UnitsWritten ==
  ASSUME FilesOK, NEW c \in Clients
  PROVE  /\ WriteBind(c) => Units' = {b \in Units : b.name # On(c).name} \cup {On(c)}
         /\ DropBind(c) => Units' = {b \in Units : b.name # On(c).name}
         /\ \A a, b \in Units : a.name = b.name => a = b
  <1>1. \A name : {v.bind : v \in WithoutUnit(name)} = {b \in Units : b.name # name}
    BY DEF WithoutUnit, Units
  <1>2. ASSUME WriteBind(c) PROVE Units' = {b \in Units : b.name # On(c).name} \cup {On(c)}
    <2> DEFINE unit == BindUnit(On(c), job[c].draft.pools)
    <2>1. unit.bind = On(c) /\ bindUnits' = WithoutUnit(On(c).name) \cup {unit}
      BY <1>2 DEF BindUnit, WriteBind
    <2> HIDE DEF unit
    <2>2. Units' = {v.bind : v \in WithoutUnit(On(c).name)} \cup {On(c)}
      BY <2>1 DEF Units
    <2> QED BY <1>1, <2>2
  <1>3. ASSUME DropBind(c) PROVE Units' = {b \in Units : b.name # On(c).name}
    BY <1>1, <1>3 DEF DropBind, Units
  <1>4. \A a, b \in Units : a.name = b.name => a = b
    BY DEF FilesOK, Units
  <1> QED BY <1>2, <1>3, <1>4

\* Writing what is there already.
LEMMA PutAgain ==
  ASSUME NEW S, Config!OnePerName(S), NEW x \in S
  PROVE  Config!Put(S, x) = S /\ {y \in S : y.name # x.name} \cup {x} = S
  BY DEF Config!OnePerName, Config!Put, Config!Without

LEMMA PutTwice ==
  ASSUME NEW S, NEW x
  PROVE  /\ Config!Put(Config!Put(S, x), x) = Config!Put(S, x)
         /\ Config!Without(Config!Without(S, x.name), x.name) = Config!Without(S, x.name)
  BY DEF Config!Put, Config!Without

\* A request without the lock writes what is there already, or leaves a mark.
LEMMA UnlockedWrites ==
  ASSUME Kept, FilesInv, {"cut", "stale"} \subseteq Watched, NEW c \in Clients, ~Owns(c),
         WritePool(c) \/ WriteBind(c) \/ WriteLines(c), Clean'
  PROVE  poolUnits' = poolUnits /\ Units' = Units /\ fstab' = fstab
  <1>0. FilesOK /\ SavedOK /\ JobsOK /\ JobsInv
    BY DEF Kept
  <1>1. job[c].plan # <<>> /\ Step(c).do \in {"writePool", "writeBind", "writeLines"}
    BY DEF WritePool, WriteBind, WriteLines, At, Step
  <1>2. lock # c
    <2>1. Step(c) \in Ahead(job[c].plan)
      BY <1>0, <1>1, NextStep
    <2> QED BY <1>0, <1>1, <2>1 DEF JobsInv, Held, Owns, After
  <1>3. Clean
    BY DEF WritePool, WriteBind, WriteLines, Marking, Clean
  <1>4. \/ \E d \in Clients : Owns(d) /\ lock = d /\ Halfway(job[d], poolUnits, Units, fstab)
        \/ Matches(poolUnits, Units, fstab)
    BY <1>3 DEF FilesInv, Owns
  <1>5. CASE WritePool(c)
    <2>1. On(c) \in pools /\ \A d \in Clients : lock = d => On(c) \in job[d].draft.pools
      <3>1. ~Outdated(c, On(c), pools, LAMBDA d : d.pools)
        BY <1>5 DEF WritePool, Marking, Clean
      <3> QED BY <1>2, <3>1 DEF Outdated
    <2>2. On(c) \in poolUnits
      BY <1>4, <2>1 DEF Halfway, Matches
    <2>3. poolUnits' = poolUnits
      BY <1>0, <1>5, <2>2, PutAgain DEF WritePool, FilesOK
    <2> QED BY <1>5, <2>3, UnitsStay DEF WritePool
  <1>6. CASE WriteBind(c)
    <2>1. On(c) \in binds /\ \A d \in Clients : lock = d => On(c) \in job[d].draft.binds
      <3>1. ~Outdated(c, On(c), binds, LAMBDA d : d.binds)
        BY <1>6 DEF WriteBind, Marking, Clean
      <3> QED BY <1>2, <3>1 DEF Outdated
    <2>2. On(c) \in Units
      BY <1>4, <2>1 DEF Halfway, Matches
    <2>3. Units' = Units
      BY <1>0, <1>6, <2>2, UnitsWritten
    <2> QED BY <1>6, <2>3 DEF WriteBind
  <1>7. CASE WriteLines(c)
    <2>1. fstab' = fstab
      BY <1>7 DEF WriteLines, Marking, Clean
    <2> QED BY <1>7, <2>1, UnitsStay DEF WriteLines
  <1> QED BY <1>5, <1>6, <1>7

\* A step keeps from the lock and from committing a request that does neither.
LEMMA OwnersStay ==
  ASSUME Kept, NEW c \in Clients, Work(c), ~Owns(c)
  PROVE  /\ \A d \in Clients : (Owns(d)' <=> Owns(d)) /\ (Owns(d) => job'[d] = job[d])
         /\ UNCHANGED config
         /\ \/ Still
            \/ WritePool(c) \/ WriteBind(c) \/ WriteLines(c)
  <1>0. FilesOK /\ SavedOK /\ JobsOK /\ JobsInv /\ NoClient \notin Clients
    BY HostAssumption DEF Kept
  <1>1. job[c].plan # <<>> /\ StopsLast(job[c])
    BY <1>0, WorksOn
  <1>2. Step(c) \in Ahead(job[c].plan)
    BY <1>0, <1>1, NextStep
  <1>3. Step(c).do \notin LockedDos
    <2>1. CASE lock = c
      BY <1>0, <1>2, <2>1 DEF JobsInv, Held, Owns, After, LockedDos
    <2>2. CASE lock # c
      BY <1>0, <1>2, <2>2 DEF JobsInv, Unlocked
    <2> QED BY <2>1, <2>2
  <1>4. \/ GivesUp(c) \/ NoSource(c) \/ Passes(c) \/ LooksIfDown(c) \/ ReadsLines(c)
        \/ WritePool(c) \/ WriteBind(c) \/ WriteLines(c)
    BY <1>0, <1>1, <1>3, WorkCases
       DEF SaveState, LookAndWritePool, DropPool, DropBind, AddLine, DropLine, At, Step, LockedDos
  <1>5. \E plan : Becomes(c, plan) /\ (lock = c => plan = <<>> \/ plan = Tail(job[c].plan))
    <2>1. CASE GivesUp(c) \/ NoSource(c)
      BY <2>1 DEF GivesUp, NoSource, Becomes
    <2>2. CASE Passes(c)
      BY <2>2 DEF Passes, Onward
    <2>3. CASE LooksIfDown(c) \/ ReadsLines(c)
      <3>1. lock # c
        BY <1>0, <1>1, <2>3, ChoosesUnlocked DEF LooksIfDown, ReadsLines, At, Step
      <3> QED BY <2>3, <3>1 DEF LooksIfDown, ReadsLines
    <2>4. CASE WritePool(c) \/ WriteBind(c) \/ WriteLines(c)
      <3>1. ~At(c, "lookPool")
        BY <2>4 DEF WritePool, WriteBind, WriteLines, At
      <3> QED BY <1>0, <2>4, <3>1, Written DEF Onward
    <2> QED BY <1>4, <2>1, <2>2, <2>3, <2>4
  <1>6. PICK plan : Becomes(c, plan) /\ (lock = c => plan = <<>> \/ plan = Tail(job[c].plan))
    BY <1>5
  <1>7. ASSUME NEW d \in Clients, d # c
        PROVE  job'[d] = job[d] /\ (lock' = d <=> lock = d)
    BY <1>0, <1>6, <1>7 DEF Becomes, End, JobsOK
  <1>8. ~Owns(c)'
    <2>1. CASE plan = <<>> \/ lock # c
      BY <1>0, <1>6, <2>1 DEF Becomes, End, Owns
    <2>2. CASE plan # <<>> /\ lock = c
      <3>1. job'[c].plan = Tail(job[c].plan)
        BY <1>0, <1>6, <2>2, BecomesJob
      <3>2. Ahead(job[c].plan) = {Step(c)} \cup Ahead(Tail(job[c].plan))
        BY <1>0, <1>1, NextStep
      <3> QED BY <2>2, <3>1, <3>2 DEF Owns, Commits
    <2> QED BY <2>1, <2>2
  <1>9. UNCHANGED config /\ (Still \/ WritePool(c) \/ WriteBind(c) \/ WriteLines(c))
    BY <1>4 DEF GivesUp, NoSource, Passes, LooksIfDown, ReadsLines, Still, WritePool, WriteBind,
                WriteLines
  <1> QED BY <1>7, <1>8, <1>9 DEF Owns, Commits

LEMMA OthersWork ==
  ASSUME Kept, FilesInv, {"cut", "stale"} \subseteq Watched, NEW c \in Clients, Work(c), ~Owns(c)
  PROVE  FilesInv'
  <1> SUFFICES ASSUME Clean' PROVE FilesInv'
    BY DEF FilesInv
  <1>1. /\ \A d \in Clients : (Owns(d)' <=> Owns(d)) /\ (Owns(d) => job'[d] = job[d])
        /\ UNCHANGED config
        /\ Still \/ WritePool(c) \/ WriteBind(c) \/ WriteLines(c)
    BY OwnersStay
  <1>2. Clean
    BY <1>1, MarkedClean DEF Still, WritePool, WriteBind, WriteLines, Marking, Marked
  <1>3. poolUnits' = poolUnits /\ Units' = Units /\ fstab' = fstab
    BY <1>1, StayFiles, UnlockedWrites
  <1> QED BY <1>1, <1>2, <1>3, SameFiles

LEMMA RequestsMatch ==
  ASSUME Kept, FilesInv, NEW c \in Clients, TakesLock(c) \/ TakesNone(c) \/ ChangeShares(c)
  PROVE  FilesInv'
  <1>0. JobsOK /\ JobsInv /\ NoClient \notin Clients
    BY HostAssumption DEF Kept
  <1> SUFFICES ASSUME Clean' PROVE FilesInv'
    BY DEF FilesInv
  <1>1. Clean /\ poolUnits' = poolUnits /\ Units' = Units /\ fstab' = fstab
    BY UnitsStay DEF TakesLock, TakesNone, Begins, ChangeShares, files, Clean
  <1>2. CASE TakesLock(c)
    <2>1. PICK j : LockedJob(j) /\ Locks(c) /\ Begins(c, j)
      BY <1>2 DEF TakesLock
    <2>2. UNCHANGED config /\ lock' = c /\ job'[c] = j /\ lock = NoClient
      BY <1>0, <2>1 DEF Locks, Begins, JobsOK
    <2>3. Matches(poolUnits, Units, fstab)
      BY <1>0, <1>1, <2>2 DEF FilesInv, Owns
    <2>4. Pending(j, poolUnits, Units, fstab)
      BY <2>1, <2>3 DEF LockedJob, Pending, Matches
    <2>5. Halfway(j, poolUnits, Units, fstab)
      BY <2>3, <2>4 DEF Halfway, Matches
    <2>6. Owns(c)'
      BY <2>1, <2>2 DEF Owns, LockedJob, Commits
    <2> QED BY <1>1, <2>2, <2>5, <2>6, OwnersLater
  <1>3. CASE TakesNone(c)
    <2>1. PICK j : FreeJob(j) /\ UNCHANGED lock /\ Begins(c, j)
      BY <1>3 DEF TakesNone
    <2>2. UNCHANGED config /\ lock # c /\ \A d \in Clients \ {c} : job'[d] = job[d]
      BY <1>0, <2>1 DEF Begins, JobsOK, JobsInv, Idle
    <2>3. \A d \in Clients : (Owns(d)' <=> Owns(d)) /\ (Owns(d) => job'[d] = job[d])
      BY <2>1, <2>2 DEF Owns, Commits
    <2> QED BY <1>1, <2>2, <2>3, SameFiles
  <1>4. CASE ChangeShares(c)
    <2>1. /\ UNCHANGED <<lock, job>> /\ lock = NoClient
          /\ UNCHANGED <<pools, binds, disks>>
      BY <1>4 DEF ChangeShares, Config!ShareChange, Config!CreateShare, Config!UpdateShare,
                  Config!DeleteShare
    <2>2. \A d \in Clients : ~Owns(d) /\ ~Owns(d)'
      BY <1>0, <2>1 DEF Owns
    <2>3. Matches(poolUnits, Units, fstab)
      BY <1>1, <2>2 DEF FilesInv
    <2> QED BY <1>1, <2>1, <2>2, <2>3, MatchLater DEF Matches
  <1> QED BY <1>2, <1>3, <1>4

\* A restart leaves a mark, and so does a reboot that cuts a request off.
LEMMA HostMatches ==
  ASSUME Kept, FilesInv, {"cut", "stale"} \subseteq Watched, Restart \/ Reboot
  PROVE  FilesInv'
  <1>0. NoClient \notin Clients
    BY HostAssumption
  <1> SUFFICES ASSUME Clean' PROVE FilesInv'
    BY DEF FilesInv
  <1>1. ~Restart
    BY DEF Restart, Marking, Clean
  <1>2. Quiet /\ Clean
    BY <1>1 DEF Reboot, Clean
  <1>3. \A c \in Clients : ~Owns(c)
    <2>1. Ahead(Idle.plan) = {}
      BY IdleTyped, AheadEmpty
    <2> QED BY <1>2, <2>1 DEF Quiet, Owns, Commits
  <1>4. Matches(poolUnits, Units, fstab)
    BY <1>2, <1>3 DEF FilesInv
  <1>5. \A c \in Clients : ~Owns(c)'
    BY <1>0, <1>1 DEF Reboot, Dropped, Owns
  <1>6. UNCHANGED <<config, files>> /\ Units' = Units
    BY <1>1, UnitsStay DEF Reboot, files
  <1> QED BY <1>4, <1>5, <1>6, MatchLater DEF Matches, config, files

LEMMA Owner ==
  ASSUME Kept, NEW c \in Clients, Owns(c)
  PROVE  /\ DraftOK(job[c]) /\ job[c] \in Jobs /\ Proper(job[c].draft) /\ job[c].plan # <<>>
         /\ PlanOK(job[c]) /\ Step(c) \in Ahead(job[c].plan) /\ StepOK(job[c], Step(c))
  <1>1. job[c] \in Jobs /\ Proper(job[c].draft) /\ PlanOK(job[c]) /\ job[c].plan # <<>>
    BY DEF Kept, JobsOK, JobsInv, Owns
  <1>2. DraftOK(job[c])
    BY DEF Kept, JobsInv, Owns, Held
  <1>3. Step(c) \in Ahead(job[c].plan)
    BY <1>1, NextStep DEF Kept
  <1> QED BY <1>1, <1>2, <1>3 DEF DraftOK

\* The request that changes the files goes on to its next step.
LEMMA OwnerMoves ==
  ASSUME Kept, NEW c \in Clients, Owns(c), Onward(c), Step(c).do \notin {"save", "lookPool"}
  PROVE  /\ lock' = c /\ job'[c].kind = job[c].kind /\ job'[c].draft = job[c].draft
         /\ Ahead(job[c].plan) = {Step(c)} \cup Ahead(job'[c].plan)
         /\ \A y \in Ahead(job'[c].plan) : Follows(job[c].kind, Step(c), y)
         /\ Owns(c)'
  <1> DEFINE rest == Tail(job[c].plan)
  <1>0. JobsOK /\ job[c] \in Jobs /\ job[c].plan # <<>> /\ PlanOK(job[c])
    BY Owner DEF Kept
  <1>1. Ahead(job[c].plan) = {Step(c)} \cup Ahead(rest)
    BY <1>0, NextStep
  <1>2. rest # <<>>
    BY <1>1, AheadEmpty DEF Owns, Commits
  <1>3. Becomes(c, rest)
    BY DEF Onward
  <1> HIDE DEF rest
  <1>4. /\ lock' = c /\ job'[c].kind = job[c].kind /\ job'[c].draft = job[c].draft
        /\ job'[c].plan = rest
    BY <1>0, <1>2, <1>3, BecomesJob DEF Becomes, Owns
  <1>5. \A y \in Ahead(job'[c].plan) : Follows(job[c].kind, Step(c), y)
    BY <1>0, <1>4, PlanTail DEF Step, rest
  <1>6. Owns(c)'
    BY <1>1, <1>4 DEF Owns, Commits
  <1> QED BY <1>1, <1>4, <1>5, <1>6

LEMMA OwnerStops ==
  ASSUME Kept, FilesInv, {"cut", "stale"} \subseteq Watched, NEW c \in Clients, Owns(c),
         GivesUp(c) \/ NoSource(c)
  PROVE  FilesInv'
  <1> SUFFICES ASSUME Clean' PROVE FilesInv'
    BY DEF FilesInv
  <1>1. /\ poolUnits' = poolUnits /\ Units' = Units /\ fstab' = fstab
        /\ UNCHANGED config /\ Clean /\ End(c)
    BY StayFiles, MarkedClean DEF GivesUp, NoSource, Still
  <1>2. Halfway(job[c], poolUnits, Units, fstab)
    BY <1>1 DEF FilesInv
  <1>3. Step(c) \in Ahead(job[c].plan) /\ StepOK(job[c], Step(c))
    BY Owner
  <1>4. ASSUME GivesUp(c) PROVE Matches(poolUnits, Units, fstab)
    BY <1>2, <1>3, <1>4 DEF GivesUp, Halfway
  <1>5. Matches(poolUnits, Units, fstab)
    <2>1. ASSUME NoSource(c) PROVE Matches(poolUnits, Units, fstab)
      <3>1. Step(c).do = "makeSource"
        BY <2>1 DEF NoSource, At, Step
      <3>2. ~\E v \in bindUnits : v.bind \in job[c].draft.binds \ binds
        BY <2>1 DEF NoSource, Clean
      <3>3. Units \cap (job[c].draft.binds \ binds) = {}
        BY <3>2 DEF Units
      <3>4. binds \subseteq Units
        BY <1>2, <1>3, <3>1 DEF Halfway
      <3>5. job[c].draft.pools = pools /\ job[c].draft.disks = disks
        BY <1>3, <3>1 DEF StepOK
      <3>6. /\ poolUnits \in {pools, job[c].draft.pools} /\ Units \subseteq binds \cup job[c].draft.binds
            /\ disks \cap job[c].draft.disks \subseteq fstab
        BY <1>2 DEF Halfway
      <3> QED BY <3>3, <3>4, <3>5, <3>6 DEF Matches
    <2> QED BY <1>4, <2>1
  <1>6. \A d \in Clients : ~Owns(d)'
    BY <1>1, HostAssumption DEF End, Owns
  <1> QED BY <1>1, <1>5, <1>6, MatchLater DEF Matches, config

LEMMA OwnerPasses ==
  ASSUME Kept, FilesInv, NEW c \in Clients, Owns(c), Passes(c)
  PROVE  FilesInv'
  <1> SUFFICES ASSUME Clean' PROVE FilesInv'
    BY DEF FilesInv
  <1>1. /\ poolUnits' = poolUnits /\ Units' = Units /\ fstab' = fstab
        /\ UNCHANGED config /\ Clean
    BY StayFiles, MarkedClean DEF Passes, Still
  <1>2. Halfway(job[c], poolUnits, Units, fstab)
    BY <1>1 DEF FilesInv
  <1>3. Step(c).do \notin Writes \cup Chooses /\ Onward(c)
    BY DEF Passes
  <1>4. /\ lock' = c /\ job'[c].draft = job[c].draft /\ Owns(c)'
        /\ Ahead(job[c].plan) = {Step(c)} \cup Ahead(job'[c].plan)
    BY <1>3, OwnerMoves DEF Writes
  <1>5. Pending(job'[c], poolUnits, Units, fstab)
    <2>1. Pending(job[c], poolUnits, Units, fstab)
      BY <1>2 DEF Halfway
    <2>2. \A s \in Ahead(job[c].plan) : s.do \in Writes => s \in Ahead(job'[c].plan)
      BY <1>3, <1>4
    <2> QED BY <1>4, <2>1, <2>2 DEF Pending, Writes
  <1>6. Halfway(job'[c], poolUnits', Units', fstab')
    BY <1>1, <1>2, <1>4, <1>5 DEF Halfway
  <1> QED BY <1>1, <1>4, <1>6, OwnersLater

\* What comes after a save writes nothing.
LEMMA SaveEnds ==
  ASSUME Kept, NEW c \in Clients, Owns(c), SaveState(c)
  PROVE  /\ \A s \in Ahead(job[c].plan) : s.do \in After \cup {"save"}
         /\ \A d \in Clients : ~Owns(d)'
  <1>0. FilesOK /\ JobsOK
    BY DEF Kept
  <1> DEFINE rest == Tail(job[c].plan)
  <1>1. Step(c).do = "save" /\ ~At(c, "lookPool")
    BY DEF SaveState, At, Step
  <1>2. Becomes(c, rest)
    BY <1>0, <1>1, Written DEF Onward
  <1>3. Ahead(job[c].plan) = {Step(c)} \cup Ahead(rest) /\ \A y \in Ahead(rest) : y.do \in After
    <2>1. job[c] \in Jobs /\ job[c].plan # <<>> /\ PlanOK(job[c])
      BY Owner
    <2> DEFINE j2 == [job[c] EXCEPT !.plan = rest]
    <2>2. j2.kind = job[c].kind /\ j2.plan = rest
      BY <2>1 DEF Jobs
    <2>3. /\ Ahead(job[c].plan) = {Step(c)} \cup Ahead(j2.plan)
          /\ \A y \in Ahead(j2.plan) : Follows(job[c].kind, Step(c), y)
      BY <2>1, <2>2, PlanTail DEF Step
    <2> QED BY <1>1, <2>2, <2>3 DEF Follows
  <1>4. ASSUME NEW d \in Clients PROVE ~Owns(d)'
    <2>1. CASE rest = <<>>
      BY <1>2, <2>1, HostAssumption DEF Becomes, End, Owns
    <2>2. CASE rest # <<>>
      <3>1. lock' = c /\ job'[c].plan = rest
        BY <1>0, <1>2, <2>2, BecomesJob DEF Becomes, Owns
      <3> QED BY <1>3, <3>1 DEF Owns, Commits, After
    <2> QED BY <2>1, <2>2
  <1> QED BY <1>1, <1>3, <1>4

LEMMA OwnerSaves ==
  ASSUME Kept, FilesInv, NEW c \in Clients, Owns(c), SaveState(c)
  PROVE  FilesInv'
  <1> SUFFICES ASSUME Clean' PROVE FilesInv'
    BY DEF FilesInv
  <1>1. Clean /\ poolUnits' = poolUnits /\ Units' = Units /\ fstab' = fstab
    BY UnitsStay DEF SaveState, files, Clean
  <1>2. Halfway(job[c], poolUnits, Units, fstab)
    BY <1>1 DEF FilesInv
  <1>3. Pending(job[c], poolUnits, Units, fstab)
    BY <1>2 DEF Halfway
  <1>4. /\ poolUnits = job[c].draft.pools /\ job[c].draft.binds \subseteq Units
        /\ Units \subseteq job[c].draft.binds /\ job[c].draft.disks \subseteq fstab
    BY <1>3, SaveEnds DEF Pending, After
  <1>5. pools' = job[c].draft.pools /\ binds' = job[c].draft.binds /\ disks' = job[c].draft.disks
    BY DEF SaveState
  <1> QED BY <1>1, <1>4, <1>5, SaveEnds, MatchLater

\* What the owner of the files knows when it writes one and goes on.
Wrote(c) ==
  /\ Clean /\ UNCHANGED config /\ Owns(c)' /\ lock' = c
  /\ job'[c].kind = job[c].kind /\ job'[c].draft = job[c].draft
  /\ Ahead(job[c].plan) = {Step(c)} \cup Ahead(job'[c].plan)
  /\ \A y \in Ahead(job'[c].plan) : Follows(job[c].kind, Step(c), y)
  /\ job[c].kind \in Changes \/ (job[c].kind = "remount" /\ job[c].draft = Now)
  /\ StepOK(job[c], Step(c)) /\ Proper(job[c].draft)
  /\ Halfway(job[c], poolUnits, Units, fstab)

LEMMA OwnerWrote ==
  ASSUME Kept, FilesInv, NEW c \in Clients, Owns(c), Clean',
         \/ WritePool(c) \/ DropPool(c) \/ WriteBind(c) \/ DropBind(c) \/ AddLine(c) \/ DropLine(c)
  PROVE  Wrote(c)
  <1>1. /\ ~At(c, "lookPool") /\ Step(c).do \notin {"save", "lookPool"} /\ UNCHANGED config
    BY DEF WritePool, DropPool, WriteBind, DropBind, AddLine, DropLine, At, Step
  <1>2. Onward(c) /\ Marked
    BY <1>1, Written DEF Kept
  <1>3. Clean
    BY <1>2, MarkedClean
  <1>4. /\ DraftOK(job[c]) /\ Proper(job[c].draft) /\ StepOK(job[c], Step(c))
    BY Owner
  <1>5. Halfway(job[c], poolUnits, Units, fstab)
    BY <1>3 DEF FilesInv
  <1> QED BY <1>1, <1>2, <1>3, <1>4, <1>5, OwnerMoves DEF Wrote, DraftOK

\* Nothing that is left may end the request, unless it is a remount.
LEMMA NothingFails ==
  ASSUME NEW c, Wrote(c), Step(c).do \in Touches, \E s \in Ahead(job'[c].plan) : Fails(s)
  PROVE  job[c].draft = Now /\ Matches(poolUnits, Units, fstab)
  <1>1. job[c].kind \notin Changes
    BY DEF Wrote, Follows
  <1> QED BY <1>1 DEF Wrote, Halfway

LEMMA OwnerWritesPool ==
  ASSUME Kept, NEW c \in Clients, Wrote(c), WritePool(c) \/ DropPool(c)
  PROVE  FilesInv'
  <1>1. Units' = Units /\ fstab' = fstab /\ Step(c).do \in {"writePool", "dropPool"}
    BY UnitsStay DEF WritePool, DropPool, At, Step
  <1>2. Halfway(job[c], poolUnits, Units, fstab) /\ StepOK(job[c], Step(c))
    BY DEF Wrote
  <1>3. poolUnits' = job[c].draft.pools
    <2>1. poolUnits \in {pools, job[c].draft.pools}
      BY <1>2 DEF Halfway
    <2>2. CASE WritePool(c)
      <3>1. poolUnits' = Config!Put(poolUnits, On(c)) /\ job[c].draft.pools = Config!Put(pools, On(c))
        BY <1>2, <2>2 DEF WritePool, StepOK, At, On, Step
      <3> QED BY <2>1, <3>1, PutTwice
    <2>3. CASE DropPool(c)
      <3>1. /\ poolUnits' = Config!Without(poolUnits, On(c).name)
            /\ job[c].draft.pools = Config!Without(pools, On(c).name)
        BY <1>2, <2>3 DEF DropPool, StepOK, At, On, Step
      <3> QED BY <2>1, <3>1, PutTwice
    <2> QED BY <2>2, <2>3
  <1>4. ASSUME \E s \in Ahead(job'[c].plan) : Fails(s)
        PROVE  Matches(poolUnits', Units', fstab')
    <2>1. job[c].draft.pools = pools /\ Matches(poolUnits, Units, fstab)
      BY <1>1, <1>4, NothingFails DEF Touches, Now
    <2> QED BY <1>1, <1>3, <2>1 DEF Matches
  <1>5. Pending(job'[c], poolUnits', Units', fstab')
    <2>1. Pending(job[c], poolUnits, Units, fstab)
      BY <1>2 DEF Halfway
    <2>2. \A s \in Ahead(job[c].plan) :
            s.do \in {"writeBind", "dropBind", "addLine"} => s \in Ahead(job'[c].plan)
      BY <1>1 DEF Wrote
    <2>3. job'[c].draft = job[c].draft
      BY DEF Wrote
    <2> QED BY <1>1, <1>3, <2>1, <2>2, <2>3 DEF Pending
  <1>6. Halfway(job'[c], poolUnits', Units', fstab')
    <2>1. Ahead(job'[c].plan) \subseteq Ahead(job[c].plan) /\ job'[c].draft = job[c].draft
      BY DEF Wrote
    <2> QED BY <1>1, <1>2, <1>3, <1>4, <1>5, <2>1 DEF Halfway
  <1> QED BY <1>6, OwnersLater DEF Wrote

LEMMA OwnerWritesLine ==
  ASSUME Kept, NEW c \in Clients, Wrote(c), AddLine(c) \/ DropLine(c)
  PROVE  FilesInv'
  <1> DEFINE draft == job[c].draft
  <1>1. /\ Units' = Units /\ poolUnits' = poolUnits /\ Step(c).do \in {"addLine", "dropLine"}
    BY UnitsStay DEF AddLine, DropLine, At, Step
  <1>2. Halfway(job[c], poolUnits, Units, fstab) /\ StepOK(job[c], Step(c))
    BY DEF Wrote
  <1>3. draft.disks \subseteq fstab' /\ (disks \subseteq fstab /\ Matches(poolUnits, Units, fstab)
          /\ (\E s \in Ahead(job'[c].plan) : Fails(s)) => disks \subseteq fstab')
        /\ disks \cap draft.disks \subseteq fstab'
    <2>1. disks \cap draft.disks \subseteq fstab
      BY <1>2 DEF Halfway
    <2>2. CASE AddLine(c)
      <3>1. /\ fstab' = Config!Put(fstab, On(c)) /\ draft.disks = Config!Put(disks, On(c))
            /\ ~Config!Has(disks, On(c).name)
        BY <1>2, <2>2 DEF AddLine, StepOK, At, On, Step
      <3> HIDE DEF draft
      <3> QED BY <2>1, <3>1 DEF Config!Put, Config!Without, Config!Has
    <2>3. CASE DropLine(c)
      <3>1. /\ fstab' = Config!Without(fstab, On(c).name)
            /\ draft.disks = Config!Without(disks, On(c).name)
        BY <1>2, <2>3 DEF DropLine, StepOK, At, On, Step
      <3>2. (\E s \in Ahead(job'[c].plan) : Fails(s)) => disks = draft.disks
        <4>1. Step(c).do \in Touches
          BY <2>3 DEF DropLine, At, Step, Touches
        <4> QED BY <4>1, NothingFails DEF Now
      <3> HIDE DEF draft
      <3>3. draft.disks \subseteq fstab' /\ disks \cap draft.disks \subseteq fstab'
        BY <2>1, <3>1 DEF Config!Without
      <3> QED BY <3>2, <3>3
    <2> QED BY <2>2, <2>3
  <1>4. Ahead(job'[c].plan) \subseteq Ahead(job[c].plan) /\ job'[c].draft = draft
    BY DEF Wrote
  <1>5. ASSUME \E s \in Ahead(job'[c].plan) : Fails(s)
        PROVE  Matches(poolUnits', Units', fstab')
    <2>1. Matches(poolUnits, Units, fstab)
      BY <1>2, <1>4, <1>5 DEF Halfway
    <2> QED BY <1>1, <1>3, <1>5, <2>1 DEF Matches
  <1>6. Pending(job'[c], poolUnits', Units', fstab')
    <2>1. Pending(job[c], poolUnits, Units, fstab)
      BY <1>2 DEF Halfway
    <2>2. \A s \in Ahead(job[c].plan) :
            s.do \in {"writePool", "lookPool", "dropPool", "writeBind", "dropBind"}
              => s \in Ahead(job'[c].plan)
      BY <1>1 DEF Wrote
    <2> QED BY <1>1, <1>3, <1>4, <2>1, <2>2 DEF Pending
  <1>7. Halfway(job'[c], poolUnits', Units', fstab')
    BY <1>1, <1>2, <1>3, <1>4, <1>5, <1>6 DEF Halfway
  <1> QED BY <1>7, OwnersLater DEF Wrote

LEMMA OwnerWritesBind ==
  ASSUME Kept, NEW c \in Clients, Wrote(c), WriteBind(c) \/ DropBind(c)
  PROVE  FilesInv'
  <1> DEFINE draft == job[c].draft
             name == On(c).name
             left == {b \in Units : b.name # name}
  <1>1. /\ poolUnits' = poolUnits /\ fstab' = fstab /\ Step(c).do \in {"writeBind", "dropBind"}
        /\ On(c) = Step(c).on
    BY DEF WriteBind, DropBind, At, On, Step
  <1>2. Halfway(job[c], poolUnits, Units, fstab) /\ StepOK(job[c], Step(c))
    BY DEF Wrote
  <1>3. Ahead(job'[c].plan) \subseteq Ahead(job[c].plan) /\ job'[c].draft = draft
    BY DEF Wrote
  <1>4. \/ WriteBind(c) /\ Units' = left \cup {On(c)} /\ On(c) \in draft.binds
           /\ Step(c).do = "writeBind" /\ (job[c].kind = "create" => ~Config!Has(binds, name))
        \/ DropBind(c) /\ Units' = left /\ ~Config!Has(draft.binds, name) /\ Step(c).do = "dropBind"
    <2>1. CASE WriteBind(c)
      BY <1>1, <1>2, <2>1, UnitsWritten DEF WriteBind, Kept, StepOK, At, Step
    <2>2. CASE DropBind(c)
      BY <1>1, <1>2, <2>2, UnitsWritten DEF DropBind, Kept, StepOK, At, Step
    <2> QED BY <2>1, <2>2
  <1>5. \A a, b \in draft.binds : a.name = b.name => a = b
    BY DEF Wrote, Proper, Config!OnePerName
  <1>6. /\ binds \cap draft.binds \subseteq Units /\ Units \subseteq binds \cup draft.binds
    BY <1>2 DEF Halfway
  <1>7. /\ binds \cap draft.binds \subseteq Units' /\ Units' \subseteq binds \cup draft.binds
    BY <1>4, <1>5, <1>6 DEF Config!Has
  <1>8. ASSUME \E s \in Ahead(job'[c].plan) : Fails(s)
        PROVE  Matches(poolUnits', Units', fstab')
    <2>1. draft.binds = binds /\ Matches(poolUnits, Units, fstab)
      BY <1>1, <1>8, NothingFails DEF Touches, Now
    <2> QED BY <1>1, <1>7, <2>1 DEF Matches
  <1>9. ASSUME \E s \in Ahead(job'[c].plan) : s.do = "makeSource"
        PROVE  binds \subseteq Units'
    <2>1. binds \subseteq Units
      BY <1>2, <1>3, <1>9 DEF Halfway
    <2>2. Step(c).do = "writeBind" /\ job[c].kind = "create"
      BY <1>1, <1>9 DEF Wrote, Follows
    <2> QED BY <1>4, <2>1, <2>2 DEF Config!Has
  <1>10. Pending(job[c], poolUnits, Units, fstab)
    BY <1>2 DEF Halfway
  <1>11. \A s \in Ahead(job[c].plan) : s # Step(c) => s \in Ahead(job'[c].plan)
    BY DEF Wrote
  <1> HIDE DEF draft, name, left
  <1>12. ASSUME NEW b \in draft.binds \ Units'
         PROVE  \E s \in Ahead(job'[c].plan) : s.do = "writeBind" /\ s.on = b
    <2>1. b \notin Units
      BY <1>4, <1>5 DEF left, name, Config!Has
    <2>2. PICK s \in Ahead(job[c].plan) : s.do = "writeBind" /\ s.on = b
      BY <1>10, <2>1 DEF Pending, draft
    <2>3. s # Step(c)
      BY <1>1, <1>4, <2>2
    <2> QED BY <1>11, <2>2, <2>3
  <1>13. ASSUME NEW b \in Units' \ draft.binds
         PROVE  \E s \in Ahead(job'[c].plan) : s.do \in {"writeBind", "dropBind"} /\ s.on.name = b.name
    <2>1. b \in Units /\ b.name # name
      BY <1>4 DEF left
    <2>2. PICK s \in Ahead(job[c].plan) : s.do \in {"writeBind", "dropBind"} /\ s.on.name = b.name
      BY <1>10, <2>1 DEF Pending, draft
    <2>3. s # Step(c)
      BY <1>1, <2>1, <2>2 DEF name
    <2> QED BY <1>11, <2>2, <2>3
  <1>14. Pending(job'[c], poolUnits', Units', fstab')
    <2>1. \A s \in Ahead(job[c].plan) :
            s.do \in {"writePool", "lookPool", "dropPool", "addLine"} => s \in Ahead(job'[c].plan)
      BY <1>1, <1>11
    <2> QED BY <1>1, <1>3, <1>10, <1>12, <1>13, <2>1 DEF Pending, draft
  <1>15. Halfway(job'[c], poolUnits', Units', fstab')
    BY <1>1, <1>2, <1>3, <1>7, <1>8, <1>9, <1>14 DEF Halfway, draft
  <1> QED BY <1>15, OwnersLater DEF Wrote

\* The look at a pool is the last step of its plan: what follows is put there.
LEMMA LookMoves ==
  ASSUME Kept, NEW c \in Clients, Owns(c), LookAndWritePool(c)
  PROVE  /\ Step(c).do = "lookPool" /\ On(c) = Step(c).on /\ Ahead(job[c].plan) = {Step(c)}
         /\ lock' = c /\ job'[c].kind = job[c].kind /\ job'[c].draft = job[c].draft /\ Owns(c)'
         /\ \E x : /\ x.do \in {"tunePool", "mountPool"} /\ (x.do = "mountPool" => x.must = FALSE)
                  /\ Ahead(job'[c].plan) = {[do |-> "save"], x}
  <1>0. FilesOK /\ JobsOK
    BY DEF Kept
  <1>1. At(c, "lookPool") /\ Step(c).do = "lookPool" /\ On(c) = Step(c).on
    BY DEF LookAndWritePool, At, Step, On
  <1>2. job[c] \in Jobs /\ job[c].plan # <<>> /\ PlanOK(job[c])
    BY Owner
  <1>3. On(c) \in PoolChoices
    BY <1>0, <1>1, <1>2, NextStep, StepFields DEF PoolDos
  <1>4. Ahead(job[c].plan) = {Step(c)}
    <2> DEFINE j2 == [job[c] EXCEPT !.plan = Tail(@)]
    <2>1. j2.kind = job[c].kind /\ j2.plan = Tail(job[c].plan)
      BY <1>2 DEF Jobs
    <2>2. /\ Ahead(job[c].plan) = {Step(c)} \cup Ahead(j2.plan)
          /\ \A y \in Ahead(j2.plan) : Follows(job[c].kind, Step(c), y)
      BY <1>2, <2>1, PlanTail DEF Step
    <2>3. Ahead(j2.plan) = {}
      BY <1>1, <2>2 DEF Follows, Leads
    <2> QED BY <2>2, <2>3
  <1>5. PICK x : /\ x.do \in {"tunePool", "mountPool"} /\ (x.do = "mountPool" => x.must = FALSE)
                 /\ \E last : Plan("update", last, {x}) /\ Becomes(c, Save \o last)
    <2>1. CASE Becomes(c, Save \o Do("tunePool", On(c)))
      <3>1. Plan("update", Do("tunePool", On(c)), {[do |-> "tunePool", on |-> On(c)]})
        BY <1>3, OneStepPlans DEF PoolDos
      <3> QED BY <2>1, <3>1
    <2>2. CASE Becomes(c, Save \o Try("mountPool", On(c)))
      <3>1. Plan("update", Try("mountPool", On(c)), {[do |-> "mountPool", on |-> On(c), must |-> FALSE]})
        BY <1>3, StartPlans
      <3> QED BY <2>2, <3>1
    <2> QED BY <1>0, <1>1, <2>1, <2>2, Written
  <1>6. PICK last : Plan("update", last, {x}) /\ Becomes(c, Save \o last)
    BY <1>5
  <1> DEFINE s == [do |-> "save"]
             plan == Save \o last
  <1>7. Save \in Seq(Steps) /\ Ahead(Save) = {s} /\ s.do = "save"
    BY SaveTyped
  <1>8. Ahead(plan) = {s, x}
    BY <1>6, <1>7, AheadConcat DEF Plan
  <1>9. plan # <<>>
    BY <1>8, AheadEmpty
  <1> HIDE DEF plan
  <1>10. /\ lock' = c /\ job'[c].draft = job[c].draft /\ job'[c].kind = job[c].kind
         /\ job'[c].plan = plan
    BY <1>0, <1>6, <1>9, BecomesJob DEF Becomes, Owns, plan
  <1>11. Owns(c)'
    BY <1>7, <1>8, <1>10 DEF Owns, Commits
  <1> QED BY <1>1, <1>4, <1>5, <1>8, <1>10, <1>11

LEMMA OwnerLooks ==
  ASSUME Kept, FilesInv, NEW c \in Clients, Owns(c), LookAndWritePool(c)
  PROVE  FilesInv'
  <1> SUFFICES ASSUME Clean' PROVE FilesInv'
    BY DEF FilesInv
  <1>1. /\ UNCHANGED config /\ Units' = Units /\ fstab' = fstab
        /\ poolUnits' = Config!Put(poolUnits, On(c))
    BY UnitsStay DEF LookAndWritePool
  <1>2. Clean
    BY MarkedClean, Written DEF Kept
  <1>3. Halfway(job[c], poolUnits, Units, fstab)
    BY <1>2 DEF FilesInv
  <1>4. /\ Step(c).do = "lookPool" /\ On(c) = Step(c).on /\ Ahead(job[c].plan) = {Step(c)}
        /\ lock' = c /\ job'[c].draft = job[c].draft /\ Owns(c)'
    BY LookMoves
  <1>5. poolUnits' = job[c].draft.pools
    <2>1. job[c].draft.pools = Config!Put(pools, On(c)) /\ poolUnits \in {pools, job[c].draft.pools}
      BY <1>3, <1>4, Owner DEF StepOK, Halfway
    <2> QED BY <1>1, <2>1, PutTwice
  <1>6. \A y \in Ahead(job'[c].plan) : ~Fails(y) /\ y.do # "makeSource"
    <2> DEFINE s == [do |-> "save"]
    <2>1. PICK x : /\ x.do \in {"tunePool", "mountPool"} /\ (x.do = "mountPool" => x.must = FALSE)
                   /\ Ahead(job'[c].plan) = {s, x}
      BY LookMoves
    <2>2. s.do = "save"
      OBVIOUS
    <2> HIDE DEF s
    <2> QED BY <2>1, <2>2 DEF Fails
  <1>7. Pending(job'[c], poolUnits', Units', fstab')
    <2>1. Pending(job[c], poolUnits, Units, fstab)
      BY <1>3 DEF Halfway
    <2> QED BY <1>1, <1>4, <1>5, <2>1 DEF Pending
  <1>8. Halfway(job'[c], poolUnits', Units', fstab')
    BY <1>1, <1>3, <1>4, <1>5, <1>6, <1>7 DEF Halfway
  <1> QED BY <1>1, <1>4, <1>8, OwnersLater

LEMMA OwnerWorks ==
  ASSUME Kept, FilesInv, {"cut", "stale"} \subseteq Watched, NEW c \in Clients, Work(c), Owns(c)
  PROVE  FilesInv'
  <1>0. FilesOK /\ SavedOK /\ JobsOK /\ JobsInv
    BY DEF Kept
  <1>1. \/ GivesUp(c) \/ NoSource(c) \/ Passes(c) \/ LooksIfDown(c) \/ ReadsLines(c)
        \/ SaveState(c) \/ WritePool(c) \/ LookAndWritePool(c) \/ DropPool(c)
        \/ WriteBind(c) \/ DropBind(c) \/ AddLine(c) \/ DropLine(c) \/ WriteLines(c)
    BY <1>0, WorksOn, WorkCases
  <1>2. ~LooksIfDown(c) /\ ~ReadsLines(c)
    BY <1>0, Owner, ChoosesUnlocked DEF LooksIfDown, ReadsLines, At, Step, Owns
  <1>3. ~WriteLines(c)
    BY Owner DEF WriteLines, At, Step, StepOK
  <1>4. ASSUME WritePool(c) \/ DropPool(c) \/ WriteBind(c) \/ DropBind(c) \/ AddLine(c) \/ DropLine(c)
        PROVE  FilesInv'
    <2>1. CASE Clean'
      BY <1>4, <2>1, OwnerWrote, OwnerWritesPool, OwnerWritesBind, OwnerWritesLine
    <2>2. CASE ~Clean'
      BY <2>2 DEF FilesInv
    <2> QED BY <2>1, <2>2
  <1> QED BY <1>1, <1>2, <1>3, <1>4, OwnerStops, OwnerPasses, OwnerSaves, OwnerLooks

LEMMA NextMatches ==
  Kept /\ FilesInv /\ {"cut", "stale"} \subseteq Watched /\ [Next]_vars => FilesInv'
  <1> SUFFICES ASSUME Kept, FilesInv, {"cut", "stale"} \subseteq Watched, [Next]_vars
               PROVE  FilesInv'
    OBVIOUS
  <1>1. CASE Restart \/ Reboot
    BY <1>1, HostMatches
  <1>2. ASSUME NEW c \in Clients, Request(c) PROVE FilesInv'
    BY <1>2, RequestCases, RequestsMatch DEF Kept
  <1>3. ASSUME NEW c \in Clients, Work(c) PROVE FilesInv'
    BY <1>3, OwnerWorks, OthersWork
  <1>4. CASE UNCHANGED vars
    <2>1. /\ UNCHANGED <<config, lock, job, marks>>
          /\ poolUnits' = poolUnits /\ Units' = Units /\ fstab' = fstab
      BY <1>4, UnitsStay DEF vars, files
    <2> QED BY <2>1, SameFiles DEF Owns, Clean, Commits
  <1> QED BY <1>1, <1>2, <1>3, <1>4 DEF Next

-----------------------------------------------------------------------------
(* What StorageConfig promises, on the running host *)

Saved == INSTANCE StorageConfigProofs
           WITH pools <- pools, binds <- binds, disks <- disks, shares <- shares

LEMMA ConfigIsSaved ==
  /\ Saved!ChoicesOK
  /\ Config!Spec => Saved!Spec
  /\ Saved!BindsApart <=> Config!BindsApart
  /\ Saved!GuardSeesEveryShare <=> Config!GuardSeesEveryShare
  /\ Saved!FlatKeepsShares => Config!FlatKeepsShares
  <1> USE DEF Saved!Path, Config!Path, Saved!IsPrefix, Config!IsPrefix, Saved!Covers, Config!Covers,
              Saved!Nested, Config!Nested, Saved!Moved, Config!Moved,
              Saved!Has, Config!Has, Saved!Without, Config!Without, Saved!Put, Config!Put,
              Saved!OnePerName, Config!OnePerName, Saved!config, Config!config,
              Saved!Presented, Config!Presented, Saved!BlockersForPath, Config!BlockersForPath
  <1>1. Saved!ChoicesOK
    BY HostAssumption DEF HostAssumption, Saved!ChoicesOK, Config!ChoicesOK
  <1>2. Config!Init => Saved!Init
    BY DEF Config!Init, Saved!Init
  <1>3. Config!PoolChange => Saved!PoolChange
    BY DEF Config!PoolChange, Saved!PoolChange, Config!PoolConflict, Saved!PoolConflict,
           Config!CanCreatePool, Saved!CanCreatePool, Config!CreatePool, Saved!CreatePool,
           Config!CanUpdatePool, Saved!CanUpdatePool, Config!UpdatePool, Saved!UpdatePool,
           Config!CanReleasePool, Saved!CanReleasePool, Config!DeletePool, Saved!DeletePool,
           Config!BindsUsingPath, Saved!BindsUsingPath
  <1>4. Config!BindChange => Saved!BindChange
    BY DEF Config!BindChange, Saved!BindChange, Config!BindConflict, Saved!BindConflict,
           Config!BindsClash, Saved!BindsClash, Config!TargetsClash, Saved!TargetsClash,
           Config!CanCreateBinds, Saved!CanCreateBinds, Config!CreateBinds, Saved!CreateBinds,
           Config!CanUpdateBind, Saved!CanUpdateBind, Config!UpdateBind, Saved!UpdateBind,
           Config!CanReleaseBind, Saved!CanReleaseBind, Config!DeleteBind, Saved!DeleteBind
  <1>5. Config!DiskChange => Saved!DiskChange
    BY DEF Config!DiskChange, Saved!DiskChange, Config!PoolsUsingPath, Saved!PoolsUsingPath,
           Config!BindsUsingPath, Saved!BindsUsingPath,
           Config!CanMountDisk, Saved!CanMountDisk, Config!MountDisk, Saved!MountDisk,
           Config!CanReleaseDisk, Saved!CanReleaseDisk, Config!UnmountDisk, Saved!UnmountDisk
  <1>6. Config!ShareChange => Saved!ShareChange
    BY DEF Config!ShareChange, Saved!ShareChange, Config!CreateShare, Saved!CreateShare,
           Config!UpdateShare, Saved!UpdateShare, Config!DeleteShare, Saved!DeleteShare
  <1>7. [Config!Next]_(Config!config) => [Saved!Next]_(Saved!config)
    BY <1>3, <1>4, <1>5, <1>6 DEF Config!Next, Saved!Next
  <1>8. Config!Spec => Saved!Spec
    BY <1>2, <1>7, PTL DEF Config!Spec, Saved!Spec
  <1>9. Saved!BindsApart <=> Config!BindsApart
    BY DEF Saved!BindsApart, Config!BindsApart
  <1>10. /\ Saved!Flat <=> Config!Flat
         /\ \A p, q : Saved!RestsOn(p, q) <=> Config!RestsOn(p, q)
    BY DEF Saved!Flat, Config!Flat, Saved!RestsOn, Config!RestsOn, Saved!Behind, Config!Behind
  <1>11. Saved!GuardSeesEveryShare <=> Config!GuardSeesEveryShare
    BY <1>10 DEF Saved!GuardSeesEveryShare, Config!GuardSeesEveryShare
  <1>12. Saved!PoolsGone = Config!PoolsGone /\ Saved!BindsGone = Config!BindsGone
    BY DEF Saved!PoolsGone, Config!PoolsGone, Saved!BindsGone, Config!BindsGone
  <1>13. [Saved!Flat => \A s \in shares \cap shares', q \in Saved!PoolsGone \cup Saved!BindsGone :
                          ~Saved!RestsOn(s.path, q)]_(Saved!config)
         => [Config!Flat => \A s \in shares \cap shares', q \in Config!PoolsGone \cup Config!BindsGone :
                              ~Config!RestsOn(s.path, q)]_(Config!config)
    BY <1>10, <1>12
  <1>14. Saved!FlatKeepsShares => Config!FlatKeepsShares
    BY <1>13, PTL DEF Saved!FlatKeepsShares, Config!FlatKeepsShares
  <1> QED BY <1>1, <1>8, <1>9, <1>11, <1>14

(* On the running host the saved configuration keeps every promise of      *)
(* StorageConfig: bind mounts stay apart, the guards of core/deps.py name  *)
(* every share that rests on a path, and no save takes the storage of a    *)
(* share that stays, whatever requests overlap, fail or are cut off.       *)
THEOREM HostKeepsPromises ==
  Spec => [](Config!BindsApart /\ Config!GuardSeesEveryShare) /\ Config!FlatKeepsShares
  <1>1. Saved!Spec => []Saved!BindsApart
    BY ConfigIsSaved, Saved!BindsApartHolds
  <1>2. Saved!Spec => []Saved!GuardSeesEveryShare
    BY ConfigIsSaved, Saved!GuardSeesEveryShareHolds
  <1>3. Saved!Spec => Saved!FlatKeepsShares
    BY ConfigIsSaved, Saved!FlatKeepsSharesHolds
  <1> QED BY <1>1, <1>2, <1>3, HostImplementsConfig, ConfigIsSaved, PTL DEF ImplementsConfig

-----------------------------------------------------------------------------
(* The mount table *)

\* A mount that systemd makes of a file: a line of fstab, or a unit.
FromFiles(m) ==
  \/ \E d \in fstab : m = DiskMount(d)
  \/ \E u \in poolUnits : m = PoolMount(u, TRUE)
  \/ \E v \in bindUnits : \E table : GuardPasses(v, table) /\ m = BindMount(v.bind, table)

MountsOK ==
  \A m \in mounted :
    \/ \E d \in DiskChoices : m = DiskMount(d)
    \/ \E p, q \in PoolChoices, u \in BOOLEAN : m = PoolMount([p EXCEPT !.branches = q.branches], u)
    \/ \E b \in BindChoices : \E table : m = BindMount(b, table)

LEMMA MountKinds ==
  /\ \A d : DiskMount(d).kind = "disk"
  /\ \A p, u : PoolMount(p, u).kind = "pool"
  /\ \A b, table : BindMount(b, table).kind = "bind"
  BY DEF DiskMount, PoolMount, BindMount

LEMMA StartedPool ==
  ASSUME NEW name, NEW table \in AfterStart(name)
  PROVE  /\ mounted \subseteq table /\ \A m \in table \ mounted : FromFiles(m)
         /\ \A m \in table \ mounted : m.kind # "bind"
         /\ \A m \in table \ mounted : m.kind = "pool" => m.name = name
  <1>1. CASE table = mounted
    BY <1>1
  <1>2. CASE table # mounted
    <2>1. PICK u \in poolUnits :
             u.name = name /\ table = mounted \cup Pulled(u.branches) \cup {PoolMount(u, TRUE)}
      BY <1>2 DEF AfterStart
    <2>2. \A m \in Pulled(u.branches) : \E d \in fstab : m = DiskMount(d)
      BY DEF Pulled, Needed
    <2> QED BY <2>1, <2>2 DEF FromFiles, PoolMount, DiskMount
  <1> QED BY <1>1, <1>2

LEMMA StartedBind ==
  ASSUME NEW v \in bindUnits, NEW table \in AfterBindStart(v)
  PROVE  /\ mounted \subseteq table /\ \A m \in table \ mounted : FromFiles(m)
         /\ Active(table, "bind", v.bind.name)
  <1>1. CASE Active(mounted, "bind", v.bind.name)
    BY <1>1 DEF AfterBindStart
  <1>2. CASE ~Active(mounted, "bind", v.bind.name)
    <2> DEFINE ready == IF v.requires = {} THEN {mounted \cup Pulled(v.guard)}
                        ELSE UNION {AfterStart(n) : n \in v.requires}
    <2>1. PICK t \in ready : GuardPasses(v, t) /\ table = t \cup {BindMount(v.bind, t)}
      BY <1>2 DEF AfterBindStart
    <2>2. \A m \in Pulled(v.guard) : \E d \in fstab : m = DiskMount(d)
      BY DEF Pulled, Needed
    <2>3. mounted \subseteq t /\ \A m \in t \ mounted : FromFiles(m)
      <3>1. CASE v.requires = {}
        BY <2>1, <2>2, <3>1 DEF FromFiles
      <3>2. CASE v.requires # {}
        BY <2>1, <3>2, StartedPool
      <3> QED BY <3>1, <3>2
    <2>4. FromFiles(BindMount(v.bind, t))
      BY <2>1 DEF FromFiles
    <2>5. BindMount(v.bind, t).kind = "bind" /\ BindMount(v.bind, t).name = v.bind.name
      BY DEF BindMount
    <2> QED BY <2>1, <2>3, <2>4, <2>5 DEF Active
  <1> QED BY <1>1, <1>2

LEMMA BootedFromFiles ==
  ASSUME NEW found \in SUBSET fstab
  PROVE  \A m \in Booted(found) : FromFiles(m)
  <1> DEFINE live  == {u \in poolUnits : PoolWanted(u.name) /\ Needed(u.branches) \subseteq found}
             ready == {DiskMount(d) : d \in found} \cup {PoolMount(u, TRUE) : u \in live}
             up    == {v \in bindUnits : /\ BindWanted(v.bind.name)
                                         /\ v.requires \subseteq {u.name : u \in live}
                                         /\ GuardPasses(v, ready)}
  <1>1. Booted(found) = ready \cup {BindMount(v.bind, ready) : v \in up}
    BY DEF Booted
  <1>2. \A m \in ready : FromFiles(m)
    BY DEF FromFiles
  <1>3. \A v \in up : FromFiles(BindMount(v.bind, ready))
    BY DEF FromFiles
  <1> QED BY <1>1, <1>2, <1>3

\* Where the mounts of a step come from.
Tuned(c, m) ==
  /\ At(c, "tunePool")
  /\ \E x \in mounted : /\ x.kind = "pool" /\ x.at = On(c).mountpoint
                        /\ m = [x EXCEPT !.from = On(c).branches]

Direct(c, m) ==
  /\ At(c, "mountPool") /\ m = PoolMount(On(c), FALSE)
  /\ "direct" \in Watched => "direct" \in marks'

LEMMA UmountTakes ==
  ASSUME NEW c, NEW path, Umount(c, path)
  PROVE  mounted' \subseteq mounted
  BY DEF Umount, Unmounted

LEMMA WorkMounts ==
  ASSUME NEW c \in Clients, Work(c)
  PROVE  /\ \A m \in mounted' \ mounted : FromFiles(m) \/ Tuned(c, m) \/ Direct(c, m)
         /\ UNCHANGED mounted \/ UNCHANGED <<config, files>>
  <1>1. CASE \/ SaveState(c) \/ WritePool(c) \/ LookAndWritePool(c) \/ DropPool(c) \/ MakeSource(c)
             \/ WriteBind(c) \/ DropBind(c) \/ AddLine(c) \/ DropLine(c)
             \/ StartIfDown(c) \/ ReadLines(c) \/ WriteLines(c) \/ Answer(c)
    <2>1. UNCHANGED mounted
      BY <1>1 DEF SaveState, WritePool, LookAndWritePool, DropPool, MakeSource, WriteBind,
                  DropBind, AddLine, DropLine, StartIfDown, ReadLines, WriteLines, Answer
    <2> QED BY <2>1
  <1>2. CASE TunePool(c)
    BY <1>2 DEF TunePool, Tuned
  <1>3. CASE StartPool(c)
    <2>1. CASE mounted' \in AfterStart(On(c).name)
      BY <1>3, <2>1, StartedPool DEF StartPool
    <2>2. CASE mounted' = mounted \cup {PoolMount(On(c), FALSE)} /\ Marking({"direct"})
      BY <1>3, <2>2 DEF StartPool, Direct, Marking
    <2>3. CASE UNCHANGED mounted
      BY <2>3
    <2> QED BY <1>3, <2>1, <2>2, <2>3 DEF StartPool
  <1>4. CASE StopPool(c)
    <2>1. mounted' \subseteq mounted
      BY <1>4, UmountTakes DEF StopPool
    <2> QED BY <1>4, <2>1 DEF StopPool
  <1>5. CASE StartBind(c)
    <2>1. CASE UNCHANGED mounted
      BY <2>1
    <2>2. CASE ~UNCHANGED mounted
      <3>1. PICK v \in bindUnits : mounted' \in AfterBindStart(v)
        BY <1>5, <2>2 DEF StartBind
      <3> QED BY <1>5, <3>1, StartedBind DEF StartBind
    <2> QED BY <2>1, <2>2
  <1>6. CASE StopBind(c)
    BY <1>6 DEF StopBind, Unmounted
  <1>7. CASE AttachDisk(c)
    BY <1>7 DEF AttachDisk, FromFiles
  <1>8. CASE DetachDisk(c)
    BY <1>8, UmountTakes DEF DetachDisk
  <1> QED BY <1>1, <1>2, <1>3, <1>4, <1>5, <1>6, <1>7, <1>8 DEF Work

LEMMA RequestMounts ==
  ASSUME NEW c \in Clients, Request(c)
  PROVE  UNCHANGED <<mounted, files, marks>>
  <1>1. \A kind, plan, draft : Accept(c, kind, plan, draft) => UNCHANGED <<mounted, files, marks>>
    BY DEF Accept
  <1>2. ASSUME Fix(c) PROVE UNCHANGED <<mounted, files, marks>>
    BY <1>1, <1>2 DEF Fix, FixPoolUnit, FixPassthrough, FixBindUnit, FixBindSource, FixDiskMount,
                  FixNoatime, AcceptLocked, AcceptUnlocked
  <1>3. ASSUME NEW p \in PoolChoices,
               \/ CreatePool(c, p) \/ DeletePool(c, p) \/ RemountPool(c, p)
               \/ MountPool(c, p) \/ UnmountPool(c, p) \/ \E old \in pools : UpdatePool(c, p, old)
        PROVE  UNCHANGED <<mounted, files, marks>>
    BY <1>1, <1>3 DEF CreatePool, DeletePool, RemountPool, MountPool, UnmountPool, UpdatePool,
                      AcceptLocked, AcceptUnlocked
  <1>4. ASSUME \/ \E new \in SUBSET BindChoices, make \in BOOLEAN : CreateBinds(c, new, make)
               \/ \E b \in BindChoices, old \in binds, make \in BOOLEAN : UpdateBind(c, b, old, make)
               \/ \E b \in BindChoices : DeleteBind(c, b) \/ StartBindNow(c, b) \/ StopBindNow(c, b)
        PROVE  UNCHANGED <<mounted, files, marks>>
    BY <1>1, <1>4 DEF CreateBinds, UpdateBind, DeleteBind, StartBindNow, StopBindNow,
                      AcceptLocked, AcceptUnlocked
  <1>5. ASSUME NEW d \in DiskChoices, MountDisk(c, d) \/ UnmountDisk(c, d)
        PROVE  UNCHANGED <<mounted, files, marks>>
    BY <1>1, <1>5 DEF MountDisk, UnmountDisk, AcceptLocked
  <1>6. ASSUME ChangeShares(c) PROVE UNCHANGED <<mounted, files, marks>>
    BY <1>6 DEF ChangeShares
  <1> QED BY <1>2, <1>3, <1>4, <1>5, <1>6 DEF Request

-----------------------------------------------------------------------------
(* A guarded bind mount shows its own content *)

GuardsCover == \A v \in bindUnits : \A g \in v.guard : Covers(g, v.bind.source)

\* m is what the unit v mounts, made with the mounts v guards in place.
MountedBy(m, v) ==
  v.bind.name = m.name /\ v.bind.target = m.at /\ v.bind.source = m.from /\ v.guard \subseteq m.through

BindsUp ==
  "kept" \notin marks =>
    \A m \in mounted : m.kind = "bind" => \E v \in bindUnits : MountedBy(m, v)

GuardInv == GuardsCover /\ BindsUp

LEMMA GuardedMount ==
  ASSUME GuardsCover, NEW m, FromFiles(m), m.kind = "bind"
  PROVE  \E v \in bindUnits : MountedBy(m, v)
  <1>0. PICK v \in bindUnits : \E table : GuardPasses(v, table) /\ m = BindMount(v.bind, table)
    BY DEF FromFiles, DiskMount, PoolMount
  <1>1. PICK table : GuardPasses(v, table) /\ m = BindMount(v.bind, table)
    BY <1>0
  <1>2. m.name = v.bind.name /\ m.at = v.bind.target /\ m.from = v.bind.source
        /\ m.through = Through(table, v.bind.source)
    BY <1>1 DEF BindMount
  <1>3. v.guard \subseteq Through(table, v.bind.source)
    BY <1>1 DEF GuardPasses, MountedIn, GuardsCover, Through
  <1> QED BY <1>2, <1>3 DEF MountedBy

LEMMA GuardsWritten ==
  ASSUME GuardsCover, NEW c \in Clients, Work(c)
  PROVE  GuardsCover'
  <1>1. CASE UNCHANGED bindUnits
    BY <1>1 DEF GuardsCover
  <1>2. CASE WriteBind(c)
    <2>1. PICK P : bindUnits' = WithoutUnit(On(c).name) \cup {BindUnit(On(c), P)}
      BY <1>2 DEF WriteBind
    <2>2. \A g \in BindUnit(On(c), P).guard : Covers(g, On(c).source)
      BY DEF BindUnit, MountRoot, Deepest
    <2>3. BindUnit(On(c), P).bind = On(c)
      BY DEF BindUnit
    <2> QED BY <2>1, <2>2, <2>3 DEF GuardsCover, WithoutUnit
  <1>3. CASE DropBind(c)
    BY <1>3 DEF GuardsCover, DropBind, WithoutUnit
  <1>4. UNCHANGED bindUnits \/ WriteBind(c) \/ DropBind(c)
    BY DEF Work, SaveState, WritePool, LookAndWritePool, DropPool, TunePool, StartPool, StopPool,
           MakeSource, StartBind, StopBind, AddLine, DropLine, AttachDisk,
           DetachDisk, StartIfDown, ReadLines, WriteLines, Answer, files
  <1> QED BY <1>1, <1>2, <1>3, <1>4

\* A unit that is written or removed is that of no mount.
LEMMA OtherUnitsStay ==
  ASSUME BindsUp, "kept" \in Watched, NEW c \in Clients, WriteBind(c) \/ DropBind(c)
  PROVE  BindsUp'
  <1> SUFFICES ASSUME "kept" \notin marks', NEW m \in mounted', m.kind = "bind"
               PROVE  \E v \in bindUnits' : MountedBy(m, v)
    BY DEF BindsUp, MountedBy
  <1>1. mounted' = mounted /\ "kept" \notin marks
    BY DEF WriteBind, DropBind, Marking
  <1>2. PICK v \in bindUnits : MountedBy(m, v)
    BY <1>1 DEF BindsUp
  <1>3. ~Active(mounted, "bind", On(c).name)
    BY DEF WriteBind, DropBind, Marking
  <1>4. v \in WithoutUnit(On(c).name)
    BY <1>1, <1>2, <1>3 DEF Active, MountedBy, WithoutUnit
  <1>5. WithoutUnit(On(c).name) \subseteq bindUnits'
    BY DEF WriteBind, DropBind
  <1> QED BY <1>2, <1>4, <1>5

LEMMA BindsStay ==
  ASSUME MountsOK, GuardInv, "kept" \in Watched, NEW c \in Clients, Work(c)
  PROVE  BindsUp'
  <1>1. CASE WriteBind(c) \/ DropBind(c)
    BY <1>1, OtherUnitsStay DEF GuardInv
  <1>2. CASE ~(WriteBind(c) \/ DropBind(c))
    <2>1. UNCHANGED bindUnits /\ marks \subseteq marks'
      BY <1>2 DEF Work, SaveState, WritePool, LookAndWritePool, DropPool, TunePool, StartPool, StopPool,
           MakeSource, StartBind, StopBind, AddLine, DropLine, AttachDisk,
           DetachDisk, StartIfDown, ReadLines, WriteLines, Answer, files, Marking
    <2>2. ASSUME NEW m \in mounted' \ mounted, m.kind = "bind"
          PROVE  FromFiles(m)
      <3>1. ~Direct(c, m)
        BY <2>2 DEF Direct, PoolMount
      <3>2. ~Tuned(c, m)
        <4> SUFFICES ASSUME NEW x \in mounted, x.kind = "pool", m = [x EXCEPT !.from = On(c).branches]
                     PROVE  FALSE
          BY DEF Tuned
        <4>1. \E p, u : x = PoolMount(p, u)
          BY MountKinds DEF MountsOK
        <4>2. m.kind = "pool"
          BY <4>1 DEF PoolMount
        <4> QED BY <2>2, <4>2
      <3> QED BY <2>2, <3>1, <3>2, WorkMounts
    <2> QED BY <2>1, <2>2, GuardedMount DEF GuardInv, BindsUp, MountedBy
  <1> QED BY <1>1, <1>2

LEMMA MountsTyped ==
  ASSUME FilesOK, JobsOK, MountsOK, [Next]_vars
  PROVE  MountsOK'
  <1>1. ASSUME NEW m, FromFiles(m)
        PROVE \/ \E d \in DiskChoices : m = DiskMount(d)
              \/ \E p, q \in PoolChoices, u \in BOOLEAN : m = PoolMount([p EXCEPT !.branches = q.branches], u)
              \/ \E b \in BindChoices : \E table : m = BindMount(b, table)
    <2>1. ASSUME NEW p \in poolUnits, m = PoolMount(p, TRUE)
          PROVE  m = PoolMount([p EXCEPT !.branches = p.branches], TRUE) /\ p \in PoolChoices
      BY <2>1 DEF PoolMount, FilesOK
    <2> QED BY <1>1, <2>1 DEF FromFiles, FilesOK
  <1>2. ASSUME NEW c \in Clients, Work(c) PROVE MountsOK'
    <2>1. ASSUME NEW m, Direct(c, m)
          PROVE  \E p, q \in PoolChoices, u \in BOOLEAN : m = PoolMount([p EXCEPT !.branches = q.branches], u)
      <3>1. On(c) \in PoolChoices
        BY <2>1, NextStep, StepFields DEF Direct, At, On, Step
      <3>2. m = PoolMount([On(c) EXCEPT !.branches = On(c).branches], FALSE)
        BY <2>1 DEF Direct, PoolMount
      <3> QED BY <3>1, <3>2
    <2>2. ASSUME NEW m, Tuned(c, m)
          PROVE  \E p, q \in PoolChoices, u \in BOOLEAN : m = PoolMount([p EXCEPT !.branches = q.branches], u)
      <3>1. On(c) \in PoolChoices
        BY <2>2, NextStep, StepFields DEF Tuned, At, On, Step, PoolDos
      <3>2. PICK x \in mounted : x.kind = "pool" /\ m = [x EXCEPT !.from = On(c).branches]
        BY <2>2 DEF Tuned
      <3>3. PICK p, q \in PoolChoices, u \in BOOLEAN : x = PoolMount([p EXCEPT !.branches = q.branches], u)
        BY <3>2, MountKinds DEF MountsOK
      <3>4. m = PoolMount([p EXCEPT !.branches = On(c).branches], u)
        BY <3>2, <3>3 DEF PoolMount
      <3> QED BY <3>1, <3>4
    <2>3. \A m \in mounted' \ mounted : FromFiles(m) \/ Tuned(c, m) \/ Direct(c, m)
      BY <1>2, WorkMounts
    <2> QED BY <1>1, <2>1, <2>2, <2>3 DEF MountsOK
  <1>3. CASE Restart \/ UNCHANGED vars \/ \E c \in Clients : Request(c)
    <2>1. UNCHANGED mounted
      BY <1>3, RequestMounts DEF Restart, vars
    <2> QED BY <2>1 DEF MountsOK
  <1>4. CASE Reboot
    <2>1. PICK found \in SUBSET fstab : mounted' = Booted(found)
      BY <1>4 DEF Reboot
    <2> QED BY <1>1, <2>1, BootedFromFiles DEF MountsOK
  <1> QED BY <1>2, <1>3, <1>4 DEF Next

LEMMA NextGuards ==
  ASSUME FilesOK, JobsOK, MountsOK, GuardInv, "kept" \in Watched, [Next]_vars
  PROVE  GuardInv'
  <1>1. ASSUME NEW c \in Clients, Work(c) PROVE GuardInv'
    BY <1>1, GuardsWritten, BindsStay DEF GuardInv
  <1>2. CASE UNCHANGED <<mounted, files, marks>>
    BY <1>2 DEF GuardInv, GuardsCover, BindsUp, MountedBy, files
  <1>3. CASE Restart
    BY <1>3 DEF GuardInv, GuardsCover, BindsUp, MountedBy, files, Restart, Marking
  <1>4. CASE Reboot
    <2>1. UNCHANGED files
      BY <1>4 DEF Reboot
    <2>2. PICK found \in SUBSET fstab : mounted' = Booted(found)
      BY <1>4 DEF Reboot
    <2>3. \A m \in mounted' : m.kind = "bind" => \E v \in bindUnits : MountedBy(m, v)
      BY <2>2, BootedFromFiles, GuardedMount DEF GuardInv
    <2> QED BY <2>1, <2>3 DEF GuardInv, GuardsCover, BindsUp, MountedBy, files
  <1> QED BY <1>1, <1>2, <1>3, <1>4, RequestMounts DEF Next, vars

(* Storage that is not there is noticed: a bind mount whose unit guards the*)
(* mount its source is on never shows the empty directory below that mount,*)
(* whatever requests overlap, whatever disks are missing at a boot and     *)
(* whatever mounts and unmounts fail.                                      *)
THEOREM GuardHoldsAlways ==
  ASSUME "kept" \in Watched
  PROVE  Spec => []GuardHolds
  <1>1. Init => MountsOK /\ GuardInv
    BY DEF Init, MountsOK, GuardInv, GuardsCover, BindsUp
  <1>2. Kept /\ MountsOK /\ GuardInv /\ [Next]_vars => MountsOK' /\ GuardInv'
    BY MountsTyped, NextGuards DEF Kept
  <1>3. Kept /\ GuardInv => GuardHolds
    <2> SUFFICES ASSUME Kept, GuardInv, NEW m \in mounted, NEW v \in bindUnits, m.kind = "bind",
                        v.bind.name = m.name, "kept" \notin marks, v.guard = Home(v.bind.source)
                 PROVE  ~Hollow(m)
      BY DEF GuardHolds
    <2>1. PICK w \in bindUnits : MountedBy(m, w)
      BY DEF GuardInv, BindsUp
    <2>2. w = v
      BY <2>1 DEF MountedBy, Kept, FilesOK
    <2> QED BY <2>1, <2>2 DEF MountedBy, Hollow
  <1> QED BY <1>1, <1>2, <1>3, AlwaysKept, PTL DEF Spec

-----------------------------------------------------------------------------
(* One request at a time *)

Lone == \A c, d \in Clients : job[c] # Idle /\ job[d] # Idle => c = d

\* Before it takes a file's place, a request without one has what is saved.
Current == \A c \in Clients : job[c] # Idle /\ ~Owns(c) => job[c].draft = Now

Serial == Lone /\ Current

LEMMA Arrives ==
  ASSUME NEW c \in Clients, Request(c)
  PROVE  job[c] = Idle /\ (Overlap \/ Quiet)
  <1>1. ASSUME Fix(c) PROVE \E kind : Arrive(c, kind)
    BY <1>1 DEF Fix, FixPoolUnit, FixPassthrough, FixBindUnit, FixBindSource, FixDiskMount, FixNoatime
  <1>2. ASSUME NEW p \in PoolChoices,
               \/ CreatePool(c, p) \/ DeletePool(c, p) \/ RemountPool(c, p)
               \/ MountPool(c, p) \/ UnmountPool(c, p) \/ \E old \in pools : UpdatePool(c, p, old)
        PROVE  \E kind : Arrive(c, kind)
    BY <1>2 DEF CreatePool, DeletePool, RemountPool, MountPool, UnmountPool, UpdatePool
  <1>3. ASSUME \/ \E new \in SUBSET BindChoices, make \in BOOLEAN : CreateBinds(c, new, make)
               \/ \E b \in BindChoices, old \in binds, make \in BOOLEAN : UpdateBind(c, b, old, make)
               \/ \E b \in BindChoices : DeleteBind(c, b) \/ StartBindNow(c, b) \/ StopBindNow(c, b)
        PROVE  \E kind : Arrive(c, kind)
    BY <1>3 DEF CreateBinds, UpdateBind, DeleteBind, StartBindNow, StopBindNow
  <1>4. ASSUME NEW d \in DiskChoices, MountDisk(c, d) \/ UnmountDisk(c, d)
        PROVE  \E kind : Arrive(c, kind)
    BY <1>4 DEF MountDisk, UnmountDisk
  <1>5. ASSUME ChangeShares(c) PROVE \E kind : Arrive(c, kind)
    BY <1>5 DEF ChangeShares
  <1>6. \E kind : Arrive(c, kind)
    BY <1>1, <1>2, <1>3, <1>4, <1>5 DEF Request
  <1> QED BY <1>6 DEF Arrive

\* One step of a request: what becomes of the jobs.
LEMMA WorkMoves ==
  ASSUME Kept, NEW c \in Clients, Work(c)
  PROVE  /\ job[c] # Idle
         /\ \A d \in Clients \ {c} : job'[d] = job[d] /\ (Owns(d)' <=> Owns(d))
         /\ job'[c] = Idle \/ job'[c].draft = job[c].draft
         /\ Owns(c)' => Owns(c)
         /\ Owns(c) /\ job'[c] # Idle /\ ~Owns(c)' => SaveState(c)
         /\ SaveState(c) \/ UNCHANGED config
  <1>0. FilesOK /\ JobsOK /\ JobsInv /\ NoClient \notin Clients
    BY HostAssumption DEF Kept
  <1>1. job[c].plan # <<>>
        /\ \/ GivesUp(c) \/ NoSource(c) \/ Passes(c) \/ LooksIfDown(c) \/ ReadsLines(c)
           \/ SaveState(c) \/ WritePool(c) \/ LookAndWritePool(c) \/ DropPool(c)
           \/ WriteBind(c) \/ DropBind(c) \/ AddLine(c) \/ DropLine(c) \/ WriteLines(c)
    BY <1>0, WorksOn, WorkCases
  <1>2. job[c] # Idle
    BY <1>1 DEF Idle
  <1>3. SaveState(c) \/ UNCHANGED config
    BY <1>1 DEF GivesUp, NoSource, Passes, LooksIfDown, ReadsLines, Still, WritePool, LookAndWritePool,
                DropPool, WriteBind, DropBind, AddLine, DropLine, WriteLines
  <1>4. \E plan : Becomes(c, plan)
    BY <1>0, <1>1, Written
       DEF GivesUp, NoSource, Passes, LooksIfDown, ReadsLines, Becomes, Onward
  <1>5. PICK plan : Becomes(c, plan)
    BY <1>4
  <1>6. \A d \in Clients \ {c} : job'[d] = job[d] /\ (lock' = d <=> lock = d)
    BY <1>0, <1>5 DEF Becomes, End, JobsOK
  <1>7. job'[c] = Idle \/ job'[c].draft = job[c].draft
    <2>1. CASE plan = <<>>
      BY <1>0, <1>5, <2>1 DEF Becomes, End, JobsOK
    <2>2. CASE plan # <<>>
      BY <1>0, <1>5, <2>2, BecomesJob
    <2> QED BY <2>1, <2>2
  <1>8. Owns(c)' => Owns(c)
    BY OwnersStay
  <1>9. ASSUME Owns(c), job'[c] # Idle, ~SaveState(c) PROVE Owns(c)'
    <2>1. ~LooksIfDown(c) /\ ~ReadsLines(c)
      BY <1>0, <1>1, <1>9, ChoosesUnlocked DEF LooksIfDown, ReadsLines, At, Step, Owns
    <2>2. ~End(c)
      BY <1>0, <1>9 DEF End, JobsOK
    <2>3. CASE LookAndWritePool(c)
      BY <1>9, <2>3, LookMoves
    <2>4. CASE ~LookAndWritePool(c)
      <3>1. Onward(c) /\ Step(c).do \notin {"save", "lookPool"}
        BY <1>0, <1>1, <1>9, <2>1, <2>2, <2>4, Written
           DEF GivesUp, NoSource, Passes, WritePool, DropPool, WriteBind, DropBind, AddLine, DropLine,
               WriteLines, At, Step, Writes, Chooses
      <3> QED BY <1>9, <3>1, OwnerMoves
    <2> QED BY <2>3, <2>4
  <1>10. \A d \in Clients \ {c} : Owns(d)' <=> Owns(d)
    BY <1>6 DEF Owns, Commits
  <1> QED BY <1>2, <1>3, <1>6, <1>7, <1>8, <1>9, <1>10

LEMMA NextSerial ==
  ASSUME ~Overlap, Kept, Serial, [Next]_vars
  PROVE  Serial'
  <1>0. JobsOK /\ JobsInv /\ SavedOK /\ NoClient \notin Clients
    BY HostAssumption DEF Kept
  <1>1. ASSUME NEW c \in Clients, Work(c) PROVE Serial'
    <2>1. /\ job[c] # Idle /\ \A d \in Clients \ {c} : job'[d] = job[d]
          /\ job'[c] = Idle \/ job'[c].draft = job[c].draft
          /\ Owns(c)' => Owns(c)
          /\ Owns(c) /\ job'[c] # Idle /\ ~Owns(c)' => SaveState(c)
          /\ SaveState(c) \/ UNCHANGED config
      BY <1>1, WorkMoves
    <2>2. \A d \in Clients \ {c} : job'[d] = Idle
      BY <2>1 DEF Serial, Lone
    <2>3. ASSUME job'[c] # Idle, ~Owns(c)' PROVE job'[c].draft = Now'
      <3>1. CASE SaveState(c)
        <4>1. /\ pools' = job[c].draft.pools /\ binds' = job[c].draft.binds
              /\ disks' = job[c].draft.disks /\ shares' = job[c].draft.shares
          BY <3>1 DEF SaveState
        <4>2. job[c].draft \in Configs
          BY <1>0 DEF JobsOK, Jobs
        <4> QED BY <2>1, <2>3, <4>1, <4>2 DEF Now, Configs
      <3>2. CASE ~SaveState(c)
        <4>1. ~Owns(c) /\ Now' = Now
          BY <2>1, <2>3, <3>2, GuardsLater
        <4> QED BY <2>1, <2>3, <4>1 DEF Serial, Current
      <3> QED BY <3>1, <3>2
    <2> QED BY <2>2, <2>3 DEF Serial, Lone, Current
  <1>2. ASSUME NEW c \in Clients, Request(c) PROVE Serial'
    <2>1. \A d \in Clients : job[d] = Idle
      BY <1>2, Arrives DEF Quiet
    <2>2. CASE ChangeShares(c)
      <3>1. \A d \in Clients : job'[d] = Idle
        BY <2>1, <2>2 DEF ChangeShares
      <3> QED BY <3>1 DEF Serial, Lone, Current
    <2>3. CASE TakesLock(c)
      <3>1. PICK j : LockedJob(j) /\ Locks(c) /\ Begins(c, j)
        BY <2>3 DEF TakesLock
      <3>2. job'[c] = j /\ lock' = c /\ \A d \in Clients \ {c} : job'[d] = Idle
        BY <1>0, <2>1, <3>1 DEF JobsOK, Begins, Locks
      <3>3. Owns(c)'
        BY <3>1, <3>2 DEF LockedJob, Owns, Commits
      <3> QED BY <3>2, <3>3 DEF Serial, Lone, Current
    <2>4. CASE TakesNone(c)
      <3>1. PICK j : FreeJob(j) /\ UNCHANGED lock /\ Begins(c, j)
        BY <2>4 DEF TakesNone
      <3>2. job'[c] = j /\ UNCHANGED config /\ \A d \in Clients \ {c} : job'[d] = Idle
        BY <1>0, <2>1, <3>1 DEF JobsOK, Begins
      <3>3. job'[c].draft = Now'
        BY <3>1, <3>2, GuardsLater DEF FreeJob
      <3> QED BY <3>2, <3>3 DEF Serial, Lone, Current
    <2> QED BY <1>0, <1>2, <2>2, <2>3, <2>4, RequestCases
  <1>3. CASE Restart \/ Reboot
    <2>1. \A d \in Clients : job'[d] = Idle
      BY <1>3 DEF Restart, Reboot, Dropped
    <2> QED BY <2>1 DEF Serial, Lone, Current
  <1>4. CASE UNCHANGED vars
    BY <1>4 DEF vars, config, Serial, Lone, Current, Owns, Commits, Now
  <1> QED BY <1>1, <1>2, <1>3, <1>4 DEF Next

\* The step of a request that does not hold the files is the only one going on.
LEMMA NobodyOwns ==
  ASSUME Kept, Serial, NEW c \in Clients, Work(c), ~Owns(c)
  PROVE  \A d \in Clients : ~Owns(d) /\ ~Owns(d)'
  <1>1. job[c] # Idle /\ \A d \in Clients \ {c} : Owns(d)' <=> Owns(d)
    BY WorkMoves
  <1>2. ~Owns(c)'
    BY WorkMoves
  <1>3. \A d \in Clients \ {c} : ~Owns(d)
    <2>1. Ahead(Idle.plan) = {}
      BY IdleTyped, AheadEmpty
    <2> QED BY <1>1, <2>1 DEF Serial, Lone, Owns, Commits
  <1> QED BY <1>1, <1>2, <1>3

-----------------------------------------------------------------------------
(* What the bind units rest on *)

\* Each of the units U requires pools of P that hold its source, and guards
\* mounts that the pools of P and the disks of D make.
RequiresOK(U, P) ==
  \A v \in U : \A name \in v.requires :
    \E p \in P : p.name = name /\ Covers(p.mountpoint, v.bind.source)

GuardsOK(U, P, D) ==
  \A v \in U : v.guard \subseteq {p.mountpoint : p \in P} \cup {d.mountpoint : d \in D}

RestOn(U, seen, P, D) ==
  RequiresOK(U, P) /\ ("loose" \in Watched \ seen => GuardsOK(U, P, D))

Looks(j) == \E s \in Ahead(j.plan) : s.do = "lookPool"

RestsInv ==
  Clean /\ "moved" \notin marks =>
    /\ RestOn(bindUnits, marks, pools, disks)
    /\ \A c \in Clients : Owns(c) /\ ~Looks(job[c]) =>
         RestOn(bindUnits, marks, job[c].draft.pools, job[c].draft.disks)

LEMMA FewerUnits ==
  ASSUME NEW U, NEW V, V \subseteq U, NEW seen, NEW more, seen \subseteq more,
         NEW P, NEW D, RestOn(U, seen, P, D)
  PROVE  RestOn(V, more, P, D)
  BY DEF RestOn, RequiresOK, GuardsOK

\* What a request takes away, no bind mount uses.
LEMMA Spared ==
  ASSUME SavedOK, NEW j, LockedJob(j), ~Looks(j)
  PROVE  /\ \A p \in pools \ j.draft.pools : Config!BindsUsingPath(p.mountpoint) = {}
         /\ \A d \in disks \ j.draft.disks : Config!BindsUsingPath(d.mountpoint) = {}
  <1>1. ASSUME NEW p \in pools \ j.draft.pools PROVE Config!BindsUsingPath(p.mountpoint) = {}
    <2>1. PICK s \in Ahead(j.plan) : s.do \in {"writePool", "lookPool", "dropPool"}
      BY <1>1 DEF LockedJob, Pending
    <2>2. StepOK(j, s)
      BY <2>1 DEF LockedJob, DraftOK
    <2>3. s.do # "lookPool"
      BY <2>1 DEF Looks
    <2>4. CASE s.do = "writePool"
      <3>1. j.draft.pools = Config!Put(pools, s.on)
        BY <2>2, <2>4 DEF StepOK
      <3>2. s.on \in pools \/ ~Config!Has(pools, s.on.name)
        BY <2>1, <2>4 DEF LockedJob, Opens
      <3>3. p.name = s.on.name /\ p # s.on
        BY <3>1 DEF Config!Put, Config!Without
      <3> QED BY <3>2, <3>3 DEF SavedOK, Config!ConfigTypeOK, Config!OnePerName, Config!Has
    <2>5. CASE s.do = "dropPool"
      <3>1. j.draft.pools = Config!Without(pools, s.on.name)
        BY <2>2, <2>5 DEF StepOK
      <3>2. Config!CanReleasePool(s.on)
        BY <2>1, <2>5 DEF LockedJob, Opens
      <3>3. p.name = s.on.name
        BY <3>1 DEF Config!Without
      <3>4. p = s.on
        BY <3>2, <3>3 DEF SavedOK, Config!ConfigTypeOK, Config!OnePerName, Config!CanReleasePool
      <3> QED BY <3>2, <3>4 DEF Config!CanReleasePool
    <2> QED BY <2>1, <2>3, <2>4, <2>5
  <1>2. ASSUME NEW d \in disks \ j.draft.disks PROVE Config!BindsUsingPath(d.mountpoint) = {}
    <2>1. PICK s \in Ahead(j.plan) : s.do = "dropLine"
      BY <1>2 DEF LockedJob, DropsLines
    <2>2. StepOK(j, s) /\ Config!CanReleaseDisk(s.on)
      BY <2>1 DEF LockedJob, DraftOK, Opens
    <2>3. d.name = s.on.name
      BY <2>1, <2>2 DEF StepOK, Config!Without
    <2>4. d = s.on
      BY <2>2, <2>3 DEF SavedOK, Config!ConfigTypeOK, Config!OnePerName, Config!CanReleaseDisk
    <2> QED BY <2>2, <2>4 DEF Config!CanReleaseDisk
  <1> QED BY <1>1, <1>2

LEMMA DraftRests ==
  ASSUME SavedOK, GuardsCover, Units = binds, RestOn(bindUnits, marks, pools, disks), NEW P, NEW D,
         \A p \in pools \ P : Config!BindsUsingPath(p.mountpoint) = {},
         \A d \in disks \ D : Config!BindsUsingPath(d.mountpoint) = {}
  PROVE  RestOn(bindUnits, marks, P, D)
  <1>1. \A v \in bindUnits : v.bind \in binds
    BY DEF Units
  <1>2. ASSUME NEW v \in bindUnits, NEW q, Covers(q, v.bind.source), Config!BindsUsingPath(q) = {}
        PROVE  FALSE
    <2>1. Config!Covers(q, v.bind.source)
      BY <1>2 DEF Covers, IsPrefix, Config!Covers, Config!IsPrefix
    <2> QED BY <1>1, <1>2, <2>1 DEF Config!BindsUsingPath
  <1>3. RequiresOK(bindUnits, P)
    BY <1>2 DEF RestOn, RequiresOK
  <1>4. ASSUME GuardsOK(bindUnits, pools, disks) PROVE GuardsOK(bindUnits, P, D)
    BY <1>2, <1>4 DEF GuardsOK, GuardsCover
  <1> QED BY <1>3, <1>4 DEF RestOn

\* A unit is made of what is saved and of what is mounted.
LEMMA UnitRests ==
  ASSUME NEW c \in Clients, WriteBind(c), RestOn(bindUnits, marks, pools, disks),
         job[c].draft.pools = pools
  PROVE  RestOn(bindUnits', marks', pools, disks)
  <1> DEFINE u == BindUnit(On(c), pools)
  <1>1. bindUnits' \subseteq bindUnits \cup {u} /\ marks \subseteq marks'
    BY DEF WriteBind, WithoutUnit, Marking
  <1>2. u.bind = On(c) /\ u.guard = MountRoot(On(c).source)
    BY DEF BindUnit
  <1>3. ASSUME NEW name \in u.requires
        PROVE  \E p \in pools : p.name = name /\ Covers(p.mountpoint, u.bind.source)
    BY <1>2, <1>3 DEF BindUnit, Deepest
  <1>4. ASSUME "loose" \in Watched \ marks'
        PROVE  u.guard \subseteq {p.mountpoint : p \in pools} \cup {d.mountpoint : d \in disks}
    BY <1>2, <1>4 DEF WriteBind, Marking, Storage
  <1> HIDE DEF u
  <1>5. RequiresOK(bindUnits', pools)
    BY <1>1, <1>3 DEF RestOn, RequiresOK
  <1>6. ASSUME "loose" \in Watched \ marks' PROVE GuardsOK(bindUnits', pools, disks)
    BY <1>1, <1>4, <1>6 DEF RestOn, GuardsOK
  <1> QED BY <1>5, <1>6 DEF RestOn

\* A pool that moves is still where its units look for it, or leaves a mark.
LEMMA MovedRests ==
  ASSUME GuardsCover, RestOn(bindUnits, marks, pools, disks), "moved" \in Watched,
         NEW c \in Clients, LookAndWritePool(c), "moved" \notin marks'
  PROVE  RestOn(bindUnits, marks, Config!Put(pools, On(c)), disks)
  <1>1. ASSUME NEW p \in pools, NEW v \in bindUnits,
               p.name \in v.requires \/ Covers(p.mountpoint, v.bind.source),
               p.name = On(c).name
        PROVE  p.mountpoint = On(c).mountpoint
    BY <1>1 DEF LookAndWritePool, Marking
  <1>2. \A p \in pools : p.name # On(c).name => p \in Config!Put(pools, On(c))
    BY DEF Config!Put, Config!Without
  <1>3. On(c) \in Config!Put(pools, On(c))
    BY DEF Config!Put
  <1>4. RequiresOK(bindUnits, Config!Put(pools, On(c)))
    BY <1>1, <1>2, <1>3 DEF RestOn, RequiresOK
  <1>5. ASSUME GuardsOK(bindUnits, pools, disks)
        PROVE  GuardsOK(bindUnits, Config!Put(pools, On(c)), disks)
    <2> SUFFICES ASSUME NEW v \in bindUnits, NEW g \in v.guard,
                        g \notin {d.mountpoint : d \in disks}
                 PROVE  \E p \in Config!Put(pools, On(c)) : g = p.mountpoint
      BY DEF GuardsOK
    <2>1. PICK p \in pools : g = p.mountpoint
      BY <1>5 DEF GuardsOK
    <2> QED BY <1>1, <1>2, <1>3, <2>1 DEF GuardsCover
  <1> QED BY <1>4, <1>5 DEF RestOn

LEMMA NooneOwns == Quiet => \A c \in Clients : ~Owns(c)
  <1>1. Ahead(Idle.plan) = {}
    BY IdleTyped, AheadEmpty
  <1> QED BY <1>1 DEF Quiet, Owns, Commits

\* Nobody has anything to save, and no unit is written.
LEMMA RestsStay ==
  ASSUME RestsInv, bindUnits' \subseteq bindUnits, UNCHANGED <<pools, disks>>, Clean' => Clean,
         marks \cap {"moved", "loose"} \subseteq marks', \A c \in Clients : ~Owns(c)'
  PROVE  RestsInv'
  <1> SUFFICES ASSUME Clean', "moved" \notin marks'
               PROVE  RestOn(bindUnits', marks', pools', disks')
    BY DEF RestsInv
  <1> QED BY DEF RestsInv, RestOn, RequiresOK, GuardsOK

LEMMA RequestRests ==
  ASSUME ~Overlap, Kept, FilesInv, GuardsCover, RestsInv, NEW c \in Clients, Request(c)
  PROVE  RestsInv'
  <1>0. SavedOK /\ JobsOK /\ JobsInv /\ NoClient \notin Clients
    BY HostAssumption DEF Kept
  <1>1. Quiet /\ \A d \in Clients : ~Owns(d)
    BY Arrives, NooneOwns
  <1>2. UNCHANGED <<bindUnits, marks>>
    BY RequestMounts DEF files
  <1>3. CASE ChangeShares(c)
    <2>1. UNCHANGED <<lock, job, pools, disks>>
      BY <1>3 DEF ChangeShares, Config!ShareChange, Config!CreateShare, Config!UpdateShare,
                  Config!DeleteShare
    <2> QED BY <1>1, <1>2, <2>1, RestsStay DEF Owns, Clean, Commits
  <1>4. CASE TakesNone(c)
    <2>1. PICK j : FreeJob(j) /\ UNCHANGED lock /\ Begins(c, j)
      BY <1>4 DEF TakesNone
    <2>2. UNCHANGED <<pools, disks>> /\ lock # c /\ \A d \in Clients \ {c} : job'[d] = job[d]
      BY <1>0, <2>1 DEF Begins, JobsOK, JobsInv, Idle, config
    <2>3. \A d \in Clients : ~Owns(d)'
      BY <1>1, <2>1, <2>2 DEF Owns, Commits
    <2> QED BY <1>2, <2>2, <2>3, RestsStay DEF Clean
  <1>5. CASE TakesLock(c)
    <2> SUFFICES ASSUME Clean, "moved" \notin marks PROVE RestsInv'
      BY <1>2 DEF RestsInv, Clean
    <2>1. PICK j : LockedJob(j) /\ Locks(c) /\ Begins(c, j)
      BY <1>5 DEF TakesLock
    <2>2. UNCHANGED <<pools, disks>> /\ lock' = c /\ job'[c] = j
      BY <1>0, <2>1 DEF Locks, Begins, JobsOK, config
    <2>3. RestOn(bindUnits, marks, pools, disks) /\ Units = binds
      BY <1>1 DEF RestsInv, FilesInv, Matches
    <2>4. ~Looks(j) => RestOn(bindUnits, marks, j.draft.pools, j.draft.disks)
      <3> HAVE ~Looks(j)
      <3> QED BY <1>0, <2>1, <2>3, Spared, DraftRests
    <2>5. \A d \in Clients : Owns(d)' => d = c
      BY <2>2 DEF Owns
    <2> QED BY <1>2, <2>2, <2>3, <2>4, <2>5 DEF RestsInv
  <1> QED BY <1>0, <1>3, <1>4, <1>5, RequestCases

LEMMA OthersRest ==
  ASSUME Kept, Serial, RestsInv, NEW c \in Clients, Work(c), ~Owns(c)
  PROVE  RestsInv'
  <1>1. \A d \in Clients : ~Owns(d)'
    BY NobodyOwns
  <1>2. UNCHANGED config /\ (Still \/ WritePool(c) \/ WriteBind(c) \/ WriteLines(c))
    BY OwnersStay
  <1>3. marks \subseteq marks'
    BY <1>2 DEF Still, Marked, WritePool, WriteBind, WriteLines, Marking
  <1>4. CASE ~WriteBind(c)
    <2>1. UNCHANGED bindUnits
      BY <1>2, <1>4 DEF Still, files, WritePool, WriteLines
    <2> QED BY <1>1, <1>2, <1>3, <2>1, RestsStay DEF config, Clean
  <1>5. CASE WriteBind(c)
    <2>1. job[c].draft.pools = pools
      BY WorkMoves DEF Serial, Current, Now
    <2>2. Clean' /\ "moved" \notin marks' => RestOn(bindUnits', marks', pools, disks)
      BY <1>3, <1>5, <2>1, UnitRests DEF RestsInv, Clean
    <2> QED BY <1>1, <1>2, <2>2 DEF RestsInv, config
  <1> QED BY <1>4, <1>5

\* The owner of the files takes a step and goes on.
LEMMA OnwardRests ==
  ASSUME Kept, RestsInv, NEW c \in Clients, Owns(c), Onward(c), Step(c).do \notin {"save", "lookPool"},
         UNCHANGED config, Marked, UNCHANGED bindUnits \/ WriteBind(c) \/ DropBind(c)
  PROVE  RestsInv'
  <1> SUFFICES ASSUME Clean', "moved" \notin marks' PROVE RestsInv'
    BY DEF RestsInv
  <1>1. /\ lock' = c /\ job'[c].draft = job[c].draft
        /\ Ahead(job[c].plan) = {Step(c)} \cup Ahead(job'[c].plan)
    BY OwnerMoves
  <1>2. Clean /\ "moved" \notin marks /\ marks \subseteq marks' /\ UNCHANGED <<pools, disks>>
    BY DEF Marked, Clean, config
  <1>3. Looks(job'[c]) <=> Looks(job[c])
    BY <1>1 DEF Looks
  <1>4. \A d \in Clients : Owns(d)' => d = c
    BY <1>1 DEF Owns
  <1>5. RestOn(bindUnits, marks, pools, disks)
        /\ (~Looks(job[c]) => RestOn(bindUnits, marks, job[c].draft.pools, job[c].draft.disks))
    BY <1>2 DEF RestsInv
  <1>6. CASE bindUnits' \subseteq bindUnits
    BY <1>1, <1>2, <1>3, <1>4, <1>5, <1>6, FewerUnits DEF RestsInv
  <1>7. CASE WriteBind(c)
    <2>1. StepOK(job[c], Step(c)) /\ Step(c).do = "writeBind"
      BY <1>7, Owner DEF WriteBind, At, Step
    <2>2. job[c].draft.pools = pools /\ job[c].draft.disks = disks
      BY <2>1 DEF StepOK
    <2>3. RestOn(bindUnits', marks', pools, disks)
      BY <1>5, <1>7, <2>2, UnitRests
    <2> QED BY <1>1, <1>2, <1>4, <2>2, <2>3 DEF RestsInv
  <1> QED BY <1>6, <1>7 DEF DropBind, WithoutUnit

LEMMA OwnerRests ==
  ASSUME Kept, GuardsCover, RestsInv, "moved" \in Watched, NEW c \in Clients, Work(c), Owns(c)
  PROVE  RestsInv'
  <1>0. FilesOK /\ JobsOK /\ JobsInv /\ NoClient \notin Clients
    BY HostAssumption DEF Kept
  <1>1. \/ GivesUp(c) \/ NoSource(c) \/ Passes(c) \/ LooksIfDown(c) \/ ReadsLines(c)
        \/ SaveState(c) \/ WritePool(c) \/ LookAndWritePool(c) \/ DropPool(c)
        \/ WriteBind(c) \/ DropBind(c) \/ AddLine(c) \/ DropLine(c) \/ WriteLines(c)
    BY <1>0, WorksOn, WorkCases
  <1>2. ~LooksIfDown(c) /\ ~ReadsLines(c)
    BY <1>0, <1>1, Owner, ChoosesUnlocked DEF LooksIfDown, ReadsLines, At, Step, Owns
  <1>3. CASE GivesUp(c) \/ NoSource(c)
    <2>1. End(c) /\ Still
      BY <1>3 DEF GivesUp, NoSource
    <2>2. \A d \in Clients : ~Owns(d)'
      BY <1>0, <2>1 DEF End, Owns
    <2> QED BY <2>1, <2>2, RestsStay DEF Still, Marked, files, config, Clean
  <1>4. CASE Passes(c)
    BY <1>4, OnwardRests DEF Passes, Still, files, Writes
  <1>5. CASE WritePool(c) \/ DropPool(c) \/ WriteBind(c) \/ DropBind(c) \/ AddLine(c) \/ DropLine(c)
             \/ WriteLines(c)
    <2>1. /\ Step(c).do \notin {"save", "lookPool"} /\ ~At(c, "lookPool")
          /\ UNCHANGED config /\ (UNCHANGED bindUnits \/ WriteBind(c) \/ DropBind(c))
      BY <1>5 DEF WritePool, DropPool, WriteBind, DropBind, AddLine, DropLine, WriteLines, At, Step
    <2> QED BY <1>0, <1>5, <2>1, Written, OnwardRests
  <1>6. CASE SaveState(c)
    <2>1. \A d \in Clients : ~Owns(d)'
      BY <1>6, SaveEnds
    <2>2. ~Looks(job[c])
      BY <1>6, SaveEnds DEF Looks, After
    <2>3. /\ UNCHANGED <<bindUnits, marks>>
          /\ pools' = job[c].draft.pools /\ disks' = job[c].draft.disks
      BY <1>6 DEF SaveState, files
    <2> QED BY <2>1, <2>2, <2>3 DEF RestsInv, Clean
  <1>7. CASE LookAndWritePool(c)
    <2> SUFFICES ASSUME Clean', "moved" \notin marks' PROVE RestsInv'
      BY DEF RestsInv
    <2>1. UNCHANGED <<pools, disks, bindUnits>> /\ marks \subseteq marks'
      BY <1>7 DEF LookAndWritePool, Marking, config
    <2>2. /\ Step(c).do = "lookPool" /\ On(c) = Step(c).on
          /\ lock' = c /\ job'[c].draft = job[c].draft
      BY <1>7, LookMoves
    <2>3. job[c].draft.pools = Config!Put(pools, On(c)) /\ job[c].draft.disks = disks
      BY <2>2, Owner DEF StepOK
    <2>4. RestOn(bindUnits, marks, pools, disks)
      BY <2>1 DEF RestsInv, Clean
    <2>5. RestOn(bindUnits, marks, job[c].draft.pools, job[c].draft.disks)
      BY <1>7, <2>3, <2>4, MovedRests
    <2>6. \A d \in Clients : Owns(d)' => d = c
      BY <2>2 DEF Owns
    <2> QED BY <2>1, <2>2, <2>4, <2>5, <2>6, FewerUnits DEF RestsInv
  <1> QED BY <1>1, <1>2, <1>3, <1>4, <1>5, <1>6, <1>7

LEMMA NextRests ==
  ASSUME ~Overlap, {"cut", "stale", "moved"} \subseteq Watched, Kept, FilesInv, GuardsCover, Serial,
         RestsInv, [Next]_vars
  PROVE  RestsInv'
  <1>0. NoClient \notin Clients
    BY HostAssumption
  <1>1. ASSUME NEW c \in Clients, Request(c) PROVE RestsInv'
    BY <1>1, RequestRests
  <1>2. ASSUME NEW c \in Clients, Work(c) PROVE RestsInv'
    BY <1>2, OwnerRests, OthersRest
  <1>3. CASE Restart \/ Reboot
    <2>1. \A d \in Clients : ~Owns(d)'
      BY <1>0, <1>3 DEF Restart, Reboot, Dropped, Owns
    <2> QED BY <1>3, <2>1, RestsStay DEF Restart, Reboot, files, config, Clean, Marking
  <1>4. CASE UNCHANGED vars
    BY <1>4 DEF vars, config, files, RestsInv, Clean, Owns, Commits
  <1> QED BY <1>1, <1>2, <1>3, <1>4 DEF Next

LEMMA InitRests == Init => RestsInv /\ FilesInv /\ GuardsCover /\ Serial
  <1> SUFFICES ASSUME Init PROVE RestsInv /\ FilesInv /\ GuardsCover /\ Serial
    OBVIOUS
  <1>1. /\ poolUnits = {} /\ bindUnits = {} /\ fstab = {} /\ pools = {} /\ binds = {} /\ disks = {}
        /\ lock = NoClient /\ Units = {} /\ \A c \in Clients : job[c] = Idle
    BY DEF Init, Config!Init, Units
  <1>2. \A c \in Clients : ~Owns(c)
    BY <1>1, HostAssumption DEF Owns
  <1> QED BY <1>1, <1>2 DEF FilesInv, Matches, RestsInv, RestOn, RequiresOK, GuardsOK, GuardsCover,
                            Serial, Lone, Current

\* What a boot with every disk makes of units that match what is saved and
\* rest on it.
LEMMA BootBrings ==
  ASSUME Matches(poolUnits, Units, fstab), RequiresOK(bindUnits, pools),
         GuardsOK(bindUnits, pools, disks), GuardsCover
  PROVE  BootsWhole
  <1> DEFINE live  == {u \in poolUnits : PoolWanted(u.name) /\ Needed(u.branches) \subseteq fstab}
             ready == {DiskMount(d) : d \in fstab} \cup {PoolMount(u, TRUE) : u \in live}
             up    == {v \in bindUnits : /\ BindWanted(v.bind.name)
                                         /\ v.requires \subseteq {u.name : u \in live}
                                         /\ GuardPasses(v, ready)}
  <1>1. Booted(fstab) = ready \cup {BindMount(v.bind, ready) : v \in up}
    BY DEF Booted
  <1>2. live = {p \in pools : PoolWanted(p.name)} /\ Units = binds /\ disks \subseteq fstab
    BY DEF Matches, Needed
  <1>3. /\ \A p \in pools : PoolWanted(p.name) => PoolMount(p, TRUE) \in ready
        /\ \A d \in disks : DiskMount(d) \in ready
    BY <1>2
  <1> HIDE DEF ready
  <1> DEFINE served == {p.mountpoint : p \in {x \in pools : PoolWanted(x.name)}}
                         \cup {d.mountpoint : d \in disks}
  <1>4. ASSUME NEW q \in served PROVE MountedIn(ready, q)
    <2>1. CASE \E p \in pools : PoolWanted(p.name) /\ q = p.mountpoint
      BY <1>3, <2>1 DEF MountedIn, PoolMount
    <2>2. CASE \E d \in disks : q = d.mountpoint
      BY <1>3, <2>2 DEF MountedIn, DiskMount
    <2> QED BY <2>1, <2>2
  <1>5. ASSUME NEW path, Home(path) \subseteq served
        PROVE  Home(path) \subseteq Through(ready, path) /\ ~HollowIn(ready, path)
    <2>1. \A h \in Home(path) : Covers(h, path) /\ MountedIn(ready, h)
      BY <1>4, <1>5 DEF Home, Deepest
    <2> QED BY <2>1 DEF Through, HollowIn, MountedIn
  <1>6. ASSUME NEW v \in bindUnits, BindWanted(v.bind.name),
               \A p \in pools : Covers(p.mountpoint, v.bind.source) => PoolWanted(p.name)
        PROVE  v \in up /\ Home(v.bind.source) \subseteq served
    <2>1. v.requires \subseteq {u.name : u \in live}
      <3> SUFFICES ASSUME NEW name \in v.requires PROVE \E u \in live : u.name = name
        OBVIOUS
      <3>1. PICK q \in pools : q.name = name
        BY DEF RequiresOK
      <3>2. PoolWanted(q.name)
        BY <1>6, <3>1 DEF PoolWanted
      <3> QED BY <1>2, <3>1, <3>2
    <2>2. \A g \in v.guard : MountedIn(ready, g)
      <3> SUFFICES ASSUME NEW g \in v.guard PROVE MountedIn(ready, g)
        OBVIOUS
      <3>1. g \in {p.mountpoint : p \in pools} \cup {d.mountpoint : d \in disks}
        BY DEF GuardsOK
      <3>2. Covers(g, v.bind.source)
        BY DEF GuardsCover
      <3>3. g \in served
        BY <1>6, <3>1, <3>2
      <3> HIDE DEF served
      <3> QED BY <1>4, <3>3
    <2>3. Home(v.bind.source) \subseteq served
      BY <1>6 DEF Home, Deepest, Storage
    <2> HIDE DEF served, live
    <2> QED BY <1>5, <1>6, <2>1, <2>2, <2>3 DEF GuardPasses, SourceExists
  <1> HIDE DEF served, up
  <1>7. ASSUME NEW b \in binds, BindWanted(b.name),
               \A p \in pools : Covers(p.mountpoint, b.source) => PoolWanted(p.name)
        PROVE  \E m \in Booted(fstab) : /\ m.kind = "bind" /\ m.name = b.name
                                        /\ m.at = b.target /\ m.from = b.source /\ ~Hollow(m)
    <2>1. PICK v \in bindUnits : v.bind = b
      BY <1>2 DEF Units
    <2>2. v \in up /\ Home(b.source) \subseteq served
      BY <1>6, <1>7, <2>1
    <2>3. BindMount(b, ready) \in Booted(fstab)
      BY <1>1, <2>1, <2>2
    <2>4. Home(b.source) \subseteq Through(ready, b.source)
      BY <1>5, <2>2
    <2> QED BY <2>3, <2>4 DEF BindMount, Hollow
  <1> QED BY <1>1, <1>3, <1>7 DEF BootsWhole

LEMMA NextCovers == GuardsCover /\ [Next]_vars => GuardsCover'
  <1>1. ASSUME GuardsCover, UNCHANGED bindUnits PROVE GuardsCover'
    BY <1>1 DEF GuardsCover
  <1> QED BY <1>1, GuardsWritten, RequestMounts DEF Next, Restart, Reboot, vars, files

(* The next boot that finds every disk brings up all that is saved, but for*)
(* units that could not be enabled and what rests on such a pool, when no  *)
(* request is under way: the units name pools that are saved and guard     *)
(* mounts that saved pools and disks make, because a request that would    *)
(* take one of these away is refused while a bind mount rests on it.       *)
THEOREM BootRestoresHolds ==
  ASSUME ~Overlap, {"cut", "stale", "moved", "loose"} \subseteq Watched
  PROVE  Spec => []BootRestores
  <1>1. Init => FilesInv /\ Serial /\ RestsInv /\ GuardsCover
    BY InitRests
  <1>2. Kept /\ FilesInv /\ Serial /\ RestsInv /\ GuardsCover /\ [Next]_vars
        => FilesInv' /\ Serial' /\ RestsInv' /\ GuardsCover'
    BY NextMatches, NextSerial, NextRests, NextCovers
  <1>3. FilesInv /\ RestsInv /\ GuardsCover => BootRestores
    <2> SUFFICES ASSUME FilesInv, RestsInv, GuardsCover, Quiet, Clean, marks \cap {"moved", "loose"} = {}
                 PROVE  BootsWhole
      BY DEF BootRestores, Clean
    <2>1. Matches(poolUnits, Units, fstab)
      BY NooneOwns DEF FilesInv
    <2>2. RequiresOK(bindUnits, pools) /\ GuardsOK(bindUnits, pools, disks)
      BY DEF RestsInv, RestOn
    <2> QED BY <2>1, <2>2, BootBrings
  <1> QED BY <1>1, <1>2, <1>3, AlwaysKept, PTL DEF Spec

-----------------------------------------------------------------------------
(* A remount *)

\* No pool is mounted below another one.
PoolsApart == \A p, q \in PoolChoices : p.name # q.name => ~Nested(p.mountpoint, q.mountpoint)

Brings(j, b) == \E t \in Ahead(j.plan) : t.do = "startBind" /\ t.on = b

\* The steps of a remount still bring up what it has taken down.
RemountOK(j) ==
  /\ j.kind # "remount" => j.down = {}
  /\ j.kind = "remount" =>
       /\ \A s \in Ahead(j.plan) :
            /\ s.do \in RemountDos /\ (s.do = "startBind" => s.must)
            /\ s.do = "stopPool" => j.down = {} /\ s.on \in pools /\ \A b \in Restarted(s.on) : Brings(j, b)
       /\ \A b \in binds : b.name \in j.down => Active(mounted, "bind", b.name) \/ Brings(j, b)

RemountInv == Clean /\ "moved" \notin marks => \A c \in Clients : RemountOK(job[c])

LEMMA PlacesNest ==
  ASSUME NEW p \in PoolChoices, NEW q \in PoolChoices, NEW b \in BindChoices,
         Covers(p.mountpoint, b.source), Covers(q.mountpoint, b.source)
  PROVE  Nested(p.mountpoint, q.mountpoint) /\ Config!Covers(p.mountpoint, b.source)
  <1>1. /\ p.mountpoint \in Saved!AnyPath /\ q.mountpoint \in Saved!AnyPath /\ b.source \in Saved!AnyPath
    BY HostAssumption DEF HostAssumption, Config!ChoicesOK, Config!Path, Saved!AnyPath
  <1>2. Saved!Covers(p.mountpoint, b.source) /\ Saved!Covers(q.mountpoint, b.source)
    BY DEF Covers, IsPrefix, Saved!Covers, Saved!IsPrefix
  <1>3. Saved!Nested(p.mountpoint, q.mountpoint)
    BY <1>1, <1>2, ConfigIsSaved, Saved!CoveringNested
  <1> QED BY <1>3 DEF Nested, Saved!Nested, Covers, IsPrefix, Saved!Covers, Saved!IsPrefix,
                      Config!Covers, Config!IsPrefix

\* The pool a unit requires is the one its bind mount is restarted with.
LEMMA RequiredRestarts ==
  ASSUME Kept, PoolsApart, Units = binds, RequiresOK(bindUnits, pools), NEW p \in pools,
         NEW v \in bindUnits, p.name \in v.requires
  PROVE  v.bind \in Restarted(p)
  <1>1. v.bind \in binds /\ v.bind \in BindChoices /\ pools \subseteq PoolChoices
    BY DEF Units, Kept, SavedOK, Config!ConfigTypeOK
  <1>2. Covers(p.mountpoint, v.bind.source)
    <2>1. PICK q \in pools : q.name = p.name /\ Covers(q.mountpoint, v.bind.source)
      BY DEF RequiresOK
    <2>2. q = p
      BY <2>1 DEF Kept, SavedOK, Config!ConfigTypeOK, Config!OnePerName
    <2> QED BY <2>1, <2>2
  <1>3. ASSUME NEW q \in pools, Config!Covers(q.mountpoint, v.bind.source)
        PROVE  q = p
    <2>1. Covers(q.mountpoint, v.bind.source)
      BY <1>3 DEF Covers, IsPrefix, Config!Covers, Config!IsPrefix
    <2>2. Nested(q.mountpoint, p.mountpoint)
      BY <1>1, <1>2, <2>1, PlacesNest
    <2>3. q.name = p.name
      BY <1>1, <2>2 DEF PoolsApart
    <2> QED BY <2>3 DEF Kept, SavedOK, Config!ConfigTypeOK, Config!OnePerName
  <1>4. Config!Covers(p.mountpoint, v.bind.source) /\ Config!Covers(p.mountpoint, p.mountpoint)
    BY <1>1, <1>2, PlacesNest DEF Config!Covers, Config!IsPrefix
  <1> QED BY <1>1, <1>3, <1>4 DEF Restarted, Config!PoolForPath

\* How a request that goes on remembers what it took down.
LEMMA DownMoves ==
  ASSUME Kept, NEW c \in Clients, Work(c)
  PROVE  \/ job'[c] = Idle
         \/ job'[c].kind = job[c].kind /\ job'[c].down = job[c].down
         \/ /\ StopPool(c) /\ job[c].kind = "remount"
            /\ job'[c].down = {m.name : m \in Dependents(On(c).name)}
  <1>1. job[c] \in Jobs /\ job \in [Clients -> Jobs]
    BY DEF Kept, JobsOK
  <1>2. ASSUME NEW plan, Continue(c, plan)
        PROVE  job'[c] = Idle \/ (job'[c].kind = job[c].kind /\ job'[c].down = job[c].down)
    BY <1>1, <1>2 DEF Continue, End, Jobs
  <1>3. ASSUME Proceed(c) \/ End(c) \/ Fail(c)
        PROVE  job'[c] = Idle \/ (job'[c].kind = job[c].kind /\ job'[c].down = job[c].down)
    BY <1>1, <1>2, <1>3 DEF Proceed, End, Fail
  <1>4. CASE ~StopPool(c)
    <2>1. CASE LookAndWritePool(c) \/ StartIfDown(c) \/ ReadLines(c)
      BY <1>2, <2>1 DEF LookAndWritePool, StartIfDown, ReadLines
    <2>2. CASE ~(LookAndWritePool(c) \/ StartIfDown(c) \/ ReadLines(c))
      <3>1. Proceed(c) \/ End(c) \/ Fail(c)
        BY <1>4, <2>2 DEF Work, SaveState, WritePool, DropPool, TunePool, StartPool,
             MakeSource, WriteBind, DropBind, StartBind, StopBind, AddLine, DropLine, AttachDisk,
             DetachDisk, Umount, WriteLines, Answer
      <3> QED BY <1>3, <3>1
    <2> QED BY <2>1, <2>2
  <1>5. CASE StopPool(c)
    <2>1. CASE Proceed(c) \/ End(c)
      BY <1>3, <2>1
    <2>2. CASE ~(Proceed(c) \/ End(c))
      <3>1. ProceedWithout(c, Dependents(On(c).name))
        BY <1>5, <2>2 DEF StopPool, Umount
      <3> QED BY <1>1, <1>5, <2>2, <3>1 DEF ProceedWithout, Jobs
    <2> QED BY <2>1, <2>2
  <1> QED BY <1>4, <1>5

LEMMA WorkMarks ==
  ASSUME Kept, NEW c \in Clients, Work(c)
  PROVE  marks \subseteq marks'
  <1>0. FilesOK /\ JobsOK /\ JobsInv
    BY DEF Kept
  <1>1. \/ GivesUp(c) \/ NoSource(c) \/ Passes(c) \/ LooksIfDown(c) \/ ReadsLines(c)
        \/ SaveState(c) \/ WritePool(c) \/ LookAndWritePool(c) \/ DropPool(c)
        \/ WriteBind(c) \/ DropBind(c) \/ AddLine(c) \/ DropLine(c) \/ WriteLines(c)
    BY <1>0, WorksOn, WorkCases
  <1> QED BY <1>0, <1>1, Written DEF GivesUp, NoSource, Passes, LooksIfDown, ReadsLines, Still, Marked

\* A step of a remount, and the steps after it.
LEMMA RemountMoves ==
  ASSUME Kept, NEW c \in Clients, Work(c), job[c].kind = "remount", Step(c).do \in RemountDos
  PROVE  /\ Step(c) \in Ahead(job[c].plan)
         /\ \/ job'[c] = Idle
            \/ /\ job'[c].kind = "remount"
               /\ Ahead(job[c].plan) = {Step(c)} \cup Ahead(job'[c].plan)
               /\ \A t \in Ahead(job'[c].plan) : Follows("remount", Step(c), t)
  <1>0. FilesOK /\ JobsOK /\ JobsInv /\ job[c] \in Jobs /\ PlanOK(job[c])
    BY DEF Kept, JobsOK, JobsInv
  <1>1. job[c].plan # <<>>
        /\ \/ GivesUp(c) \/ NoSource(c) \/ Passes(c) \/ LooksIfDown(c) \/ ReadsLines(c)
           \/ SaveState(c) \/ WritePool(c) \/ LookAndWritePool(c) \/ DropPool(c)
           \/ WriteBind(c) \/ DropBind(c) \/ AddLine(c) \/ DropLine(c) \/ WriteLines(c)
    BY <1>0, WorksOn, WorkCases
  <1>2. Step(c) \in Ahead(job[c].plan)
    BY <1>0, <1>1, NextStep
  <1>3. End(c) \/ Onward(c)
    <2>1. CASE GivesUp(c) \/ NoSource(c) \/ Passes(c)
      BY <2>1 DEF GivesUp, NoSource, Passes
    <2>2. CASE SaveState(c) \/ WritePool(c) \/ DropPool(c)
               \/ WriteBind(c) \/ DropBind(c) \/ AddLine(c) \/ DropLine(c) \/ WriteLines(c)
      <3>1. ~At(c, "lookPool")
        BY <2>2 DEF SaveState, WritePool, DropPool, WriteBind, DropBind, AddLine, DropLine, WriteLines, At
      <3> QED BY <1>0, <2>2, <3>1, Written
    <2>3. ~(LooksIfDown(c) \/ ReadsLines(c) \/ LookAndWritePool(c))
      BY DEF LooksIfDown, ReadsLines, LookAndWritePool, At, Step, RemountDos
    <2> QED BY <1>1, <2>1, <2>2, <2>3
  <1>4. CASE End(c)
    BY <1>0, <1>2, <1>4 DEF End, JobsOK
  <1>5. CASE Onward(c)
    <2> DEFINE rest == Tail(job[c].plan)
    <2>1. CASE rest = <<>>
      BY <1>0, <1>2, <1>5, <2>1 DEF Onward, Becomes, End, JobsOK
    <2>2. CASE rest # <<>>
      <3>1. job'[c].kind = "remount" /\ job'[c].plan = rest
        BY <1>0, <1>5, <2>2, BecomesJob DEF Onward
      <3> QED BY <1>0, <1>1, <1>2, <3>1, PlanTail DEF Step
    <2> QED BY <2>1, <2>2
  <1> QED BY <1>3, <1>4, <1>5

\* A remount changes nothing that is saved, and finds the units as saved.
LEMMA RemountSees ==
  ASSUME Kept, Serial, FilesInv, Clean, NEW c \in Clients, Work(c), job[c].kind = "remount"
  PROVE  Units = binds /\ UNCHANGED config
  <1>1. CASE Owns(c)
    <2>1. job[c].draft = Now
      BY <1>1, Owner DEF DraftOK
    <2>2. Halfway(job[c], poolUnits, Units, fstab)
      BY <1>1 DEF FilesInv
    <2>3. SaveState(c) \/ UNCHANGED config
      BY WorkMoves
    <2>4. SaveState(c) => UNCHANGED config
      BY <2>1 DEF SaveState, Now, config
    <2>5. job[c].draft.binds = binds
      BY <2>1 DEF Now
    <2> QED BY <2>2, <2>3, <2>4, <2>5 DEF Halfway
  <1>2. CASE ~Owns(c)
    <2>1. UNCHANGED config
      BY <1>2, OwnersStay
    <2>2. Matches(poolUnits, Units, fstab)
      BY <1>2, NobodyOwns DEF FilesInv
    <2> QED BY <2>1, <2>2 DEF Matches
  <1> QED BY <1>1, <1>2

LEMMA RemountMounts ==
  ASSUME Kept, NEW c \in Clients, Work(c), Step(c).do \in RemountDos
  PROVE  /\ Step(c).do # "stopPool" => mounted \subseteq mounted'
         /\ Step(c).do = "startBind" /\ Step(c).must /\ job'[c] # Idle
              => Active(mounted', "bind", Step(c).on.name)
  <1>1. \/ SaveState(c) \/ WritePool(c) \/ StartPool(c) \/ StopPool(c) \/ StartBind(c) \/ Answer(c)
    BY DEF RemountDos, Step, Work, LookAndWritePool, DropPool, TunePool, MakeSource, WriteBind,
           DropBind, StopBind, AddLine, DropLine, AttachDisk, DetachDisk, StartIfDown, ReadLines,
           WriteLines, At
  <1>2. CASE SaveState(c) \/ WritePool(c) \/ Answer(c)
    BY <1>2 DEF SaveState, WritePool, Answer, At, Step
  <1>3. CASE StopPool(c)
    BY <1>3 DEF StopPool, At, Step
  <1>4. CASE StartPool(c)
    BY <1>4, StartedPool DEF StartPool, At, Step
  <1>5. CASE StartBind(c)
    <2>1. CASE UNCHANGED mounted /\ Fail(c)
      <3>1. Step(c).must => job'[c] = Idle
        BY <2>1 DEF Fail, End, Step, Kept, JobsOK
      <3> QED BY <1>5, <2>1, <3>1 DEF StartBind, At, Step
    <2>2. CASE ~(UNCHANGED mounted /\ Fail(c))
      <3>1. PICK v \in bindUnits : v.bind.name = Step(c).on.name /\ mounted' \in AfterBindStart(v)
        BY <1>5, <2>2 DEF StartBind, On, Step
      <3> QED BY <3>1, StartedBind
    <2> QED BY <2>1, <2>2
  <1> QED BY <1>1, <1>2, <1>3, <1>4, <1>5

LEMMA RestartedLater == ASSUME UNCHANGED config PROVE \A p : Restarted(p)' = Restarted(p)
  BY DEF config, Restarted, Config!PoolForPath

LEMMA IdleRemountOK == RemountOK(Idle) /\ RemountOK(Idle)'
  BY DEF RemountOK, Idle

LEMMA RemountWorks ==
  ASSUME Kept, Serial, FilesInv, RestsInv, RemountInv, PoolsApart, NEW c \in Clients, Work(c)
  PROVE  RemountInv'
  <1> SUFFICES ASSUME Clean', "moved" \notin marks' PROVE \A d \in Clients : RemountOK(job[d])'
    BY DEF RemountInv
  <1>0. Clean /\ "moved" \notin marks
    BY WorkMarks DEF Clean
  <1>1. RemountOK(job[c]) /\ job[c] # Idle /\ \A d \in Clients \ {c} : job'[d] = job[d]
    BY <1>0, WorkMoves DEF RemountInv
  <1>2. ASSUME NEW d \in Clients \ {c} PROVE RemountOK(job[d])'
    <2>1. job'[d] = Idle
      BY <1>1 DEF Serial, Lone
    <2> QED BY <2>1, IdleRemountOK DEF RemountOK
  <1>3. ASSUME job'[c] = Idle PROVE RemountOK(job[c])'
    BY <1>3, IdleRemountOK DEF RemountOK
  <1>4. ASSUME job'[c] # Idle, job[c].kind # "remount" PROVE RemountOK(job[c])'
    <2>1. job'[c].kind = job[c].kind /\ job'[c].down = job[c].down
      BY <1>4, DownMoves
    <2> QED BY <1>1, <1>4, <2>1 DEF RemountOK
  <1>5. ASSUME job'[c] # Idle, job[c].kind = "remount" PROVE RemountOK(job[c])'
    <2>1. Step(c) \in Ahead(job[c].plan)
      BY WorksOn, NextStep DEF Kept
    <2>2. Step(c).do \in RemountDos
      BY <1>1, <1>5, <2>1 DEF RemountOK
    <2>3. /\ job'[c].kind = "remount"
          /\ Ahead(job[c].plan) = {Step(c)} \cup Ahead(job'[c].plan)
          /\ \A t \in Ahead(job'[c].plan) : Follows("remount", Step(c), t)
      BY <1>5, <2>2, RemountMoves
    <2>4. Units = binds /\ UNCHANGED config
      BY <1>0, <1>5, RemountSees
    <2>5. \A b : Brings(job[c], b) /\ ~(Step(c).do = "startBind" /\ Step(c).on = b) => Brings(job'[c], b)
      BY <2>3 DEF Brings
    <2>6. ASSUME NEW s \in Ahead(job'[c].plan), s.do = "stopPool"
          PROVE  job'[c].down = {} /\ s.on \in pools /\ \A b \in Restarted(s.on) : Brings(job'[c], b)
      <3>1. Step(c).do = "writePool"
        BY <2>3, <2>6 DEF Follows, Leads
      <3>2. job'[c].down = job[c].down
        BY <1>5, <3>1, DownMoves DEF StopPool, At, Step
      <3> QED BY <1>1, <1>5, <2>3, <2>5, <2>6, <3>1, <3>2 DEF RemountOK
    <2>7. ASSUME NEW b \in binds, b.name \in job'[c].down
          PROVE  Active(mounted', "bind", b.name) \/ Brings(job'[c], b)
      <3>1. CASE StopPool(c)
        <4>1. Step(c).do = "stopPool" /\ On(c) = Step(c).on
          BY <3>1 DEF StopPool, At, On, Step
        <4>2. job[c].down = {} /\ On(c) \in pools /\ \A x \in Restarted(On(c)) : Brings(job[c], x)
          BY <1>1, <1>5, <2>1, <4>1 DEF RemountOK
        <4>3. b.name \in {m.name : m \in Dependents(On(c).name)}
          BY <1>5, <2>7, <4>2, DownMoves
        <4>4. PICK v \in bindUnits : v.bind.name = b.name /\ On(c).name \in v.requires
          BY <4>3 DEF Dependents
        <4>5. v.bind = b
          BY <2>4, <4>4 DEF Units, Kept, SavedOK, Config!ConfigTypeOK, Config!OnePerName
        <4>6. RequiresOK(bindUnits, pools)
          BY <1>0 DEF RestsInv, RestOn
        <4>7. b \in Restarted(On(c))
          BY <2>4, <4>2, <4>4, <4>5, <4>6, RequiredRestarts
        <4> QED BY <2>5, <4>1, <4>2, <4>7
      <3>2. CASE ~StopPool(c)
        <4>1. job'[c].down = job[c].down
          BY <1>5, <3>2, DownMoves
        <4>2. Active(mounted, "bind", b.name) \/ Brings(job[c], b)
          BY <1>1, <1>5, <2>7, <4>1 DEF RemountOK
        <4>3. Step(c).do # "stopPool"
          BY <1>1, <1>5, <2>1, <2>7, <4>1 DEF RemountOK
        <4>4. mounted \subseteq mounted'
          BY <2>2, <4>3, RemountMounts
        <4>5. ASSUME Step(c).do = "startBind", Step(c).on = b PROVE Active(mounted', "bind", b.name)
          BY <1>1, <1>5, <2>1, <2>2, <4>5, RemountMounts DEF RemountOK
        <4> QED BY <2>5, <4>2, <4>4, <4>5 DEF Active
      <3> QED BY <3>1, <3>2
    <2>8. binds' = binds /\ pools' = pools /\ \A p : Restarted(p)' = Restarted(p)
      BY <2>4, RestartedLater DEF config
    <2>9. \A s \in Ahead(job'[c].plan) : s.do \in RemountDos /\ (s.do = "startBind" => s.must)
      BY <1>1, <1>5, <2>3 DEF RemountOK
    <2> QED BY <2>3, <2>6, <2>7, <2>8, <2>9 DEF RemountOK, Brings
  <1> QED BY <1>2, <1>3, <1>4, <1>5

LEMMA NextRemount ==
  ASSUME ~Overlap, Kept, Serial, FilesInv, RestsInv, RemountInv, PoolsApart, [Next]_vars
  PROVE  RemountInv'
  <1>0. JobsOK /\ SavedOK
    BY DEF Kept
  <1>1. ASSUME NEW c \in Clients, Work(c) PROVE RemountInv'
    BY <1>1, RemountWorks
  <1>2. ASSUME \A d \in Clients : job'[d] = Idle PROVE RemountInv'
    BY <1>2, IdleRemountOK DEF RemountInv, RemountOK
  <1>3. ASSUME NEW c \in Clients, Request(c) PROVE RemountInv'
    <2>1. \A d \in Clients : job[d] = Idle
      BY <1>3, Arrives DEF Quiet
    <2>2. CASE ChangeShares(c)
      BY <1>2, <2>1, <2>2 DEF ChangeShares
    <2>3. CASE TakesLock(c) \/ TakesNone(c)
      <3>1. PICK j : Sound(j) /\ Opens(j) /\ Begins(c, j)
        BY <2>3 DEF TakesLock, TakesNone, LockedJob, FreeJob
      <3>2. job'[c] = j /\ UNCHANGED config /\ \A d \in Clients \ {c} : job'[d] = Idle
        BY <1>0, <2>1, <3>1 DEF JobsOK, Begins
      <3>3. binds' = binds /\ pools' = pools /\ \A p : Restarted(p)' = Restarted(p)
        BY <3>2, RestartedLater DEF config
      <3>4. RemountOK(job[c])'
        BY <3>1, <3>2, <3>3 DEF RemountOK, Sound, Opens, Brings
      <3>5. \A d \in Clients \ {c} : RemountOK(job[d])'
        BY <3>2, IdleRemountOK DEF RemountOK
      <3> QED BY <3>4, <3>5 DEF RemountInv
    <2> QED BY <1>0, <1>3, <2>2, <2>3, RequestCases
  <1>4. CASE Restart \/ Reboot
    BY <1>2, <1>4 DEF Restart, Reboot, Dropped
  <1>5. CASE UNCHANGED vars
    <2>1. UNCHANGED <<config, job, mounted, marks>>
      BY <1>5 DEF vars
    <2>2. binds' = binds /\ pools' = pools /\ \A p : Restarted(p)' = Restarted(p)
      BY <2>1, RestartedLater DEF config
    <2> QED BY <2>1, <2>2 DEF RemountInv, RemountOK, Brings, Clean
  <1> QED BY <1>1, <1>3, <1>4, <1>5 DEF Next

(* No bind mount stays down after a remount that succeeds: systemd stops   *)
(* those whose units require the pool, and these units were written when   *)
(* the pool was the one nearest above the source, so that they are among   *)
(* those remount_pool_with_binds starts again; every start must succeed.   *)
(* A pool below the mountpoint of another one would break this: it may     *)
(* come nearer to a source after the unit was written.                     *)
THEOREM RemountRestoresBindsHolds ==
  ASSUME ~Overlap, PoolsApart, {"cut", "stale", "moved"} \subseteq Watched
  PROVE  Spec => []RemountRestoresBinds
  <1>1. Init => FilesInv /\ Serial /\ RestsInv /\ GuardsCover /\ RemountInv
    <2>1. ASSUME Init PROVE RemountInv
      BY <2>1, IdleRemountOK DEF Init, RemountInv
    <2> QED BY <2>1, InitRests
  <1>2. Kept /\ FilesInv /\ Serial /\ RestsInv /\ GuardsCover /\ RemountInv /\ [Next]_vars
        => FilesInv' /\ Serial' /\ RestsInv' /\ GuardsCover' /\ RemountInv'
    BY NextMatches, NextSerial, NextRests, NextCovers, NextRemount
  <1>3. Kept /\ RemountInv => RemountRestoresBinds
    <2> SUFFICES ASSUME Kept, RemountInv, NEW c \in Clients, NEW b \in binds, At(c, "done"),
                        b.name \in job[c].down, Clean, "moved" \notin marks
                 PROVE  Active(mounted, "bind", b.name)
      BY DEF RemountRestoresBinds, Clean
    <2>1. RemountOK(job[c])
      BY DEF RemountInv
    <2>2. Active(mounted, "bind", b.name) \/ Brings(job[c], b)
      BY <2>1 DEF RemountOK
    <2>3. \A s \in Ahead(job[c].plan) : s.do = "done"
      <3> DEFINE j2 == [job[c] EXCEPT !.plan = Tail(@)]
      <3>1. job[c] \in Jobs /\ PlanOK(job[c]) /\ job[c].plan # <<>> /\ Head(job[c].plan).do = "done"
        BY DEF Kept, JobsOK, JobsInv, At
      <3>2. j2.kind = job[c].kind /\ j2.plan = Tail(job[c].plan)
        BY <3>1 DEF Jobs
      <3>3. /\ Ahead(job[c].plan) = {Head(job[c].plan)} \cup Ahead(j2.plan)
            /\ \A y \in Ahead(j2.plan) : Follows(job[c].kind, Head(job[c].plan), y)
        BY <3>1, <3>2, PlanTail
      <3> QED BY <3>1, <3>3 DEF Follows, Leads
    <2> QED BY <2>2, <2>3 DEF Brings
  <1> QED BY <1>1, <1>2, <1>3, AlwaysKept, PTL DEF Spec

-----------------------------------------------------------------------------
(* The lines of fstab *)

Attaching == {"mountDisk", "save"}

\* The request j has no line that it will not save, or removes it; and it has
\* no line that is not saved yet while it may still end without a mark.
LinesOK(j) ==
  /\ fstab \subseteq j.draft.disks \/ \E s \in Ahead(j.plan) : s.do = "dropLine"
  /\ fstab \subseteq disks \/ \A s \in Ahead(j.plan) : s.do \in Attaching
  /\ \A s \in Ahead(j.plan) :
       s.do = "addLine" => \A t \in Ahead(j.plan) : t.do \in Attaching \cup {"addLine"}

LinesInv ==
  Clean /\ "left" \notin marks =>
    /\ (\A c \in Clients : ~Owns(c)) => fstab \subseteq disks
    /\ \A c \in Clients : Owns(c) => LinesOK(job[c])

\* Nobody has a line to write or to save.
LEMMA LinesStay ==
  ASSUME LinesInv, fstab' \subseteq disks', \A c \in Clients : ~Owns(c)'
  PROVE  LinesInv'
  BY DEF LinesInv

\* No line is written, and who changes the files stays.
LEMMA SameLines ==
  ASSUME LinesInv, UNCHANGED disks, fstab' = fstab, marks \subseteq marks',
         \A c \in Clients : (Owns(c)' <=> Owns(c)) /\ (Owns(c) => job'[c] = job[c])
  PROVE  LinesInv'
  <1> SUFFICES ASSUME Clean', "left" \notin marks'
               PROVE  /\ (\A c \in Clients : ~Owns(c)') => fstab' \subseteq disks'
                      /\ \A c \in Clients : Owns(c)' => LinesOK(job[c])'
    BY DEF LinesInv
  <1>1. Clean /\ "left" \notin marks
    BY DEF Clean
  <1>2. (\A c \in Clients : ~Owns(c)') => fstab' \subseteq disks'
    BY <1>1 DEF LinesInv
  <1>3. ASSUME NEW c \in Clients, Owns(c)' PROVE LinesOK(job[c])'
    BY <1>1, <1>3 DEF LinesInv, LinesOK
  <1> QED BY <1>2, <1>3

LEMMA InitLines == Init => LinesInv
  <1> SUFFICES ASSUME Init PROVE LinesInv
    OBVIOUS
  <1>1. lock = NoClient /\ fstab = {}
    BY DEF Init
  <1> QED BY <1>1, HostAssumption DEF LinesInv, Owns

LEMMA RequestLines ==
  ASSUME Kept, LinesInv, NEW c \in Clients, Request(c)
  PROVE  LinesInv'
  <1>0. SavedOK /\ JobsOK /\ JobsInv /\ NoClient \notin Clients
    BY HostAssumption DEF Kept
  <1>1. UNCHANGED <<fstab, marks>>
    BY RequestMounts DEF files
  <1>2. CASE ChangeShares(c)
    <2>1. UNCHANGED <<lock, job, disks>>
      BY <1>2 DEF ChangeShares, Config!ShareChange, Config!CreateShare, Config!UpdateShare,
                  Config!DeleteShare
    <2> QED BY <1>1, <2>1, SameLines DEF Owns, Commits
  <1>3. CASE TakesNone(c)
    <2>1. PICK j : FreeJob(j) /\ UNCHANGED lock /\ Begins(c, j)
      BY <1>3 DEF TakesNone
    <2>2. UNCHANGED disks /\ lock # c /\ \A d \in Clients \ {c} : job'[d] = job[d]
      BY <1>0, <2>1 DEF Begins, JobsOK, JobsInv, Idle, config
    <2>3. \A d \in Clients : (Owns(d)' <=> Owns(d)) /\ (Owns(d) => job'[d] = job[d])
      BY <2>1, <2>2 DEF Owns, Commits
    <2> QED BY <1>1, <2>2, <2>3, SameLines
  <1>4. CASE TakesLock(c)
    <2> SUFFICES ASSUME Clean', "left" \notin marks' PROVE LinesInv'
      BY DEF LinesInv
    <2>1. PICK j : LockedJob(j) /\ Locks(c) /\ Begins(c, j)
      BY <1>4 DEF TakesLock
    <2>2. UNCHANGED disks /\ lock = NoClient /\ lock' = c /\ job'[c] = j
      BY <1>0, <2>1 DEF Locks, Begins, JobsOK, config
    <2>3. fstab \subseteq disks
      BY <1>0, <1>1, <2>2 DEF LinesInv, Clean, Owns
    <2>4. LinesOK(j)
      BY <2>1, <2>3 DEF LinesOK, LockedJob, Opens, DropsLines, Attaching
    <2>5. Owns(c)' /\ \A d \in Clients : Owns(d)' => d = c
      BY <2>1, <2>2 DEF Owns, LockedJob, Commits
    <2> QED BY <1>1, <2>2, <2>4, <2>5 DEF LinesInv, LinesOK
  <1> QED BY <1>0, <1>2, <1>3, <1>4, RequestCases

LEMMA OthersLines ==
  ASSUME {"cut", "stale"} \subseteq Watched, Kept, FilesInv, LinesInv,
         NEW c \in Clients, Work(c), ~Owns(c)
  PROVE  LinesInv'
  <1> SUFFICES ASSUME Clean' PROVE LinesInv'
    BY DEF LinesInv
  <1>1. /\ \A d \in Clients : (Owns(d)' <=> Owns(d)) /\ (Owns(d) => job'[d] = job[d])
        /\ UNCHANGED config /\ (Still \/ WritePool(c) \/ WriteBind(c) \/ WriteLines(c))
    BY OwnersStay
  <1>2. fstab' = fstab
    BY <1>1, StayFiles, UnlockedWrites
  <1> QED BY <1>1, <1>2, WorkMarks, SameLines DEF config

\* A disk that does not mount leaves a mark.
LEMMA AttachEnds ==
  ASSUME Kept, NEW c \in Clients, Work(c), Owns(c), Step(c).do = "mountDisk", End(c),
         "left" \in Watched
  PROVE  "left" \in marks'
  <1>1. AttachDisk(c)
    BY DEF Step, Work, SaveState, WritePool, LookAndWritePool, DropPool, TunePool, StartPool, StopPool,
           MakeSource, WriteBind, DropBind, StartBind, StopBind, AddLine, DropLine,
           DetachDisk, StartIfDown, ReadLines, WriteLines, Answer, At
  <1>2. job'[c] = Idle
    BY DEF End, Kept, JobsOK
  <1>3. ~Proceed(c)
    <2> SUFFICES ASSUME Proceed(c) PROVE FALSE
      OBVIOUS
    <2>1. Onward(c)
      BY Proceeds, Owner DEF Kept
    <2>2. Owns(c)'
      BY <2>1, OwnerMoves
    <2>3. Ahead(Idle.plan) = {}
      BY IdleTyped, AheadEmpty
    <2> QED BY <1>2, <2>2, <2>3 DEF Owns, Commits
  <1>4. On(c) \notin disks
    BY Owner DEF StepOK, On, Step
  <1> QED BY <1>1, <1>3, <1>4 DEF AttachDisk, Marking

\* The owner takes a step and goes on.
LEMMA OnwardLines ==
  ASSUME Kept, LinesInv, NEW c \in Clients, Owns(c), Onward(c), Step(c).do \notin {"save", "lookPool"},
         UNCHANGED config, Marked,
         \/ UNCHANGED fstab /\ Step(c).do # "dropLine"
         \/ AddLine(c) \/ DropLine(c)
  PROVE  LinesInv'
  <1> SUFFICES ASSUME Clean', "left" \notin marks' PROVE LinesInv'
    BY DEF LinesInv
  <1>1. /\ lock' = c /\ job'[c].draft = job[c].draft /\ Owns(c)'
        /\ Ahead(job[c].plan) = {Step(c)} \cup Ahead(job'[c].plan)
        /\ \A y \in Ahead(job'[c].plan) : Follows(job[c].kind, Step(c), y)
    BY OwnerMoves
  <1>2. LinesOK(job[c]) /\ disks' = disks
    BY DEF LinesInv, Marked, Clean, config
  <1>3. \A d \in Clients : Owns(d)' => d = c
    BY <1>1 DEF Owns
  <1>4. StepOK(job[c], Step(c))
    BY Owner
  <1>5. CASE UNCHANGED fstab /\ Step(c).do # "dropLine"
    <2>1. LinesOK(job[c])'
      BY <1>1, <1>2, <1>5 DEF LinesOK
    <2> QED BY <1>1, <1>3, <2>1 DEF LinesInv
  <1>6. CASE AddLine(c)
    <2>1. Step(c).do = "addLine" /\ On(c) = Step(c).on /\ fstab' = Config!Put(fstab, On(c))
      BY <1>6 DEF AddLine, At, Step, On
    <2>2. job[c].draft.disks = Config!Put(disks, On(c)) /\ ~Config!Has(disks, On(c).name)
      BY <1>4, <2>1 DEF StepOK
    <2>3. \A t \in Ahead(job[c].plan) : t.do \in Attaching \cup {"addLine"}
      BY <1>1, <1>2, <2>1 DEF LinesOK
    <2>4. fstab \subseteq job[c].draft.disks
      BY <1>2, <2>3 DEF LinesOK, Attaching
    <2>5. fstab' \subseteq job[c].draft.disks
      BY <2>1, <2>2, <2>4 DEF Config!Put, Config!Without
    <2>6. \A t \in Ahead(job'[c].plan) : t.do \in Attaching
      BY <1>1, <2>3 DEF Follows, Leads
    <2>7. LinesOK(job[c])'
      BY <1>1, <2>5, <2>6 DEF LinesOK, Attaching
    <2> QED BY <1>1, <1>3, <2>7 DEF LinesInv
  <1>7. CASE DropLine(c)
    <2>1. Step(c).do = "dropLine" /\ On(c) = Step(c).on /\ fstab' = Config!Without(fstab, On(c).name)
      BY <1>7 DEF DropLine, At, Step, On
    <2>2. job[c].draft.disks = Config!Without(disks, On(c).name)
      BY <1>4, <2>1 DEF StepOK
    <2>3. fstab \subseteq disks
      BY <1>1, <1>2, <2>1 DEF LinesOK, Attaching
    <2>4. fstab' \subseteq job[c].draft.disks /\ fstab' \subseteq disks
      BY <2>1, <2>2, <2>3 DEF Config!Without
    <2>5. LinesOK(job[c])'
      BY <1>1, <1>2, <2>4 DEF LinesOK
    <2> QED BY <1>1, <1>3, <2>5 DEF LinesInv
  <1> QED BY <1>5, <1>6, <1>7

LEMMA OwnerLines ==
  ASSUME Kept, LinesInv, "left" \in Watched, NEW c \in Clients, Work(c), Owns(c)
  PROVE  LinesInv'
  <1>0. FilesOK /\ JobsOK /\ JobsInv /\ NoClient \notin Clients
    BY HostAssumption DEF Kept
  <1>1. \/ GivesUp(c) \/ NoSource(c) \/ Passes(c) \/ LooksIfDown(c) \/ ReadsLines(c)
        \/ SaveState(c) \/ WritePool(c) \/ LookAndWritePool(c) \/ DropPool(c)
        \/ WriteBind(c) \/ DropBind(c) \/ AddLine(c) \/ DropLine(c) \/ WriteLines(c)
    BY <1>0, WorksOn, WorkCases
  <1>2. ~LooksIfDown(c) /\ ~ReadsLines(c) /\ ~WriteLines(c)
    BY <1>0, Owner, ChoosesUnlocked DEF LooksIfDown, ReadsLines, WriteLines, At, Step, Owns, StepOK
  <1> SUFFICES ASSUME Clean', "left" \notin marks' PROVE LinesInv'
    BY DEF LinesInv
  <1>3. LinesOK(job[c]) /\ Step(c) \in Ahead(job[c].plan)
    BY WorkMarks, Owner DEF LinesInv, Clean
  <1>4. CASE GivesUp(c) \/ NoSource(c)
    <2>1. End(c) /\ Still
      BY <1>4 DEF GivesUp, NoSource
    <2>2. \A d \in Clients : ~Owns(d)'
      BY <1>0, <2>1 DEF End, Owns
    <2>3. Step(c).do \notin Attaching
      <3>1. Step(c).do # "mountDisk"
        BY <2>1, AttachEnds
      <3>2. Step(c).do # "save"
        BY <1>4 DEF GivesUp, NoSource, Fails, At, Step
      <3> QED BY <3>1, <3>2 DEF Attaching
    <2>4. fstab \subseteq disks
      BY <1>3, <2>3 DEF LinesOK
    <2> QED BY <2>1, <2>2, <2>4, LinesStay DEF Still, files, config
  <1>5. CASE Passes(c)
    BY <1>5, OnwardLines DEF Passes, Still, files, Writes
  <1>6. CASE WritePool(c) \/ DropPool(c) \/ WriteBind(c) \/ DropBind(c) \/ AddLine(c) \/ DropLine(c)
    <2>1. /\ Step(c).do \notin {"save", "lookPool"} /\ ~At(c, "lookPool") /\ UNCHANGED config
          /\ \/ UNCHANGED fstab /\ Step(c).do # "dropLine"
             \/ AddLine(c) \/ DropLine(c)
      BY <1>6 DEF WritePool, DropPool, WriteBind, DropBind, AddLine, DropLine, At, Step
    <2> QED BY <1>0, <1>6, <2>1, Written, OnwardLines
  <1>7. CASE SaveState(c)
    <2>1. fstab \subseteq job[c].draft.disks
      BY <1>3, <1>7, SaveEnds DEF LinesOK, After
    <2>2. fstab' = fstab /\ disks' = job[c].draft.disks
      BY <1>7 DEF SaveState, files
    <2> QED BY <1>7, <2>1, <2>2, SaveEnds, LinesStay
  <1>8. CASE LookAndWritePool(c)
    <2>1. /\ Step(c).do = "lookPool" /\ lock' = c /\ job'[c].draft = job[c].draft
          /\ Owns(c)'
      BY <1>8, LookMoves
    <2>2. UNCHANGED <<fstab, disks>>
      BY <1>8 DEF LookAndWritePool, config
    <2>3. fstab \subseteq disks /\ job[c].draft.disks = disks
      BY <1>3, <2>1, Owner DEF LinesOK, StepOK, Attaching
    <2>4. \A s \in Ahead(job'[c].plan) : s.do # "addLine"
      <3> DEFINE s == [do |-> "save"]
      <3>1. PICK x : /\ x.do \in {"tunePool", "mountPool"} /\ (x.do = "mountPool" => x.must = FALSE)
                     /\ Ahead(job'[c].plan) = {s, x}
        BY <1>8, LookMoves
      <3>2. s.do = "save"
        OBVIOUS
      <3> HIDE DEF s
      <3> QED BY <3>1, <3>2
    <2>5. LinesOK(job[c])'
      BY <2>1, <2>2, <2>3, <2>4 DEF LinesOK
    <2> QED BY <2>1, <2>5 DEF LinesInv, Owns
  <1> QED BY <1>1, <1>2, <1>4, <1>5, <1>6, <1>7, <1>8

LEMMA NextLines ==
  ASSUME {"cut", "stale", "left"} \subseteq Watched, Kept, FilesInv, LinesInv, [Next]_vars
  PROVE  LinesInv'
  <1>0. NoClient \notin Clients
    BY HostAssumption
  <1>1. ASSUME NEW c \in Clients, Request(c) PROVE LinesInv'
    BY <1>1, RequestLines
  <1>2. ASSUME NEW c \in Clients, Work(c) PROVE LinesInv'
    BY <1>2, OwnerLines, OthersLines
  <1>3. CASE Restart \/ Reboot
    <2> SUFFICES ASSUME Clean', "left" \notin marks' PROVE LinesInv'
      BY DEF LinesInv
    <2>1. ~Restart
      BY DEF Restart, Marking, Clean
    <2>2. Quiet /\ Clean /\ "left" \notin marks
      BY <1>3, <2>1 DEF Reboot, Clean
    <2>3. fstab \subseteq disks /\ \A d \in Clients : ~Owns(d)'
      BY <1>0, <1>3, <2>2, NooneOwns DEF LinesInv, Restart, Reboot, Dropped, Owns
    <2> QED BY <1>3, <2>1, <2>3, LinesStay DEF Reboot, config, files
  <1>4. CASE UNCHANGED vars
    BY <1>4 DEF vars, config, files, LinesInv, LinesOK, Clean, Owns, Commits
  <1> QED BY <1>1, <1>2, <1>3, <1>4 DEF Next


(* The units of pools and bind mounts are those that were saved, when no   *)
(* request is under way and none was cut off or wrote without the lock what*)
(* it had read too long ago; each saved disk has its line in fstab, and a  *)
(* line that is no saved disk's is one a disk that did not mount left      *)
(* there.  The order of each endpoint's steps decides it: what may fail    *)
(* comes before the first write, except when a write undoes nothing.       *)
THEOREM UnitsMatchHolds ==
  ASSUME {"cut", "stale", "left"} \subseteq Watched
  PROVE  Spec => []UnitsMatch
  <1>1. Init => FilesInv /\ LinesInv
    BY InitRests, InitLines
  <1>2. Kept /\ FilesInv /\ LinesInv /\ [Next]_vars => FilesInv' /\ LinesInv'
    BY NextMatches, NextLines
  <1>3. FilesInv /\ LinesInv => UnitsMatch
    <2> SUFFICES ASSUME FilesInv, LinesInv, Quiet, Clean
                 PROVE  /\ poolUnits = pools /\ {v.bind : v \in bindUnits} = binds
                        /\ disks \subseteq fstab /\ ("left" \notin marks => fstab \subseteq disks)
      BY DEF UnitsMatch, Clean
    <2>1. \A c \in Clients : ~Owns(c)
      BY NooneOwns
    <2> QED BY <2>1 DEF FilesInv, LinesInv, Matches, Units
  <1> QED BY <1>1, <1>2, <1>3, AlwaysKept, PTL DEF Spec

-----------------------------------------------------------------------------
(* The mounts of pools and disks *)

PoolsUp ==
  \A m \in mounted : m.kind = "pool" =>
    m.byUnit /\ \E u \in poolUnits : u.name = m.name /\ u.mountpoint = m.at

DisksUp == \A m \in mounted : m.kind = "disk" => \E d \in fstab : m = DiskMount(d)

\* The mounts that go by a name, and what a step that changes their unit or
\* line finds of them.
Named(kind, name) == {m \in mounted : m.kind = kind /\ m.name = name}

FindsMounts(s) ==
  /\ s.do \in {"writePool", "lookPool"} => \A m \in Named("pool", s.on.name) : m.at = s.on.mountpoint
  /\ s.do = "umountDisk" => \A m \in Named("disk", s.on.name) : m.at = s.on.mountpoint
  /\ s.do = "dropPool" => Named("pool", s.on.name) = {}
  /\ s.do \in {"addLine", "dropLine"} => Named("disk", s.on.name) = {}

HeadsOK == \A c \in Clients : job[c] # Idle => FindsMounts(Step(c))

MountsInv ==
  Clean /\ marks \cap {"direct", "left"} = {} => PoolsUp /\ DisksUp /\ HeadsOK

\* Which mounts a step adds.
LEMMA NewMounts ==
  ASSUME MountsOK, "direct" \in Watched, "direct" \notin marks', NEW c \in Clients, Work(c),
         NEW m \in mounted'
  PROVE  \/ m \in mounted \/ FromFiles(m)
         \/ m.kind = "pool" /\ \E x \in mounted : /\ x.kind = "pool" /\ m.byUnit = x.byUnit
                                                  /\ m.name = x.name /\ m.at = x.at
  <1>1. ~Direct(c, m)
    BY DEF Direct
  <1>2. ASSUME NEW x \in mounted, x.kind = "pool", m = [x EXCEPT !.from = On(c).branches]
        PROVE  m.kind = "pool" /\ m.byUnit = x.byUnit /\ m.name = x.name /\ m.at = x.at
    <2>1. \E p, u : x = PoolMount(p, u)
      BY <1>2, MountKinds DEF MountsOK
    <2> QED BY <1>2, <2>1 DEF PoolMount
  <1> QED BY <1>1, <1>2, WorkMounts DEF Tuned

\* What becomes of the files of the mounts that stay.
LEMMA FilesOfMounts ==
  ASSUME Kept, FilesInv, Serial, {"cut", "stale"} \subseteq Watched, Clean', PoolsUp, DisksUp, HeadsOK,
         NEW c \in Clients, Work(c)
  PROVE  /\ \A m \in mounted : m.kind = "pool" =>
              m.byUnit /\ \E u \in poolUnits' : u.name = m.name /\ u.mountpoint = m.at
         /\ \A m \in mounted : m.kind = "disk" => \E d \in fstab' : m = DiskMount(d)
  <1>1. FindsMounts(Step(c))
    BY WorkMoves DEF HeadsOK
  <1>2. poolUnits' = poolUnits \/ WritePool(c) \/ LookAndWritePool(c) \/ DropPool(c)
    BY DEF Work, SaveState, TunePool, StartPool, StopPool,
           MakeSource, WriteBind, DropBind, StartBind, StopBind, AddLine, DropLine, AttachDisk,
           DetachDisk, StartIfDown, ReadLines, WriteLines, Answer, files
  <1>3. fstab' = fstab \/ AddLine(c) \/ DropLine(c) \/ WriteLines(c)
    BY DEF Work, SaveState, WritePool, LookAndWritePool, DropPool, TunePool, StartPool, StopPool,
           MakeSource, WriteBind, DropBind, StartBind, StopBind, AttachDisk,
           DetachDisk, StartIfDown, ReadLines, Answer, files
  <1>4. ASSUME NEW m \in mounted, m.kind = "pool"
        PROVE  \E u \in poolUnits' : u.name = m.name /\ u.mountpoint = m.at
    <2>1. PICK u \in poolUnits : u.name = m.name /\ u.mountpoint = m.at
      BY <1>4 DEF PoolsUp
    <2>2. CASE WritePool(c) \/ LookAndWritePool(c)
      <3>1. /\ Step(c).do \in {"writePool", "lookPool"} /\ On(c) = Step(c).on
            /\ poolUnits' = Config!Put(poolUnits, On(c))
        BY <2>2 DEF WritePool, LookAndWritePool, At, On, Step
      <3>2. m.name = On(c).name => m.at = On(c).mountpoint
        BY <1>1, <1>4, <3>1 DEF FindsMounts, Named
      <3> QED BY <2>1, <3>1, <3>2 DEF Config!Put, Config!Without
    <2>3. CASE DropPool(c)
      <3>1. /\ Step(c).do = "dropPool" /\ On(c) = Step(c).on
            /\ poolUnits' = Config!Without(poolUnits, On(c).name)
        BY <2>3 DEF DropPool, At, On, Step
      <3>2. m.name # On(c).name
        BY <1>1, <1>4, <3>1 DEF FindsMounts, Named
      <3> QED BY <2>1, <3>1, <3>2 DEF Config!Without
    <2> QED BY <1>2, <2>1, <2>2, <2>3
  <1>5. ASSUME NEW m \in mounted, m.kind = "disk" PROVE \E d \in fstab' : m = DiskMount(d)
    <2>1. PICK d \in fstab : m = DiskMount(d)
      BY <1>5 DEF DisksUp
    <2>2. m.name = d.name
      BY <2>1 DEF DiskMount
    <2>3. CASE AddLine(c) \/ DropLine(c)
      <3>1. /\ Step(c).do \in {"addLine", "dropLine"} /\ On(c) = Step(c).on
            /\ Config!Without(fstab, On(c).name) \subseteq fstab'
        BY <2>3 DEF AddLine, DropLine, At, On, Step, Config!Put
      <3>2. m.name # On(c).name
        BY <1>1, <1>5, <3>1 DEF FindsMounts, Named
      <3> QED BY <2>1, <2>2, <3>1, <3>2 DEF Config!Without
    <2>4. CASE WriteLines(c)
      <3>1. fstab' = fstab
        BY <2>4 DEF WriteLines, Marking, Clean
      <3> QED BY <2>1, <3>1
    <2> QED BY <1>3, <2>1, <2>3, <2>4
  <1> QED BY <1>4, <1>5 DEF PoolsUp

LEMMA MountsHave ==
  ASSUME Kept, FilesInv, Serial, MountsOK, {"cut", "stale", "direct"} \subseteq Watched, Clean',
         "direct" \notin marks', PoolsUp, DisksUp, HeadsOK, NEW c \in Clients, Work(c)
  PROVE  PoolsUp' /\ DisksUp'
  <1>1. UNCHANGED mounted \/ UNCHANGED <<poolUnits, fstab>>
    BY WorkMounts DEF files
  <1>2. ASSUME NEW m \in mounted', m.kind = "pool"
        PROVE  m.byUnit /\ \E u \in poolUnits' : u.name = m.name /\ u.mountpoint = m.at
    <2>1. CASE UNCHANGED mounted
      BY <1>2, <2>1, FilesOfMounts
    <2>2. CASE UNCHANGED <<poolUnits, fstab>>
      <3>1. ASSUME FromFiles(m)
            PROVE  m.byUnit /\ \E u \in poolUnits : u.name = m.name /\ u.mountpoint = m.at
        <4>1. PICK u \in poolUnits : m = PoolMount(u, TRUE)
          BY <1>2, <3>1, MountKinds DEF FromFiles
        <4> QED BY <4>1 DEF PoolMount
      <3> QED BY <1>2, <2>2, <3>1, NewMounts DEF PoolsUp
    <2> QED BY <1>1, <2>1, <2>2
  <1>3. ASSUME NEW m \in mounted', m.kind = "disk" PROVE \E d \in fstab' : m = DiskMount(d)
    <2>1. CASE UNCHANGED mounted
      BY <1>3, <2>1, FilesOfMounts
    <2>2. CASE UNCHANGED <<poolUnits, fstab>>
      <3>1. FromFiles(m) => \E d \in fstab : m = DiskMount(d)
        BY <1>3, MountKinds DEF FromFiles
      <3> QED BY <1>3, <2>2, <3>1, NewMounts DEF DisksUp
    <2> QED BY <1>1, <2>1, <2>2
  <1> QED BY <1>2, <1>3 DEF PoolsUp, DisksUp

\* The step that comes next.
LEMMA NextHead ==
  ASSUME Kept, NEW c \in Clients, Work(c), job'[c] # Idle
  PROVE  \/ Step(c)'.do \in {"save", "tunePool", "mountPool", "startBind", "writeLines"}
         \/ Leads(Step(c), Step(c)')
  <1>0. FilesOK /\ SavedOK /\ JobsOK /\ JobsInv /\ job[c].plan # <<>> /\ StopsLast(job[c])
    BY WorksOn DEF Kept
  <1>1. ~End(c) /\ Step(c)' = Head(job'[c].plan)
    BY <1>0 DEF End, JobsOK, Step
  <1>2. job'[c].plan \in Seq(Steps) /\ job'[c].plan # <<>>
    BY <1>0, WorkTyped DEF JobsOK, Jobs
  <1>3. Step(c)' \in Ahead(job'[c].plan)
    BY <1>1, <1>2, AheadTail
  <1>4. CASE Onward(c)
    <2>1. Tail(job[c].plan) # <<>> /\ job[c] \in Jobs /\ PlanOK(job[c])
      BY <1>0, <1>1, <1>4 DEF Onward, Becomes, JobsOK, JobsInv
    <2>2. job'[c].kind = job[c].kind /\ job'[c].plan = Tail(job[c].plan)
      BY <1>0, <1>4, <2>1, BecomesJob DEF Onward
    <2>3. \A y \in Ahead(job'[c].plan) : Follows(job[c].kind, Head(job[c].plan), y)
      BY <1>0, <2>1, <2>2, PlanTail
    <2> QED BY <1>3, <2>3 DEF Follows, Step
  <1>5. CASE LooksIfDown(c)
    <2>1. Becomes(c, On(c).then) /\ Step(c).do = "ifDown" /\ On(c) = Step(c).on
      BY <1>1, <1>5 DEF LooksIfDown, Becomes, At, On, Step
    <2>2. On(c).then \in Retries
      BY <1>0, <2>1, NextStep, StepFields
    <2>3. job'[c].plan = On(c).then
      BY <1>0, <2>1, <2>2, RetryTyped, BecomesJob
    <2>4. \A p : Head(Must("mountPool", p)).do = "mountPool"
      BY DEF Must
    <2>5. \A b : Head(Must("startBind", b)).do = "startBind"
      BY DEF Must
    <2> QED BY <1>1, <2>2, <2>3, <2>4, <2>5 DEF Retries
  <1>6. CASE ReadsLines(c)
    <2> DEFINE lines == <<[do |-> "writeLines", lines |-> fstab]>>
    <2>1. Becomes(c, lines)
      BY <1>1, <1>6 DEF ReadsLines, Becomes
    <2>2. lines # <<>> /\ Head(lines).do = "writeLines"
      OBVIOUS
    <2> HIDE DEF lines
    <2>3. job'[c].plan = lines
      BY <1>0, <2>1, <2>2, BecomesJob
    <2> QED BY <1>1, <2>2, <2>3
  <1>7. CASE LookAndWritePool(c)
    <2>1. Step(c).do = "lookPool"
      BY <1>7 DEF LookAndWritePool, At, Step
    <2>2. Owns(c)
      BY <1>0, <2>1, CommitsLocked DEF Owns, LockedDos
    <2> DEFINE s == [do |-> "save"]
    <2>3. PICK x : /\ x.do \in {"tunePool", "mountPool"} /\ (x.do = "mountPool" => x.must = FALSE)
                   /\ Ahead(job'[c].plan) = {s, x}
      BY <1>7, <2>2, LookMoves
    <2>4. s.do = "save"
      OBVIOUS
    <2> HIDE DEF s
    <2> QED BY <1>3, <2>3, <2>4
  <1>8. CASE Onward(c) \/ LooksIfDown(c) \/ ReadsLines(c) \/ LookAndWritePool(c)
    BY <1>4, <1>5, <1>6, <1>7, <1>8
  <1>9. Onward(c) \/ LooksIfDown(c) \/ ReadsLines(c) \/ LookAndWritePool(c)
    <2>1. \/ GivesUp(c) \/ NoSource(c) \/ Passes(c) \/ LooksIfDown(c) \/ ReadsLines(c)
          \/ SaveState(c) \/ WritePool(c) \/ LookAndWritePool(c) \/ DropPool(c)
          \/ WriteBind(c) \/ DropBind(c) \/ AddLine(c) \/ DropLine(c) \/ WriteLines(c)
      BY <1>0, WorkCases
    <2>2. \/ SaveState(c) \/ WritePool(c) \/ DropPool(c) \/ WriteBind(c) \/ DropBind(c)
          \/ AddLine(c) \/ DropLine(c) \/ WriteLines(c)
          => Onward(c)
      BY <1>0, Written DEF SaveState, WritePool, DropPool, WriteBind, DropBind, AddLine, DropLine,
                           WriteLines, At
    <2> QED BY <1>1, <2>1, <2>2 DEF GivesUp, NoSource, Passes
  <1> QED BY <1>8, <1>9

\* No pool that is stopped, and no disk that is unmounted, is left mounted.
LEMMA TakenDown ==
  ASSUME Kept, PoolsUp, NEW c \in Clients, FindsMounts(Step(c)), Work(c), job'[c] # Idle
  PROVE  \A m \in mounted' :
           /\ Step(c).do = "stopPool" => ~(m.kind = "pool" /\ m.name = Step(c).on.name)
           /\ Step(c).do = "umountDisk" => ~(m.kind = "disk" /\ m.name = Step(c).on.name)
  <1>0. ~End(c) /\ On(c) = Step(c).on
    BY DEF End, Kept, JobsOK, On, Step
  <1>1. CASE Step(c).do = "stopPool"
    <2>1. StopPool(c)
      BY <1>1 DEF Step, Work, SaveState, WritePool, LookAndWritePool, DropPool, TunePool, StartPool,
             MakeSource, WriteBind, DropBind, StartBind, StopBind, AddLine, DropLine, AttachDisk,
             DetachDisk, StartIfDown, ReadLines, WriteLines, Answer, At
    <2> DEFINE own == {m \in mounted : m.kind = "pool" /\ m.name = On(c).name /\ m.byUnit}
    <2>2. \A m \in mounted : m.kind = "pool" /\ m.name = On(c).name =>
            m \in own /\ Config!Has(poolUnits, On(c).name)
      BY DEF PoolsUp, Config!Has
    <2>3. \/ ~Config!Has(poolUnits, On(c).name) /\ Umount(c, On(c).mountpoint)
          \/ own = {} /\ mounted' = mounted
          \/ mounted' = mounted \ (own \cup Dependents(On(c).name))
      BY <1>0, <2>1 DEF StopPool
    <2>4. mounted' \subseteq mounted
      BY <2>3, UmountTakes
    <2> QED BY <1>0, <1>1, <2>2, <2>3, <2>4
  <1>2. CASE Step(c).do = "umountDisk"
    <2>1. DetachDisk(c)
      BY <1>2 DEF Step, Work, SaveState, WritePool, LookAndWritePool, DropPool, TunePool, StartPool, StopPool,
             MakeSource, WriteBind, DropBind, StartBind, StopBind, AddLine, DropLine, AttachDisk,
             StartIfDown, ReadLines, WriteLines, Answer, At
    <2>2. mounted' = Unmounted(On(c).mountpoint)
      BY <1>0, <2>1 DEF DetachDisk, Umount
    <2> QED BY <1>0, <1>2, <2>2 DEF FindsMounts, Named, Unmounted
  <1> QED BY <1>1, <1>2

LEMMA WorkHeads ==
  ASSUME Kept, Serial, PoolsUp, HeadsOK, NEW c \in Clients, Work(c)
  PROVE  HeadsOK'
  <1> SUFFICES ASSUME NEW d \in Clients, job'[d] # Idle PROVE FindsMounts(Step(d))'
    BY DEF HeadsOK
  <1>1. job[c] # Idle /\ d = c
    BY WorkMoves DEF Serial, Lone
  <1>2. \/ Step(c)'.do \in {"save", "tunePool", "mountPool", "startBind", "writeLines"}
        \/ Leads(Step(c), Step(c)')
    BY <1>1, NextHead
  <1>3. \A m \in mounted' :
          /\ Step(c).do = "stopPool" => ~(m.kind = "pool" /\ m.name = Step(c).on.name)
          /\ Step(c).do = "umountDisk" => ~(m.kind = "disk" /\ m.name = Step(c).on.name)
    BY <1>1, TakenDown DEF HeadsOK
  <1> QED BY <1>1, <1>2, <1>3 DEF FindsMounts, Leads, Named

\* The steps after the first one.
LEMMA HeadLeads ==
  ASSUME NEW j, Sound(j)
  PROVE  /\ Head(j.plan) \in Ahead(j.plan)
         /\ \A t \in Ahead(j.plan) : t = Head(j.plan) \/ Leads(Head(j.plan), t)
  <1>1. j \in Jobs /\ j.plan \in Seq(Steps) /\ j.plan # <<>> /\ PlanOK(j)
    BY DEF Sound, Jobs
  <1> DEFINE rest == [kind |-> j.kind, plan |-> Tail(j.plan)]
  <1>2. rest.kind = j.kind /\ rest.plan = Tail(j.plan)
    OBVIOUS
  <1> HIDE DEF rest
  <1>3. /\ Ahead(j.plan) = {Head(j.plan)} \cup Ahead(rest.plan)
        /\ \A y \in Ahead(rest.plan) : Follows(j.kind, Head(j.plan), y)
    BY <1>1, <1>2, PlanTail
  <1> QED BY <1>3 DEF Follows

LEMMA FirstFinds ==
  ASSUME SavedOK, poolUnits = pools, fstab \subseteq disks, PoolsUp, DisksUp,
         NEW j, Sound(j), Opens(j)
  PROVE  FindsMounts(Head(j.plan))
  <1> DEFINE s == Head(j.plan)
  <1>1. s \in Ahead(j.plan) /\ \A t \in Ahead(j.plan) : t = s \/ Leads(s, t)
    BY HeadLeads
  <1> SUFFICES FindsMounts(s)
    OBVIOUS
  <1> HIDE DEF s
  <1>2. Config!OnePerName(pools) /\ Config!OnePerName(disks)
    BY DEF SavedOK, Config!ConfigTypeOK
  <1>3. ASSUME NEW m \in mounted, m.kind = "pool", m.name = s.on.name
        PROVE  \E u \in pools : u.name = s.on.name /\ u.mountpoint = m.at
    BY <1>3 DEF PoolsUp
  <1>4. ASSUME NEW m \in mounted, m.kind = "disk", m.name = s.on.name
        PROVE  \E d \in disks : d.name = s.on.name /\ d.mountpoint = m.at
    BY <1>4 DEF DisksUp, DiskMount
  <1>5. CASE s.do = "writePool"
    <2>1. s.on \in pools \/ ~Config!Has(pools, s.on.name)
      BY <1>1, <1>5 DEF Opens
    <2> QED BY <1>2, <1>3, <1>5, <2>1 DEF FindsMounts, Named, Config!OnePerName, Config!Has
  <1>6. CASE s.do = "lookPool"
    <2>1. PICK old \in pools : /\ old.name = s.on.name
                               /\ old.mountpoint = s.on.mountpoint \/ \E t \in Ahead(j.plan) : t.do = "stopPool"
      BY <1>1, <1>6 DEF Opens
    <2>2. old.mountpoint = s.on.mountpoint
      BY <1>1, <1>6, <2>1 DEF Leads
    <2> QED BY <1>2, <1>3, <1>6, <2>1, <2>2 DEF FindsMounts, Named, Config!OnePerName
  <1>7. CASE s.do = "umountDisk"
    <2>1. s.on \in disks
      BY <1>1, <1>7 DEF Opens
    <2> QED BY <1>2, <1>4, <1>7, <2>1 DEF FindsMounts, Named, Config!OnePerName
  <1>8. CASE s.do = "addLine"
    <2>1. \A m \in mounted : m.kind = "disk" => m.name # s.on.name
      BY <1>1, <1>8 DEF Opens
    <2> QED BY <1>8, <2>1 DEF FindsMounts, Named
  <1>9. s.do \notin {"dropPool", "dropLine"}
    <2>1. s.do = "dropPool" => \E t \in Ahead(j.plan) : t.do = "stopPool"
      BY <1>1 DEF Opens
    <2>2. s.do = "dropLine" => \E t \in Ahead(j.plan) : t.do = "umountDisk"
      BY <1>1 DEF Opens
    <2> QED BY <1>1, <2>1, <2>2 DEF Leads
  <1> QED BY <1>5, <1>6, <1>7, <1>8, <1>9 DEF FindsMounts

LEMMA RequestHeads ==
  ASSUME ~Overlap, Kept, FilesInv, LinesInv, Clean, "left" \notin marks, PoolsUp, DisksUp,
         NEW c \in Clients, Request(c)
  PROVE  HeadsOK'
  <1>0. SavedOK /\ JobsOK
    BY DEF Kept
  <1>1. Quiet /\ (\A d \in Clients : ~Owns(d)) /\ \A d \in Clients : job[d] = Idle
    BY Arrives, NooneOwns DEF Quiet
  <1>2. poolUnits = pools /\ fstab \subseteq disks /\ mounted' = mounted
    BY <1>1, RequestMounts DEF FilesInv, LinesInv, Matches
  <1>3. CASE ChangeShares(c)
    BY <1>1, <1>3 DEF ChangeShares, HeadsOK
  <1>4. CASE TakesLock(c) \/ TakesNone(c)
    <2>1. PICK j : Sound(j) /\ Opens(j) /\ Begins(c, j)
      BY <1>4 DEF TakesLock, TakesNone, LockedJob, FreeJob
    <2>2. FindsMounts(Head(j.plan))
      BY <1>0, <1>2, <2>1, FirstFinds
    <2>3. job'[c] = j /\ \A d \in Clients \ {c} : job'[d] = Idle
      BY <1>0, <1>1, <2>1 DEF Begins, JobsOK
    <2> QED BY <1>2, <2>2, <2>3 DEF HeadsOK, FindsMounts, Named, Step
  <1> QED BY <1>0, <1>3, <1>4, RequestCases

LEMMA NextMounts ==
  ASSUME ~Overlap, {"cut", "stale", "left", "direct"} \subseteq Watched, Kept, Serial, FilesInv,
         LinesInv, MountsOK, MountsInv, [Next]_vars
  PROVE  MountsInv'
  <1> SUFFICES ASSUME Clean', marks' \cap {"direct", "left"} = {}
               PROVE  PoolsUp' /\ DisksUp' /\ HeadsOK'
    BY DEF MountsInv
  <1>1. ASSUME NEW c \in Clients, Work(c) PROVE PoolsUp' /\ DisksUp' /\ HeadsOK'
    <2>1. marks \subseteq marks'
      BY <1>1, WorkMarks
    <2>2. PoolsUp /\ DisksUp /\ HeadsOK
      BY <2>1 DEF MountsInv, Clean
    <2> QED BY <1>1, <2>2, MountsHave, WorkHeads
  <1>2. ASSUME NEW c \in Clients, Request(c) PROVE PoolsUp' /\ DisksUp' /\ HeadsOK'
    <2>1. UNCHANGED <<mounted, poolUnits, fstab, marks>>
      BY <1>2, RequestMounts DEF files
    <2>2. PoolsUp /\ DisksUp /\ Clean /\ "left" \notin marks
      BY <2>1 DEF MountsInv, Clean
    <2> QED BY <1>2, <2>1, <2>2, RequestHeads DEF PoolsUp, DisksUp
  <1>3. CASE Restart
    BY <1>3 DEF Restart, Marking, Clean
  <1>4. CASE Reboot
    <2>1. UNCHANGED <<poolUnits, fstab>> /\ \A d \in Clients : job'[d] = Idle
      BY <1>4 DEF Reboot, Dropped, files
    <2>2. PICK found \in SUBSET fstab : mounted' = Booted(found)
      BY <1>4 DEF Reboot
    <2>3. ASSUME NEW m \in mounted'
          PROVE  /\ m.kind = "pool" => \E u \in poolUnits : m = PoolMount(u, TRUE)
                 /\ m.kind = "disk" => \E d \in fstab : m = DiskMount(d)
      <3>1. FromFiles(m)
        BY <2>2, <2>3, BootedFromFiles
      <3> QED BY <3>1, MountKinds DEF FromFiles
    <2> QED BY <2>1, <2>3 DEF PoolsUp, DisksUp, HeadsOK, PoolMount
  <1>5. CASE UNCHANGED vars
    <2>1. PoolsUp /\ DisksUp /\ HeadsOK
      BY <1>5 DEF vars, MountsInv, Clean
    <2> QED BY <1>5, <2>1 DEF vars, files, PoolsUp, DisksUp, HeadsOK, FindsMounts, Named, Step
  <1> QED BY <1>1, <1>2, <1>3, <1>4, <1>5 DEF Next

LEMMA MountsFit ==
  ASSUME Kept, Quiet, Clean, marks \cap {"left", "direct", "kept"} = {}, FilesInv, LinesInv, MountsOK,
         MountsInv, GuardInv
  PROVE  NoOrphanMount
  <1> SUFFICES ASSUME NEW m \in mounted
               PROVE  \/ m.kind = "pool" /\ \E p \in pools : p.name = m.name /\ p.mountpoint = m.at
                      \/ m.kind = "bind" /\ \E b \in binds : b.name = m.name /\ b.target = m.at
                      \/ m.kind = "disk" /\ \E d \in disks : d.name = m.name
    BY DEF NoOrphanMount
  <1>1. poolUnits = pools /\ Units = binds /\ fstab \subseteq disks
    BY NooneOwns DEF FilesInv, Matches, LinesInv
  <1>2. m.kind \in {"pool", "bind", "disk"}
    <2>1. \/ \E d \in DiskChoices : m = DiskMount(d)
          \/ \E p, q \in PoolChoices, u \in BOOLEAN : m = PoolMount([p EXCEPT !.branches = q.branches], u)
          \/ \E b \in BindChoices : \E table : m = BindMount(b, table)
      BY DEF MountsOK
    <2> QED BY <2>1, MountKinds
  <1>3. CASE m.kind = "pool"
    BY <1>1, <1>3 DEF MountsInv, PoolsUp
  <1>4. CASE m.kind = "bind"
    BY <1>1, <1>4 DEF GuardInv, BindsUp, MountedBy, Units
  <1>5. CASE m.kind = "disk"
    BY <1>1, <1>5 DEF MountsInv, DisksUp, DiskMount
  <1> QED BY <1>2, <1>3, <1>4, <1>5

(* Everything that is mounted when no request is under way is what the     *)
(* saved configuration puts there: a request unmounts a pool, a bind mount *)
(* or a disk before it removes the unit or the line that would mount it    *)
(* again, and stops when the unmount does.                                 *)
THEOREM NoOrphanMountHolds ==
  ASSUME ~Overlap, {"cut", "stale", "left", "direct", "kept"} \subseteq Watched
  PROVE  Spec => []NoOrphanMount
  <1>1. Init => Serial /\ FilesInv /\ LinesInv /\ MountsOK /\ MountsInv /\ GuardInv
    <2>1. Init => MountsOK /\ MountsInv /\ GuardInv
      BY DEF Init, MountsOK, MountsInv, PoolsUp, DisksUp, HeadsOK, GuardInv, GuardsCover, BindsUp
    <2> QED BY <2>1, InitRests, InitLines
  <1>2. Kept /\ Serial /\ FilesInv /\ LinesInv /\ MountsOK /\ MountsInv /\ GuardInv /\ [Next]_vars
        => Serial' /\ FilesInv' /\ LinesInv' /\ MountsOK' /\ MountsInv' /\ GuardInv'
    BY NextSerial, NextMatches, NextLines, NextMounts, MountsTyped, NextGuards DEF Kept
  <1>3. Kept /\ FilesInv /\ LinesInv /\ MountsOK /\ MountsInv /\ GuardInv => NoOrphanMount
    BY MountsFit DEF NoOrphanMount, Clean
  <1> QED BY <1>1, <1>2, <1>3, AlwaysKept, PTL DEF Spec
=============================================================================
