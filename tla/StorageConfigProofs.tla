------------------------- MODULE StorageConfigProofs -------------------------
(***************************************************************************)
(* What holds of the saved configuration for every set of pools, bind      *)
(* mounts, disks and shares that users may send.                           *)
(***************************************************************************)
EXTENDS StorageConfig, SequenceTheorems, TLAPS

-----------------------------------------------------------------------------
(* What Covers and Moved do to the segments of paths, and what follows for *)
(* paths that are shown at another place.                                  *)

AnyPath == Seq(Segments)

LEMMA CoversBySegments ==
  ASSUME NEW p \in AnyPath, NEW q \in AnyPath
  PROVE  Covers(p, q) <=> Len(p) <= Len(q) /\ \A i \in 1..Len(p) : p[i] = q[i]
  <1>1. Len(p) \in Nat /\ Len(q) \in Nat
    BY LenProperties DEF AnyPath
  <1>2. SubSeq(p, 1, Len(p)) = p
    BY SubSeqFull DEF AnyPath
  <1>3. ASSUME Len(p) <= Len(q)
        PROVE  /\ SubSeq(q, 1, Len(p)) \in Seq(Segments)
               /\ Len(SubSeq(q, 1, Len(p))) = Len(p)
               /\ \A i \in 1..Len(p) : SubSeq(q, 1, Len(p))[i] = q[i]
    <2>1. \A i \in 1..Len(p) : q[i] \in Segments
      BY <1>1, <1>3, ElementOfSeq DEF AnyPath
    <2>2. /\ SubSeq(q, 1, Len(p)) \in Seq(Segments)
          /\ Len(SubSeq(q, 1, Len(p))) = IF 1 <= Len(p) THEN Len(p) - 1 + 1 ELSE 0
          /\ \A i \in 1..(Len(p) - 1 + 1) : SubSeq(q, 1, Len(p))[i] = q[1 + i - 1]
      BY <1>1, <2>1, SubSeqProperties
    <2> QED BY <1>1, <2>2
  <1>4. ASSUME Covers(p, q) PROVE Len(p) <= Len(q) /\ \A i \in 1..Len(p) : p[i] = q[i]
    BY <1>2, <1>3, <1>4 DEF Covers, IsPrefix
  <1>5. ASSUME Len(p) <= Len(q), \A i \in 1..Len(p) : p[i] = q[i] PROVE Covers(p, q)
    <2>1. p = SubSeq(q, 1, Len(p))
      BY <1>3, <1>5, SeqEqual DEF AnyPath
    <2> QED BY <1>2, <1>5, <2>1 DEF Covers, IsPrefix
  <1> QED BY <1>4, <1>5

LEMMA MovedBySegments ==
  ASSUME NEW path \in AnyPath, NEW from \in AnyPath, NEW to \in AnyPath, Covers(from, path)
  PROVE  /\ Moved(path, from, to) \in AnyPath
         /\ Len(Moved(path, from, to)) = Len(to) + (Len(path) - Len(from))
         /\ \A i \in 1..Len(to) : Moved(path, from, to)[i] = to[i]
         /\ \A i \in (Len(to) + 1)..(Len(to) + (Len(path) - Len(from))) :
              Moved(path, from, to)[i] = path[Len(from) + (i - Len(to))]
  <1> DEFINE rest == SubSeq(path, Len(from) + 1, Len(path))
  <1>1. Len(path) \in Nat /\ Len(from) \in Nat /\ Len(to) \in Nat
    BY LenProperties DEF AnyPath
  <1>2. Len(from) <= Len(path)
    BY CoversBySegments
  <1>3. \A i \in (Len(from) + 1)..Len(path) : path[i] \in Segments
    BY <1>1, ElementOfSeq DEF AnyPath
  <1>4. /\ rest \in Seq(Segments)
        /\ Len(rest) = IF Len(from) + 1 <= Len(path) THEN Len(path) - (Len(from) + 1) + 1 ELSE 0
        /\ \A i \in 1..(Len(path) - (Len(from) + 1) + 1) : rest[i] = path[Len(from) + 1 + i - 1]
    BY <1>1, <1>3, SubSeqProperties
  <1>5. Len(rest) = Len(path) - Len(from)
    BY <1>1, <1>2, <1>4
  <1>6. \A i \in 1..Len(rest) : rest[i] = path[Len(from) + i]
    BY <1>1, <1>4, <1>5
  <1> HIDE DEF rest
  <1>7. /\ to \o rest \in Seq(Segments)
        /\ Len(to \o rest) = Len(to) + Len(rest)
        /\ \A i \in 1..(Len(to) + Len(rest)) :
             (to \o rest)[i] = IF i <= Len(to) THEN to[i] ELSE rest[i - Len(to)]
    BY <1>4, ConcatProperties DEF AnyPath
  <1>8. Moved(path, from, to) = to \o rest
    BY DEF Moved, rest
  <1>9. \A i \in 1..Len(to) : (to \o rest)[i] = to[i]
    BY <1>1, <1>2, <1>5, <1>7
  <1>10. \A i \in (Len(to) + 1)..(Len(to) + Len(rest)) : (to \o rest)[i] = path[Len(from) + (i - Len(to))]
    <2> TAKE i \in (Len(to) + 1)..(Len(to) + Len(rest))
    <2>1. i \in 1..(Len(to) + Len(rest)) /\ ~(i <= Len(to)) /\ i - Len(to) \in 1..Len(rest)
      BY <1>1, <1>2, <1>5
    <2>2. (to \o rest)[i] = rest[i - Len(to)]
      BY <1>7, <2>1
    <2> QED BY <1>6, <2>1, <2>2
  <1> QED BY <1>5, <1>7, <1>8, <1>9, <1>10 DEF AnyPath

(* Two places that both cover a path are nested.                           *)
LEMMA CoveringNested ==
  ASSUME NEW p \in AnyPath, NEW q \in AnyPath, NEW r \in AnyPath, Covers(p, r), Covers(q, r)
  PROVE  Nested(p, q)
  <1>1. Len(p) \in Nat /\ Len(q) \in Nat /\ Len(r) \in Nat
    BY LenProperties DEF AnyPath
  <1>2. /\ Len(p) <= Len(r) /\ \A i \in 1..Len(p) : p[i] = r[i]
        /\ Len(q) <= Len(r) /\ \A i \in 1..Len(q) : q[i] = r[i]
    BY CoversBySegments
  <1>3. CASE Len(p) <= Len(q)
    <2>1. \A i \in 1..Len(p) : p[i] = q[i]
      BY <1>1, <1>2, <1>3
    <2> QED BY <1>3, <2>1, CoversBySegments DEF Nested
  <1>4. CASE Len(q) <= Len(p)
    <2>1. \A i \in 1..Len(q) : q[i] = p[i]
      BY <1>1, <1>2, <1>4
    <2> QED BY <1>4, <2>1, CoversBySegments DEF Nested
  <1> QED BY <1>1, <1>3, <1>4

LEMMA CoversTransitive ==
  ASSUME NEW p \in AnyPath, NEW q \in AnyPath, NEW r \in AnyPath, Covers(p, q), Covers(q, r)
  PROVE  Covers(p, r)
  <1>1. Len(p) \in Nat /\ Len(q) \in Nat /\ Len(r) \in Nat
    BY LenProperties DEF AnyPath
  <1>2. /\ Len(p) <= Len(q) /\ \A i \in 1..Len(p) : p[i] = q[i]
        /\ Len(q) <= Len(r) /\ \A i \in 1..Len(q) : q[i] = r[i]
    BY CoversBySegments
  <1>3. Len(p) <= Len(r) /\ \A i \in 1..Len(p) : p[i] = r[i]
    BY <1>1, <1>2
  <1> QED BY <1>3, CoversBySegments

(* What is shown at to is covered by to.                                   *)
LEMMA MovedIsCovered ==
  ASSUME NEW path \in AnyPath, NEW from \in AnyPath, NEW to \in AnyPath, Covers(from, path)
  PROVE  Covers(to, Moved(path, from, to))
  <1>1. Len(path) \in Nat /\ Len(from) \in Nat /\ Len(to) \in Nat
    BY LenProperties DEF AnyPath
  <1>2. Len(from) <= Len(path)
    BY CoversBySegments
  <1>3. /\ Moved(path, from, to) \in AnyPath
        /\ Len(Moved(path, from, to)) = Len(to) + (Len(path) - Len(from))
        /\ \A i \in 1..Len(to) : Moved(path, from, to)[i] = to[i]
    BY MovedBySegments
  <1>4. Len(to) <= Len(Moved(path, from, to)) /\ \A i \in 1..Len(to) : to[i] = Moved(path, from, to)[i]
    BY <1>1, <1>2, <1>3
  <1> QED BY <1>3, <1>4, CoversBySegments

(* A place above what path becomes, and below where it is moved to, moves  *)
(* back to a place above path.                                             *)
LEMMA MovedBack ==
  ASSUME NEW path \in AnyPath, NEW from \in AnyPath, NEW to \in AnyPath, Covers(from, path),
         NEW q \in AnyPath, Covers(to, q), Covers(q, Moved(path, from, to))
  PROVE  Covers(Moved(q, to, from), path)
  <1> DEFINE there == Moved(path, from, to)
             back  == Moved(q, to, from)
  <1>1. Len(path) \in Nat /\ Len(from) \in Nat /\ Len(to) \in Nat /\ Len(q) \in Nat
    BY LenProperties DEF AnyPath
  <1>2. /\ Len(from) <= Len(path)
        /\ \A i \in 1..Len(from) : from[i] = path[i]
        /\ Len(to) <= Len(q)
    BY CoversBySegments
  <1>3. /\ there \in AnyPath
        /\ Len(there) = Len(to) + (Len(path) - Len(from))
        /\ \A i \in (Len(to) + 1)..(Len(to) + (Len(path) - Len(from))) :
             there[i] = path[Len(from) + (i - Len(to))]
    BY MovedBySegments
  <1>4. /\ back \in AnyPath
        /\ Len(back) = Len(from) + (Len(q) - Len(to))
        /\ \A i \in 1..Len(from) : back[i] = from[i]
        /\ \A i \in (Len(from) + 1)..(Len(from) + (Len(q) - Len(to))) :
             back[i] = q[Len(to) + (i - Len(from))]
    BY MovedBySegments
  <1> HIDE DEF back
  <1>5. Len(q) <= Len(there) /\ \A i \in 1..Len(q) : q[i] = there[i]
    BY <1>3, CoversBySegments
  <1> HIDE DEF there
  <1>6. Len(back) <= Len(path)
    BY <1>1, <1>3, <1>4, <1>5
  <1>7. ASSUME NEW i \in 1..Len(back) PROVE back[i] = path[i]
    <2>1. CASE i <= Len(from)
      BY <1>1, <1>2, <1>4, <2>1
    <2>2. CASE Len(from) < i
      <3> DEFINE j == Len(to) + (i - Len(from))
      <3>1. i \in (Len(from) + 1)..(Len(from) + (Len(q) - Len(to)))
        BY <1>1, <1>4, <2>2
      <3>2. back[i] = q[j]
        BY <1>4, <3>1
      <3>3. j \in 1..Len(q) /\ j \in (Len(to) + 1)..(Len(to) + (Len(path) - Len(from)))
        BY <1>1, <1>3, <1>5, <3>1
      <3>4. q[j] = there[j] /\ there[j] = path[Len(from) + (j - Len(to))]
        BY <1>3, <1>5, <3>3
      <3>5. Len(from) + (j - Len(to)) = i
        BY <1>1
      <3> QED BY <3>2, <3>4, <3>5
    <2> QED BY <1>1, <2>1, <2>2
  <1>8. Covers(back, path)
    BY <1>4, <1>6, <1>7, CoversBySegments
  <1> QED BY <1>8 DEF back

(* Moving a path there and back changes nothing.                           *)
LEMMA MovedThereAndBack ==
  ASSUME NEW path \in AnyPath, NEW from \in AnyPath, NEW to \in AnyPath, Covers(from, path)
  PROVE  Moved(Moved(path, from, to), to, from) = path
  <1> DEFINE there == Moved(path, from, to)
             back  == Moved(there, to, from)
  <1>1. Len(path) \in Nat /\ Len(from) \in Nat /\ Len(to) \in Nat
    BY LenProperties DEF AnyPath
  <1>2. /\ Len(from) <= Len(path)
        /\ \A i \in 1..Len(from) : from[i] = path[i]
    BY CoversBySegments
  <1>3. /\ there \in AnyPath
        /\ Len(there) = Len(to) + (Len(path) - Len(from))
        /\ \A i \in (Len(to) + 1)..(Len(to) + (Len(path) - Len(from))) :
             there[i] = path[Len(from) + (i - Len(to))]
    BY MovedBySegments
  <1>4. Covers(to, there)
    BY MovedIsCovered
  <1> HIDE DEF there
  <1>5. /\ back \in AnyPath
        /\ Len(back) = Len(from) + (Len(there) - Len(to))
        /\ \A i \in 1..Len(from) : back[i] = from[i]
        /\ \A i \in (Len(from) + 1)..(Len(from) + (Len(there) - Len(to))) :
             back[i] = there[Len(to) + (i - Len(from))]
    BY <1>3, <1>4, MovedBySegments
  <1> HIDE DEF back
  <1>6. Len(back) = Len(path)
    BY <1>1, <1>3, <1>5
  <1>7. ASSUME NEW i \in 1..Len(back) PROVE back[i] = path[i]
    <2>1. CASE i <= Len(from)
      BY <1>1, <1>2, <1>5, <2>1
    <2>2. CASE Len(from) < i
      <3> DEFINE j == Len(to) + (i - Len(from))
      <3>1. /\ i \in (Len(from) + 1)..(Len(from) + (Len(there) - Len(to)))
            /\ j \in (Len(to) + 1)..(Len(to) + (Len(path) - Len(from)))
        BY <1>1, <1>3, <1>5, <2>2
      <3>2. back[i] = there[j] /\ there[j] = path[Len(from) + (j - Len(to))]
        BY <1>3, <1>5, <3>1
      <3>3. Len(from) + (j - Len(to)) = i
        BY <1>1
      <3> QED BY <3>2, <3>3
    <2> QED BY <1>1, <1>6, <2>1, <2>2
  <1>8. back = path
    BY <1>5, <1>6, <1>7, SeqEqual DEF AnyPath
  <1> QED BY <1>8 DEF back, there

-----------------------------------------------------------------------------
(* Type correctness and the distance between bind mounts                   *)

LEMMA PutType ==
  ASSUME NEW Offered, NEW S \in SUBSET Offered, OnePerName(S), NEW x \in Offered
  PROVE  Put(S, x) \subseteq Offered /\ OnePerName(Put(S, x))
  BY DEF Put, Without, OnePerName

LEMMA WithoutType ==
  ASSUME NEW Offered, NEW S \in SUBSET Offered, OnePerName(S), NEW name
  PROVE  Without(S, name) \subseteq Offered /\ OnePerName(Without(S, name))
  BY DEF Without, OnePerName

(* One step keeps the types.                                               *)
LEMMA NextTypeOK == ConfigTypeOK /\ [Next]_config => ConfigTypeOK'
  <1> SUFFICES ASSUME ConfigTypeOK, [Next]_config PROVE ConfigTypeOK'
    OBVIOUS
  <1> USE DEF ConfigTypeOK
  <1>1. CASE PoolChange
    <2> PICK p \in PoolChoices : CreatePool(p) \/ UpdatePool(p) \/ DeletePool(p)
      BY <1>1 DEF PoolChange
    <2>1. pools' = Put(pools, p) \/ pools' = Without(pools, p.name)
      BY DEF CreatePool, UpdatePool, DeletePool
    <2>2. UNCHANGED <<binds, disks, shares>>
      BY DEF CreatePool, UpdatePool, DeletePool
    <2>3. pools' \subseteq PoolChoices /\ OnePerName(pools')
      BY <2>1, PutType, WithoutType
    <2> QED BY <2>2, <2>3
  <1>2. CASE BindChange
    <2>1. UNCHANGED <<pools, disks, shares>>
      BY <1>2 DEF BindChange, CreateBinds, UpdateBind, DeleteBind
    <2>2. ASSUME NEW new \in SUBSET BindChoices, CreateBinds(new)
          PROVE  binds' \subseteq BindChoices /\ OnePerName(binds')
      BY <2>2 DEF CreateBinds, CanCreateBinds, OnePerName, Has
    <2>3. ASSUME NEW b \in BindChoices, UpdateBind(b) \/ DeleteBind(b)
          PROVE  binds' \subseteq BindChoices /\ OnePerName(binds')
      <3>1. binds' = Put(binds, b) \/ binds' = Without(binds, b.name)
        BY <2>3 DEF UpdateBind, DeleteBind
      <3> QED BY <3>1, PutType, WithoutType
    <2>4. binds' \subseteq BindChoices /\ OnePerName(binds')
      BY <1>2, <2>2, <2>3 DEF BindChange
    <2> QED BY <2>1, <2>4
  <1>3. CASE DiskChange
    <2> PICK d \in DiskChoices : MountDisk(d) \/ UnmountDisk(d)
      BY <1>3 DEF DiskChange
    <2>1. disks' = Put(disks, d) \/ disks' = Without(disks, d.name)
      BY DEF MountDisk, UnmountDisk
    <2>2. UNCHANGED <<pools, binds, shares>>
      BY DEF MountDisk, UnmountDisk
    <2>3. disks' \subseteq DiskChoices /\ OnePerName(disks')
      BY <2>1, PutType, WithoutType
    <2> QED BY <2>2, <2>3
  <1>4. CASE ShareChange
    <2> PICK s \in ShareChoices : CreateShare(s) \/ UpdateShare(s) \/ DeleteShare(s)
      BY <1>4 DEF ShareChange
    <2>1. shares' = Put(shares, s) \/ shares' = Without(shares, s.name)
      BY DEF CreateShare, UpdateShare, DeleteShare
    <2>2. UNCHANGED <<pools, binds, disks>>
      BY DEF CreateShare, UpdateShare, DeleteShare
    <2>3. shares' \subseteq ShareChoices /\ OnePerName(shares')
      BY <2>1, PutType, WithoutType
    <2> QED BY <2>2, <2>3
  <1>5. CASE UNCHANGED config
    BY <1>5 DEF config, OnePerName
  <1> QED BY <1>1, <1>2, <1>3, <1>4, <1>5 DEF Next

(* The saved configuration keeps its types: whatever users send, every     *)
(* collection of state.json holds one entry per name.                      *)
THEOREM TypeCorrect == Spec => []ConfigTypeOK
  <1>1. Init => ConfigTypeOK
    BY DEF Init, ConfigTypeOK, OnePerName
  <1> QED BY <1>1, NextTypeOK, PTL DEF Spec

(* One step keeps bind mounts apart: the check of a new or changed one     *)
(* compares it with all that stay, and those are apart already.            *)
LEMMA NextBindsApart == ConfigTypeOK /\ BindsApart /\ [Next]_config => BindsApart'
  <1> SUFFICES ASSUME ConfigTypeOK, BindsApart, [Next]_config PROVE BindsApart'
    OBVIOUS
  <1>1. ASSUME NEW new \in SUBSET BindChoices, CreateBinds(new) PROVE BindsApart'
    <2>1. binds' = binds \cup new
      BY <1>1 DEF CreateBinds
    <2>2. \A b \in new, o \in binds : ~BindsClash(b, o)
      BY <1>1 DEF CreateBinds, CanCreateBinds, BindConflict, Without, Has
    <2>3. \A b \in new : \A o \in new \ {b} : ~BindsClash(b, o)
      BY <1>1 DEF CreateBinds, CanCreateBinds
    <2> QED BY <2>1, <2>2, <2>3 DEF BindsApart, BindsClash, TargetsClash, Nested
  <1>2. ASSUME NEW b \in BindChoices, UpdateBind(b) PROVE BindsApart'
    <2>1. binds' = Without(binds, b.name) \cup {b}
      BY <1>2 DEF UpdateBind, Put
    <2>2. \A o \in Without(binds, b.name) : ~BindsClash(b, o)
      BY <1>2 DEF UpdateBind, CanUpdateBind, BindConflict
    <2>3. Without(binds, b.name) \subseteq binds
      BY DEF Without
    <2> QED BY <2>1, <2>2, <2>3 DEF BindsApart, BindsClash, TargetsClash, Nested
  <1>3. ASSUME NEW b \in BindChoices, DeleteBind(b) PROVE BindsApart'
    BY <1>3 DEF DeleteBind, Without, BindsApart
  <1>4. CASE UNCHANGED binds
    BY <1>4 DEF BindsApart
  <1>5. BindChange \/ UNCHANGED binds
    BY DEF Next, config, PoolChange, DiskChange, ShareChange, CreatePool, UpdatePool, DeletePool,
           MountDisk, UnmountDisk, CreateShare, UpdateShare, DeleteShare
  <1> QED BY <1>1, <1>2, <1>3, <1>4, <1>5 DEF BindChange

(* No two bind mounts ever have nested targets, and none has its source at *)
(* another one's target, after any sequence of creations and edits.        *)
THEOREM BindsApartHolds == Spec => []BindsApart
  <1>1. Init => ConfigTypeOK /\ BindsApart
    BY DEF Init, ConfigTypeOK, OnePerName, BindsApart
  <1> QED BY <1>1, NextTypeOK, NextBindsApart, PTL DEF Spec

-----------------------------------------------------------------------------
(* The dependency guard                                                    *)

LEMMA PathsType ==
  ConfigTypeOK =>
    /\ \A b \in binds : b.source \in AnyPath /\ b.target \in AnyPath
    /\ \A p \in pools : p.mountpoint \in AnyPath
    /\ \A s \in shares : s.path \in AnyPath
  BY ConfigAssumption DEF ChoicesOK, ConfigTypeOK, Path, AnyPath

(* What rests on q through one bind mount is below a place that presents q.*)
LEMMA BehindIsPresented ==
  ASSUME ConfigTypeOK, NEW path \in AnyPath, NEW q \in AnyPath,
         NEW b \in binds, Covers(b.target, path), Covers(q, Moved(path, b.target, b.source))
  PROVE  \E p \in Presented(q) : Covers(p, path)
  <1> DEFINE r == Moved(path, b.target, b.source)
  <1>1. b.source \in AnyPath /\ b.target \in AnyPath
    BY PathsType
  <1>2. r \in AnyPath /\ Covers(b.source, r)
    BY <1>1, MovedBySegments, MovedIsCovered
  <1>3. Nested(q, b.source)
    BY <1>1, <1>2, CoveringNested
  <1>4. CASE Covers(q, b.source)
    BY <1>4 DEF Presented
  <1>5. CASE Covers(b.source, q) /\ ~Covers(q, b.source)
    <2>1. Moved(q, b.source, b.target) \in Presented(q)
      BY <1>5 DEF Presented
    <2>2. Covers(Moved(q, b.source, b.target), path)
      BY <1>1, <1>5, MovedBack
    <2> QED BY <2>1, <2>2
  <1> QED BY <1>3, <1>4, <1>5 DEF Nested

(* ... and the other way round.                                            *)
LEMMA PresentedIsBehind ==
  ASSUME ConfigTypeOK, NEW path \in AnyPath, NEW q \in AnyPath,
         NEW p \in Presented(q), Covers(p, path)
  PROVE  RestsOn(path, q)
  <1>1. CASE p = q
    BY <1>1 DEF RestsOn
  <1>2. ASSUME NEW b \in binds, Covers(q, b.source), p = b.target PROVE RestsOn(path, q)
    <2> DEFINE r == Moved(path, b.target, b.source)
    <2>1. b.source \in AnyPath /\ b.target \in AnyPath
      BY PathsType
    <2>2. r \in AnyPath /\ Covers(b.source, r)
      BY <1>2, <2>1, MovedBySegments, MovedIsCovered
    <2>3. Covers(q, r)
      BY <1>2, <2>1, <2>2, CoversTransitive
    <2>4. r \in Behind(path)
      BY <1>2 DEF Behind
    <2> QED BY <2>3, <2>4 DEF RestsOn
  <1>3. ASSUME NEW b \in binds, Covers(b.source, q), p = Moved(q, b.source, b.target)
        PROVE  RestsOn(path, q)
    <2> DEFINE r == Moved(path, b.target, b.source)
    <2>1. b.source \in AnyPath /\ b.target \in AnyPath
      BY PathsType
    <2>2. p \in AnyPath /\ Covers(b.target, p)
      BY <1>3, <2>1, MovedBySegments, MovedIsCovered
    <2>3. Covers(b.target, path)
      BY <2>1, <2>2, CoversTransitive
    <2>4. r \in AnyPath /\ Covers(b.source, r) /\ Moved(r, b.source, b.target) = path
      BY <2>1, <2>3, MovedBySegments, MovedIsCovered, MovedThereAndBack
    <2>5. Moved(p, b.target, b.source) = q
      BY <1>3, <2>1, MovedThereAndBack
    <2>6. Covers(p, Moved(r, b.source, b.target))
      BY <2>4
    <2> HIDE DEF r
    <2>7. Covers(Moved(p, b.target, b.source), r)
      BY <2>1, <2>2, <2>4, <2>6, MovedBack
    <2>8. r \in Behind(path)
      BY <2>3 DEF Behind, r
    <2> QED BY <2>5, <2>7, <2>8 DEF RestsOn
  <1> QED BY <1>1, <1>2, <1>3 DEF Presented

(* While bind mounts do not build on each other, the guard of q names      *)
(* exactly what rests on q: a second bind mount behind the first one would *)
(* have its target nested with the source of the first.                    *)
LEMMA GuardIsExact ==
  ASSUME ConfigTypeOK, Flat, NEW path \in AnyPath, NEW q \in AnyPath
  PROVE  (\E p \in Presented(q) : Covers(p, path)) <=> RestsOn(path, q)
  <1>1. ASSUME RestsOn(path, q) PROVE \E p \in Presented(q) : Covers(p, path)
    <2>1. CASE Covers(q, path)
      BY <2>1 DEF Presented
    <2>2. ASSUME NEW b \in binds, Covers(b.target, path), Covers(q, Moved(path, b.target, b.source))
          PROVE  \E p \in Presented(q) : Covers(p, path)
      BY <2>2, BehindIsPresented
    <2>3. ASSUME NEW b \in binds, Covers(b.target, path),
                 NEW a \in binds, Covers(a.target, Moved(path, b.target, b.source))
          PROVE  FALSE
      <3>1. a.target \in AnyPath /\ b.source \in AnyPath /\ b.target \in AnyPath
        BY PathsType
      <3>2. /\ Moved(path, b.target, b.source) \in AnyPath
            /\ Covers(b.source, Moved(path, b.target, b.source))
        BY <2>3, <3>1, MovedBySegments, MovedIsCovered
      <3>3. Nested(a.target, b.source)
        BY <2>3, <3>1, <3>2, CoveringNested
      <3> QED BY <3>3 DEF Flat
    <2> QED BY <1>1, <2>1, <2>2, <2>3 DEF RestsOn, Behind
  <1> QED BY <1>1, PresentedIsBehind

(* The guard of every delete and unmount names exactly the shares that     *)
(* rest on the path, for every configuration users can save in which bind  *)
(* mounts do not build on each other.                                      *)
THEOREM GuardSeesEveryShareHolds == Spec => []GuardSeesEveryShare
  <1>1. ASSUME ConfigTypeOK, Flat,
               NEW q \in {p.mountpoint : p \in PoolChoices} \cup {b.target : b \in BindChoices}
        PROVE  BlockersForPath(q) = {s \in shares : RestsOn(s.path, q)}
    <2>1. q \in AnyPath
      BY ConfigAssumption DEF ChoicesOK, Path, AnyPath
    <2>2. \A s \in shares : (\E p \in Presented(q) : Covers(p, s.path)) <=> RestsOn(s.path, q)
      BY <1>1, <2>1, PathsType, GuardIsExact
    <2> QED BY <2>2 DEF BlockersForPath
  <1>2. ConfigTypeOK => GuardSeesEveryShare
    BY <1>1 DEF GuardSeesEveryShare
  <1> QED BY <1>2, TypeCorrect, PTL

(* A step takes a mountpoint or a target away only after its guard found   *)
(* no share on it.                                                         *)
LEMMA GoneWasFree ==
  ASSUME ConfigTypeOK, [Next]_config, NEW q \in PoolsGone \cup BindsGone
  PROVE  q \in AnyPath /\ BlockersForPath(q) = {}
  <1>1. CASE q \in PoolsGone
    <2>1. PICK old \in pools : q = old.mountpoint
      BY <1>1 DEF PoolsGone
    <2>2. \A p \in pools' : p.mountpoint # q
      BY <1>1 DEF PoolsGone
    <2>3. old \notin pools'
      BY <2>1, <2>2
    <2>4. PICK p \in PoolChoices : CreatePool(p) \/ UpdatePool(p) \/ DeletePool(p)
      BY <2>3 DEF Next, config, PoolChange, BindChange, DiskChange, ShareChange, CreateBinds,
             UpdateBind, DeleteBind, MountDisk, UnmountDisk, CreateShare, UpdateShare, DeleteShare
    <2>5. CASE CreatePool(p)
      BY <2>3, <2>5 DEF CreatePool, CanCreatePool, Put, Without, Has
    <2>6. CASE UpdatePool(p)
      <3>1. p \in pools' /\ p.mountpoint # q
        BY <2>2, <2>6 DEF UpdatePool, Put
      <3>2. old.name = p.name
        BY <2>3, <2>6 DEF UpdatePool, Put, Without
      <3>3. \A x \in pools : x.name = p.name => x = old
        BY <3>2 DEF ConfigTypeOK, OnePerName
      <3> QED BY <2>1, <2>6, <3>1, <3>3, PathsType DEF UpdatePool, CanUpdatePool
    <2>7. CASE DeletePool(p)
      <3>1. old.name = p.name /\ p \in pools
        BY <2>3, <2>7 DEF DeletePool, CanReleasePool, Without
      <3>2. old = p
        BY <3>1 DEF ConfigTypeOK, OnePerName
      <3> QED BY <2>1, <2>7, <3>2, PathsType DEF DeletePool, CanReleasePool
    <2> QED BY <2>4, <2>5, <2>6, <2>7
  <1>2. CASE q \in BindsGone
    <2>1. PICK old \in binds : q = old.target
      BY <1>2 DEF BindsGone
    <2>2. \A b \in binds' : b.target # q
      BY <1>2 DEF BindsGone
    <2>3. old \notin binds'
      BY <2>1, <2>2
    <2>4. BindChange
      BY <2>3 DEF Next, config, PoolChange, DiskChange, ShareChange, CreatePool, UpdatePool,
             DeletePool, MountDisk, UnmountDisk, CreateShare, UpdateShare, DeleteShare
    <2>5. ASSUME NEW new \in SUBSET BindChoices, CreateBinds(new) PROVE FALSE
      BY <2>3, <2>5 DEF CreateBinds
    <2>6. ASSUME NEW b \in BindChoices, UpdateBind(b) PROVE q \in AnyPath /\ BlockersForPath(q) = {}
      <3>1. b \in binds' /\ b.target # q
        BY <2>2, <2>6 DEF UpdateBind, Put
      <3>2. old.name = b.name
        BY <2>3, <2>6 DEF UpdateBind, Put, Without
      <3>3. \A x \in binds : x.name = b.name => x = old
        BY <3>2 DEF ConfigTypeOK, OnePerName
      <3> QED BY <2>1, <2>6, <3>1, <3>3, PathsType DEF UpdateBind, CanUpdateBind
    <2>7. ASSUME NEW b \in BindChoices, DeleteBind(b) PROVE q \in AnyPath /\ BlockersForPath(q) = {}
      <3>1. old.name = b.name /\ b \in binds
        BY <2>3, <2>7 DEF DeleteBind, CanReleaseBind, Without
      <3>2. old = b
        BY <3>1 DEF ConfigTypeOK, OnePerName
      <3> QED BY <2>1, <2>7, <3>2, PathsType DEF DeleteBind, CanReleaseBind
    <2> QED BY <2>4, <2>5, <2>6, <2>7 DEF BindChange
  <1> QED BY <1>1, <1>2

(* No share that stays loses the pool or the bind mount it rests on to a   *)
(* delete or to an edit, as long as bind mounts do not build on each other.*)
THEOREM FlatKeepsSharesHolds == Spec => FlatKeepsShares
  <1>1. ASSUME ConfigTypeOK, [Next]_config, Flat,
               NEW s \in shares, NEW q \in PoolsGone \cup BindsGone
        PROVE  ~RestsOn(s.path, q)
    <2>1. q \in AnyPath /\ BlockersForPath(q) = {}
      BY <1>1, GoneWasFree
    <2>2. s.path \in AnyPath
      BY <1>1, PathsType
    <2>3. ~\E p \in Presented(q) : Covers(p, s.path)
      BY <2>1 DEF BlockersForPath
    <2> QED BY <1>1, <2>1, <2>2, <2>3, GuardIsExact
  <1>2. ConfigTypeOK /\ [Next]_config =>
          [Flat => \A s \in shares \cap shares', q \in PoolsGone \cup BindsGone : ~RestsOn(s.path, q)]_config
    BY <1>1
  <1> QED BY <1>2, TypeCorrect, PTL DEF Spec, FlatKeepsShares

(* A step takes the mountpoint of a pool or of a disk away from under a    *)
(* bind mount's source only if it is an edit of the pool: the delete and   *)
(* the unmount looked for such bind mounts first.                          *)
LEMMA LostOnlyByAMove ==
  ASSUME ConfigTypeOK, [Next]_config, NEW b \in binds, NEW q \in PoolsGone \cup DisksGone,
         Covers(q, b.source)
  PROVE  \E p \in PoolChoices : UpdatePool(p)
  <1>1. b \in BindsUsingPath(q)
    BY DEF BindsUsingPath
  <1>2. CASE q \in PoolsGone
    <2>1. PICK old \in pools : q = old.mountpoint
      BY <1>2 DEF PoolsGone
    <2>2. old \notin pools'
      BY <1>2, <2>1 DEF PoolsGone
    <2>3. PICK p \in PoolChoices : CreatePool(p) \/ UpdatePool(p) \/ DeletePool(p)
      BY <2>2 DEF Next, config, PoolChange, BindChange, DiskChange, ShareChange, CreateBinds,
             UpdateBind, DeleteBind, MountDisk, UnmountDisk, CreateShare, UpdateShare, DeleteShare
    <2>4. ~CreatePool(p)
      BY <2>2 DEF CreatePool, CanCreatePool, Put, Without, Has
    <2>5. ASSUME DeletePool(p) PROVE FALSE
      <3>1. old.name = p.name /\ p \in pools
        BY <2>2, <2>5 DEF DeletePool, CanReleasePool, Without
      <3>2. old = p
        BY <3>1 DEF ConfigTypeOK, OnePerName
      <3> QED BY <1>1, <2>1, <2>5, <3>2 DEF DeletePool, CanReleasePool
    <2> QED BY <2>3, <2>4, <2>5
  <1>3. CASE q \in DisksGone
    <2>1. PICK old \in disks : q = old.mountpoint
      BY <1>3 DEF DisksGone
    <2>2. old \notin disks'
      BY <1>3, <2>1 DEF DisksGone
    <2>3. PICK d \in DiskChoices : MountDisk(d) \/ UnmountDisk(d)
      BY <2>2 DEF Next, config, PoolChange, BindChange, DiskChange, ShareChange, CreatePool,
             UpdatePool, DeletePool, CreateBinds, UpdateBind, DeleteBind, CreateShare,
             UpdateShare, DeleteShare
    <2>4. ~MountDisk(d)
      BY <2>2 DEF MountDisk, CanMountDisk, Put, Without, Has
    <2>5. ASSUME UnmountDisk(d) PROVE FALSE
      <3>1. old.name = d.name /\ d \in disks
        BY <2>2, <2>5 DEF UnmountDisk, CanReleaseDisk, Without
      <3>2. old = d
        BY <3>1 DEF ConfigTypeOK, OnePerName
      <3> QED BY <1>1, <2>1, <2>5, <3>2 DEF UnmountDisk, CanReleaseDisk
    <2> QED BY <2>3, <2>4, <2>5
  <1> QED BY <1>2, <1>3

(* No bind mount that stays loses the pool or the disk its source is on,   *)
(* unless that pool is being edited: update_pool asks for shares only.     *)
THEOREM OnlyAMoveLosesBindsHolds == Spec => OnlyAMoveLosesBinds
  <1>1. ConfigTypeOK /\ [Next]_config =>
          [\A b \in binds \cap binds', q \in PoolsGone \cup DisksGone :
             Covers(q, b.source) => \E p \in PoolChoices : UpdatePool(p)]_config
    BY LostOnlyByAMove
  <1> QED BY <1>1, TypeCorrect, PTL DEF Spec, OnlyAMoveLosesBinds
=============================================================================
