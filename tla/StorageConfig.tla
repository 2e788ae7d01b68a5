--------------------------- MODULE StorageConfig ---------------------------
(***************************************************************************)
(* The storage half of state.json and the rules by which it changes: each  *)
(* request that saves it is one atomic step here, taken or refused by the  *)
(* guards of storage/api/{pools,binds,disks}.py and core/deps.py.  This is *)
(* what the locked endpoints promise; StorageHost shows how they keep it   *)
(* while writing units and mounting.                                       *)
(*                                                                         *)
(* A dict of the state is the set of its values, which carry their names.  *)
(***************************************************************************)
EXTENDS Paths, FiniteSets

CONSTANTS
  PoolChoices,   \* the Pool objects users send, as [name, mountpoint, branches]
  BindChoices,   \* the BindMount objects, as [name, source, target]
  DiskChoices,   \* the DiskMount entries, as [name, mountpoint]
  ShareChoices   \* the Share objects, as [name, path]

\* What the validators of storage/models.py let through.
ChoicesOK ==
  /\ \A p \in PoolChoices :
       /\ p.mountpoint \in Path /\ p.branches \subseteq Path /\ p.branches # {}
       /\ \A b \in p.branches : ~Nested(b, p.mountpoint)
  /\ \A b \in BindChoices : b.source \in Path /\ b.target \in Path /\ ~Nested(b.source, b.target)
  /\ \A d \in DiskChoices : d.mountpoint \in Path
  /\ \A s \in ShareChoices : s.path \in Path

ASSUME ConfigAssumption == ChoicesOK

VARIABLES pools, binds, disks, shares   \* state.json

config == <<pools, binds, disks, shares>>

-----------------------------------------------------------------------------
(* Dicts *)

Has(S, name) == \E x \in S : x.name = name
Without(S, name) == {x \in S : x.name # name}
\* Fault: a changed entry is added beside the old one.
PutBeside(S, x) == S \cup {x}

Put(S, x) == Without(S, x.name) \cup {x}

OnePerName(S) == \A x, y \in S : x.name = y.name => x = y

ConfigTypeOK ==
  /\ pools \subseteq PoolChoices /\ OnePerName(pools)
  /\ binds \subseteq BindChoices /\ OnePerName(binds)
  /\ disks \subseteq DiskChoices /\ OnePerName(disks)
  /\ shares \subseteq ShareChoices /\ OnePerName(shares)

-----------------------------------------------------------------------------
(* core/deps.py and its neighbours *)

\* Fault: the place of path inside a bind's source is not followed.
PresentedWhole(path) == {path} \cup {b.target : b \in {x \in binds : Covers(path, x.source)}}

\* path itself, and everywhere a bind mount shows it, or shows what is below it.
Presented(path) ==
  {path}
  \cup {b.target : b \in {x \in binds : Covers(path, x.source)}}
  \cup {Moved(path, b.source, b.target) :
          b \in {x \in binds : Covers(x.source, path) /\ ~Covers(path, x.source)}}

BlockersForPath(path) == {s \in shares : \E p \in Presented(path) : Covers(p, s.path)}

\* Fault: a bind of a folder inside the storage does not count.
BindsUsingRoot(path) == {b \in binds : b.source = path}

BindsUsingPath(path) == {b \in binds : Covers(path, b.source)}

PoolsUsingPath(path) == {p \in pools : path \in p.branches}

\* pool_for_path: the pool with the longest mountpoint above path, if any.
PoolForPath(path) ==
  {p \in pools : /\ Covers(p.mountpoint, path)
                 /\ \A q \in pools : Covers(q.mountpoint, path) => Covers(q.mountpoint, p.mountpoint)}

\* Fault: only equal targets are refused.
TargetsClashEqual(a, b) == a.target = b.target

TargetsClash(a, b) == Nested(a.target, b.target)

BindsClash(a, b) == TargetsClash(a, b) \/ a.target = b.source \/ a.source = b.target

\* _conflict, but for the other binds of a bulk request.
BindConflict(b) ==
  \/ \E o \in Without(binds, b.name) : BindsClash(b, o)
  \/ \E p \in pools : Covers(p.mountpoint, b.target) \/ b.target \in p.branches
  \/ \E d \in disks : b.target = d.mountpoint

\* _check_conflicts
PoolConflict(p) ==
  \E o \in Without(pools, p.name) :
    \/ o.mountpoint = p.mountpoint
    \/ p.mountpoint \in o.branches
    \/ o.mountpoint \in p.branches

-----------------------------------------------------------------------------
(* The changes *)

Init == pools = {} /\ binds = {} /\ disks = {} /\ shares = {}

CanCreatePool(p) == ~Has(pools, p.name) /\ ~PoolConflict(p)

CreatePool(p) ==
  /\ CanCreatePool(p)
  /\ pools' = Put(pools, p)
  /\ UNCHANGED <<binds, disks, shares>>

\* A new mountpoint is refused while shares need the old one.
CanUpdatePool(p) ==
  /\ ~PoolConflict(p)
  /\ \E old \in pools :
       /\ old.name = p.name
       /\ p.mountpoint = old.mountpoint \/ BlockersForPath(old.mountpoint) = {}

UpdatePool(p) ==
  /\ CanUpdatePool(p)
  /\ pools' = Put(pools, p)
  /\ UNCHANGED <<binds, disks, shares>>

CanReleasePool(p) ==
  p \in pools /\ BlockersForPath(p.mountpoint) = {} /\ BindsUsingPath(p.mountpoint) = {}

DeletePool(p) ==
  /\ CanReleasePool(p)
  /\ pools' = Without(pools, p.name)
  /\ UNCHANGED <<binds, disks, shares>>

\* A whole tree at once; a single new bind mount is a tree of one.
CanCreateBinds(new) ==
  /\ new # {} /\ OnePerName(new)
  /\ \A b \in new : /\ ~Has(binds, b.name)
                    /\ ~BindConflict(b)
                    /\ \A o \in new \ {b} : ~BindsClash(b, o)

CreateBinds(new) ==
  /\ CanCreateBinds(new)
  /\ binds' = binds \cup new
  /\ UNCHANGED <<pools, disks, shares>>

\* Fault: the target may move away from a share.
CanUpdateBindFreely(b) == ~BindConflict(b) /\ Has(binds, b.name)

CanUpdateBind(b) ==
  /\ ~BindConflict(b)
  /\ \E old \in binds :
       /\ old.name = b.name
       /\ b.target = old.target \/ BlockersForPath(old.target) = {}

UpdateBind(b) ==
  /\ CanUpdateBind(b)
  /\ binds' = Put(binds, b)
  /\ UNCHANGED <<pools, disks, shares>>

CanReleaseBind(b) == b \in binds /\ BlockersForPath(b.target) = {}

DeleteBind(b) ==
  /\ CanReleaseBind(b)
  /\ binds' = Without(binds, b.name)
  /\ UNCHANGED <<pools, disks, shares>>

CanMountDisk(d) == ~Has(disks, d.name)

MountDisk(d) ==
  /\ CanMountDisk(d)
  /\ disks' = Put(disks, d)
  /\ UNCHANGED <<pools, binds, shares>>

CanReleaseDisk(d) ==
  d \in disks /\ PoolsUsingPath(d.mountpoint) = {} /\ BindsUsingPath(d.mountpoint) = {}

UnmountDisk(d) ==
  /\ CanReleaseDisk(d)
  /\ disks' = Without(disks, d.name)
  /\ UNCHANGED <<pools, binds, shares>>

\* samba/api/shares.py does not look at the storage half, beyond requiring
\* that the path is a directory.
CreateShare(s) ==
  /\ ~Has(shares, s.name)
  /\ shares' = Put(shares, s)
  /\ UNCHANGED <<pools, binds, disks>>

UpdateShare(s) ==
  /\ Has(shares, s.name)
  /\ shares' = Put(shares, s)
  /\ UNCHANGED <<pools, binds, disks>>

DeleteShare(s) ==
  /\ s \in shares
  /\ shares' = Without(shares, s.name)
  /\ UNCHANGED <<pools, binds, disks>>

PoolChange  == \E p \in PoolChoices : CreatePool(p) \/ UpdatePool(p) \/ DeletePool(p)
BindChange  == \/ \E new \in SUBSET BindChoices : CreateBinds(new)
               \/ \E b \in BindChoices : UpdateBind(b) \/ DeleteBind(b)
DiskChange  == \E d \in DiskChoices : MountDisk(d) \/ UnmountDisk(d)
ShareChange == \E s \in ShareChoices : CreateShare(s) \/ UpdateShare(s) \/ DeleteShare(s)

Next == PoolChange \/ BindChange \/ DiskChange \/ ShareChange

Spec == Init /\ [][Next]_config

-----------------------------------------------------------------------------
(* What a path rests on *)

\* Where the files found at path really are, one bind mount further.
Behind(path) == {Moved(path, b.target, b.source) : b \in {x \in binds : Covers(x.target, path)}}

\* The directory q carries path: above it, or above what bind mounts show
\* there.  core/deps.py assumes that one bind mount is followed; a second one
\* is followed here.
RestsOn(path, q) ==
  \/ Covers(q, path)
  \/ \E r \in Behind(path) : Covers(q, r) \/ \E r2 \in Behind(r) : Covers(q, r2)

\* No bind mount takes its source from what another one shows, or shows its
\* source inside another one's source.
Flat == \A a, b \in binds : ~Nested(a.target, b.source)

\* Mountpoints that a step takes away from where they were.
PoolsGone == {p.mountpoint : p \in pools} \ {p.mountpoint : p \in pools'}
DisksGone == {d.mountpoint : d \in disks} \ {d.mountpoint : d \in disks'}
BindsGone == {b.target : b \in binds} \ {b.target : b \in binds'}

(* While bind mounts do not build on each other, the guard of every delete *)
(* and unmount names exactly the shares that rest on the path              *)
(* (blockers_for_path), whatever sequence of requests led there.           *)
GuardSeesEveryShare ==
  Flat => \A q \in {p.mountpoint : p \in PoolChoices} \cup {b.target : b \in BindChoices} :
            BlockersForPath(q) = {s \in shares : RestsOn(s.path, q)}

(* A share that stays does not lose the pool or the bind mount it rests on,*)
(* whether it is deleted or moved (README.md:99 and 129).                  *)
KeepsShares ==
  [][\A s \in shares \cap shares', q \in PoolsGone \cup BindsGone : ~RestsOn(s.path, q)]_config

\* ... while bind mounts do not build on each other.
FlatKeepsShares ==
  [][Flat => \A s \in shares \cap shares', q \in PoolsGone \cup BindsGone : ~RestsOn(s.path, q)]_config

(* A bind mount does not lose the pool or the disk its source is on        *)
(* (README.md:129-132), except that a pool may be given another mountpoint:*)
(* update_pool asks for the shares on it only.                             *)
OnlyAMoveLosesBinds ==
  [][\A b \in binds \cap binds', q \in PoolsGone \cup DisksGone :
       Covers(q, b.source) => \E p \in PoolChoices : UpdatePool(p)]_config

(* Bind mounts never show through one another at their roots: whatever was *)
(* created and edited in whatever order, no two targets are nested and no  *)
(* source is another's target (_conflict).                                 *)
BindsApart ==
  \A a, b \in binds : a # b => ~Nested(a.target, b.target) /\ a.source # b.target
=============================================================================
