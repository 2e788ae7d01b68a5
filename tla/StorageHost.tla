---------------------------- MODULE StorageHost ----------------------------
(***************************************************************************)
(* The storage endpoints on a running host.  A request checks its guards   *)
(* and then works through a plan: write a unit, start or stop it, edit     *)
(* fstab, save state.json.  Most requests hold state_store.lock from the   *)
(* load to the end; mount, unmount and remount of a pool, and mount and    *)
(* unmount of a bind mount, do not.  Each step of a plan is an action; any *)
(* of them may meet a command that fails, a restart of the service, or a   *)
(* reboot of the host.                                                     *)
(*                                                                         *)
(* systemd and the mount table are outside the source and modelled as the  *)
(* units written by poolconf.py and bindconf.py use them.  The host runs   *)
(* systemd, and a unit that is written is loaded (systemctl daemon-reload, *)
(* and enable reloads as well); that it is enabled is not taken for granted*)
(***************************************************************************)
EXTENDS Paths, FiniteSets

CONSTANTS
  PoolChoices, BindChoices, DiskChoices, ShareChoices,   \* see StorageConfig
  Clients,      \* worker threads
  NoClient,     \* holds the lock when nobody does
  Requests,     \* which requests users send: see RequestKinds
  Environment,  \* what may go wrong: see TroubleKinds
  Overlap,      \* FALSE: a request arrives when the one before has ended
  Watched       \* which marks are kept: see Marks

\* The fixes of the diagnostics page that are not what another endpoint does
\* are named after their finding.
RequestKinds == {"pool", "remount", "mountpool", "unmountpool", "bind", "tree", "mountbind",
                 "disk", "share", "pool_unit", "pool_passthrough_available",
                 "bind_source_missing", "bind_unit_missing", "disk_mount_not_mounted", "noatime"}

TroubleKinds == {"busy",     \* an unmount does not succeed
                 "nomount",  \* a mount does not, or systemd refuses a unit
                 "nodisk",   \* mounting a disk does not
                 "noenable", \* systemctl enable or disable fails, unnoticed
                 "nosource", \* the source directory cannot be created
                 "missing",  \* a disk is not there when the host boots
                 "restart",  \* the service is restarted
                 "reboot"}   \* the host is

Marks == {"cut",     \* a request ended after half of its changes
          "stale",   \* one without the lock wrote what it had read too long ago
          "left",    \* a disk that did not mount keeps its line in fstab
          "direct",  \* mergerfs was started outside its unit
          "moved",   \* a pool was moved away from under bind mounts
          "loose",   \* a bind unit guards a mount that no saved pool or disk makes
          "kept"}    \* a bind mount outlived the unit it was started by

VARIABLES
  pools, binds, disks, shares,  \* state.json
  lock,       \* state_store.lock
  job,        \* what is left of the request each worker thread serves
  poolUnits,  \* contents of the pnas-pool-*.service files
  bindUnits,  \* contents of the pnas-bind-*.service files
  fstab,      \* the managed lines of /etc/fstab
  enabled,    \* the units that multi-user.target wants, by kind and name
  mounted,    \* the mount table
  stray,      \* bind sources created while their storage was not mounted
  marks       \* observes: what has happened, of Watched

Config == INSTANCE StorageConfig
            WITH pools <- pools, binds <- binds, disks <- disks, shares <- shares

ASSUME HostAssumption ==
  /\ Config!ChoicesOK
  /\ NoClient \notin Clients /\ Watched \subseteq Marks
  /\ Requests \subseteq RequestKinds /\ Environment \subseteq TroubleKinds
  /\ Overlap \in BOOLEAN

config == <<pools, binds, disks, shares>>
files  == <<poolUnits, bindUnits, fstab, enabled>>
vars   == <<config, lock, job, files, mounted, stray, marks>>

Marking(new) == marks' = marks \cup (new \cap Watched)

-----------------------------------------------------------------------------
(* The mount table *)

PoolMount(p, byUnit) == [kind |-> "pool", name |-> p.name, at |-> p.mountpoint,
                         from |-> p.branches, byUnit |-> byUnit]
DiskMount(d) == [kind |-> "disk", name |-> d.name, at |-> d.mountpoint]

\* The mounts on the way to path.
Through(table, path) == {m.at : m \in {x \in table : Covers(x.at, path)}}

BindMount(b, table) == [kind |-> "bind", name |-> b.name, at |-> b.target,
                        from |-> b.source, through |-> Through(table, b.source)]

MountedIn(table, path) == \E m \in table : m.at = path
IsMounted(path) == MountedIn(mounted, path)

\* umount refuses a place with another mount below it.
Free(table, path) == \A m \in table : Covers(path, m.at) => m.at = path

Unmounted(path) == {m \in mounted : m.at # path}

Active(table, kind, name) ==
  \E m \in table : m.kind = kind /\ m.name = name /\ (kind = "pool" => m.byUnit)

\* The deepest element of S whose place covers path: none, or one.
Deepest(S, path) ==
  {x \in S : Covers(x, path) /\ \A y \in S : Covers(y, path) => Covers(y, x)}

\* mount_root, with {} for "/".
MountRoot(path) == Deepest({m.at : m \in mounted}, path)

\* The mounts the configuration asks for, and the one the files at path are on.
Storage == {p.mountpoint : p \in pools} \cup {d.mountpoint : d \in disks}
Home(path) == Deepest(Storage, path)

\* Only the empty directory below the mountpoint is there.
HollowIn(table, path) == \E h \in Home(path) : ~MountedIn(table, h)

\* The bind mount m was made from that directory.
Hollow(m) == ~(Home(m.from) \subseteq m.through)

\* test -d: on its storage, or left behind under it.
SourceExists(table, path) ==
  HollowIn(table, path) => path \in Home(path) \cup stray

-----------------------------------------------------------------------------
(* Plans *)

Do(step, on) == <<[do |-> step, on |-> on]>>
Try(step, on) == <<[do |-> step, on |-> on, must |-> FALSE]>>
Must(step, on) == <<[do |-> step, on |-> on, must |-> TRUE]>>
Save == <<[do |-> "save"]>>

Now == [pools |-> pools, binds |-> binds, disks |-> disks, shares |-> shares]
Nothing == [pools |-> {}, binds |-> {}, disks |-> {}, shares |-> {}]

Idle == [kind |-> "none", plan |-> <<>>, draft |-> Nothing, down |-> {}]

Quiet == \A c \in Clients : job[c] = Idle

TypeOK ==
  /\ Config!ConfigTypeOK
  /\ lock \in Clients \cup {NoClient}
  /\ DOMAIN job = Clients
  /\ poolUnits \subseteq PoolChoices
  /\ fstab \subseteq DiskChoices
  /\ enabled \subseteq ({"pool"} \X {p.name : p \in PoolChoices})
                       \cup ({"bind"} \X {b.name : b \in BindChoices})
  /\ \A v \in bindUnits : /\ v.bind \in BindChoices
                          /\ v.requires \subseteq {p.name : p \in PoolChoices}
  /\ \A c \in Clients : job[c] = Idle \/ job[c].plan # <<>>
  /\ marks \subseteq Watched
  /\ \A u, v \in poolUnits : u.name = v.name => u = v
  /\ \A u, v \in bindUnits : u.bind.name = v.bind.name => u = v

\* Fault: the lock is not taken.
LocksNot(c) == lock = NoClient /\ UNCHANGED lock

Locks(c) == lock = NoClient /\ lock' = c

Arrive(c, kind) ==
  /\ kind \in Requests
  /\ job[c] = Idle
  /\ Overlap \/ Quiet

Accept(c, kind, plan, draft) ==
  /\ job' = [job EXCEPT ![c] = [kind |-> kind, plan |-> plan, draft |-> draft, down |-> {}]]
  /\ UNCHANGED <<config, files, mounted, stray, marks>>

\* A request that changes state.json, and one that does not.
AcceptLocked(c, kind, plan, draft) == Locks(c) /\ Accept(c, kind, plan, draft)
AcceptUnlocked(c, kind, plan) == Accept(c, kind, plan, Now) /\ UNCHANGED lock

Init ==
  /\ Config!Init
  /\ lock = NoClient
  /\ job = [c \in Clients |-> Idle]
  /\ poolUnits = {} /\ bindUnits = {} /\ fstab = {} /\ enabled = {}
  /\ mounted = {} /\ stray = {} /\ marks = {}

-----------------------------------------------------------------------------
(* Requests: the guards, and the plan *)

CreatePool(c, p) ==
  /\ Arrive(c, "pool") /\ Config!CanCreatePool(p)
  /\ AcceptLocked(c, "create", Do("writePool", p) \o Save \o Try("mountPool", p),
                  [Now EXCEPT !.pools = Config!Put(pools, p)])

\* Whether the pool is mounted at its (new) mountpoint is looked up just
\* before its unit is written.
UpdatePool(c, p, old) ==
  /\ Arrive(c, "pool") /\ Config!CanUpdatePool(p)
  /\ old \in pools /\ old.name = p.name
  /\ AcceptLocked(c, "update",
       (IF p.mountpoint # old.mountpoint THEN Do("stopPool", old) ELSE <<>>)
         \o Do("lookPool", p),
       [Now EXCEPT !.pools = Config!Put(pools, p)])

\* Fault: the pool is not unmounted before its unit is removed.
DeletePlanNoStop(p) == Do("dropPool", p) \o Save

DeletePlan(p) == Do("stopPool", p) \o Do("dropPool", p) \o Save

DeletePool(c, p) ==
  /\ Arrive(c, "pool") /\ Config!CanReleasePool(p)
  /\ AcceptLocked(c, "delete", DeletePlan(p),
                  [Now EXCEPT !.pools = Config!Without(pools, p.name)])

\* Fault: the bind mounts stay down.
RestartedNone(p) == {}

\* The bind mounts remount_pool_with_binds starts again.
Restarted(p) == {b \in binds : p \in Config!PoolForPath(b.source)}

\* remount_pool_with_binds
RemountPlan(p) ==
  Do("writePool", p) \o Do("stopPool", p) \o Must("mountPool", p)
    \o [i \in 1..Cardinality(Restarted(p)) |->
          [do |-> "startBind", on |-> SetToSeq(Restarted(p))[i], must |-> TRUE]]

RemountPool(c, p) ==
  /\ Arrive(c, "remount") /\ p \in pools
  /\ AcceptUnlocked(c, "remount", RemountPlan(p) \o Do("done", p))

MountPool(c, p) ==
  /\ Arrive(c, "mountpool") /\ p \in pools
  /\ AcceptUnlocked(c, "mount", Must("mountPool", p))

UnmountPool(c, p) ==
  /\ Arrive(c, "unmountpool") /\ Config!CanReleasePool(p)
  /\ AcceptUnlocked(c, "unmount", Do("stopPool", p))

Install(b, make) ==
  (IF make THEN Do("makeSource", b) ELSE <<>>) \o Do("writeBind", b) \o Try("startBind", b)

\* One bind mount after the other.
InstallAll(new, make) ==
  LET n == IF make THEN 3 ELSE 2
  IN [i \in 1..(n * Cardinality(new)) |->
        Install(SetToSeq(new)[((i - 1) \div n) + 1], make)[((i - 1) % n) + 1]]

CreateBinds(c, new, make) ==
  /\ IsFiniteSet(new)
  /\ Arrive(c, IF Cardinality(new) = 1 THEN "bind" ELSE "tree") /\ Config!CanCreateBinds(new)
  /\ AcceptLocked(c, "create", InstallAll(new, make) \o Save,
       [Now EXCEPT !.binds = binds \cup new])

UpdateBind(c, b, old, make) ==
  /\ Arrive(c, "bind") /\ Config!CanUpdateBind(b)
  /\ old \in binds /\ old.name = b.name
  /\ AcceptLocked(c, "update", Do("stopBind", old) \o Install(b, make) \o Save,
                  [Now EXCEPT !.binds = Config!Put(binds, b)])

DeleteBind(c, b) ==
  /\ Arrive(c, "bind") /\ Config!CanReleaseBind(b)
  /\ AcceptLocked(c, "delete", Do("stopBind", b) \o Do("dropBind", b) \o Save,
                  [Now EXCEPT !.binds = Config!Without(binds, b.name)])

StartBindNow(c, b) ==
  /\ Arrive(c, "mountbind") /\ b \in binds
  /\ AcceptUnlocked(c, "mount", Must("startBind", b))

StopBindNow(c, b) ==
  /\ Arrive(c, "mountbind") /\ Config!CanReleaseBind(b)
  /\ AcceptUnlocked(c, "unmount", Do("stopBind", b))

\* The device is mountable while nothing has mounted it.
MountDisk(c, d) ==
  /\ Arrive(c, "disk") /\ Config!CanMountDisk(d)
  /\ ~\E m \in mounted : m.kind = "disk" /\ m.name = d.name
  /\ AcceptLocked(c, "create", Do("addLine", d) \o Do("mountDisk", d) \o Save,
                  [Now EXCEPT !.disks = Config!Put(disks, d)])

\* Fault: the line goes before the disk is known to be unmounted.
ReleasePlanLineFirst(d) == Do("dropLine", d) \o Do("umountDisk", d) \o Save

ReleasePlan(d) == Do("umountDisk", d) \o Do("dropLine", d) \o Save

UnmountDisk(c, d) ==
  /\ Arrive(c, "disk") /\ Config!CanReleaseDisk(d)
  /\ AcceptLocked(c, "delete", ReleasePlan(d),
                  [Now EXCEPT !.disks = Config!Without(disks, d.name)])

\* Fault: they do not take it.
ChangeSharesAnyTime(c) ==
  /\ Arrive(c, "share")
  /\ Config!ShareChange
  /\ UNCHANGED <<lock, job, files, mounted, stray, marks>>

\* The share endpoints hold the lock for their whole change of state.json.
ChangeShares(c) ==
  /\ Arrive(c, "share") /\ lock = NoClient
  /\ Config!ShareChange
  /\ UNCHANGED <<lock, job, files, mounted, stray, marks>>

(* The fixes that are not one of the requests above *)

FixPoolUnit(c, p) ==
  /\ Arrive(c, "pool_unit") /\ p \in pools
  /\ AcceptUnlocked(c, "fix", Do("writePool", p)
       \o Do("ifDown", [at |-> p.mountpoint, then |-> Must("mountPool", p)]))

FixBindUnit(c, b) ==
  /\ Arrive(c, "bind_unit_missing") /\ b \in binds
  /\ AcceptUnlocked(c, "fix", Do("writeBind", b)
       \o Do("ifDown", [at |-> b.target, then |-> Must("startBind", b)]))

FixBindSource(c, b) ==
  /\ Arrive(c, "bind_source_missing") /\ b \in binds
  /\ AcceptUnlocked(c, "fix", Do("makeSource", b))

FixDiskMount(c, d) ==
  /\ Arrive(c, "disk_mount_not_mounted") /\ d \in disks
  /\ AcceptUnlocked(c, "fix", Do("mountDisk", d))

\* The fix of the sleep page.  Whether the line has the option is left out:
\* if it does, the fix ends after reading.
FixNoatime(c, d) ==
  /\ Arrive(c, "noatime") /\ d \in disks
  /\ AcceptUnlocked(c, "fix", Do("readLines", d))

\* The options it sets are left out.
FixPassthrough(c, p) ==
  /\ Arrive(c, "pool_passthrough_available") /\ p \in pools
  /\ AcceptLocked(c, "remount",
       (IF IsMounted(p.mountpoint) THEN RemountPlan(p)
        ELSE Do("writePool", p) \o Must("mountPool", p)) \o Save \o Do("done", p), Now)

Fix(c) ==
  \/ \E p \in PoolChoices : FixPoolUnit(c, p) \/ FixPassthrough(c, p)
  \/ \E b \in BindChoices : FixBindUnit(c, b) \/ FixBindSource(c, b)
  \/ \E d \in DiskChoices : FixDiskMount(c, d) \/ FixNoatime(c, d)

Request(c) ==
  \/ \E p \in PoolChoices : CreatePool(c, p) \/ DeletePool(c, p) \/ RemountPool(c, p)
                            \/ MountPool(c, p) \/ UnmountPool(c, p)
  \/ \E p \in PoolChoices, old \in pools : UpdatePool(c, p, old)
  \/ \E new \in SUBSET BindChoices, make \in BOOLEAN : CreateBinds(c, new, make)
  \/ \E b \in BindChoices, old \in binds, make \in BOOLEAN : UpdateBind(c, b, old, make)
  \/ \E b \in BindChoices : DeleteBind(c, b) \/ StartBindNow(c, b) \/ StopBindNow(c, b)
  \/ \E d \in DiskChoices : MountDisk(c, d) \/ UnmountDisk(c, d)
  \/ ChangeShares(c)
  \/ Fix(c)

-----------------------------------------------------------------------------
(* Steps of a plan *)

At(c, step) == job[c].plan # <<>> /\ Head(job[c].plan).do = step
On(c) == Head(job[c].plan).on

\* The request is over: answered, or ended by an exception.
End(c) ==
  /\ job' = [job EXCEPT ![c] = Idle]
  /\ lock' = IF lock = c THEN NoClient ELSE lock

Continue(c, plan) ==
  IF plan = <<>> THEN End(c) ELSE job' = [job EXCEPT ![c].plan = plan] /\ UNCHANGED lock

Proceed(c) == Continue(c, Tail(job[c].plan))

\* A step that may fail has: a warning, or the end of the request.
Fail(c) == IF Head(job[c].plan).must THEN End(c) ELSE Proceed(c)

SaveState(c) ==
  /\ At(c, "save")
  /\ pools' = job[c].draft.pools /\ binds' = job[c].draft.binds
  /\ disks' = job[c].draft.disks /\ shares' = job[c].draft.shares
  /\ Proceed(c)
  /\ UNCHANGED <<files, mounted, stray, marks>>

\* A request without the lock writes x from a state that another one has
\* changed, or is about to.
Outdated(c, x, S, drafts(_)) ==
  lock # c /\ (x \notin S \/ \E d \in Clients : lock = d /\ x \notin drafts(job[d].draft))

\* systemctl enable and disable, whose result is not looked at.  The link
\* is to the unit's name: it stays good when the unit is written again.
Enable(kind, name) ==
  \/ enabled' = enabled \cup {<<kind, name>>}
  \/ "noenable" \in Environment /\ UNCHANGED enabled

Disable(kind, name) ==
  \/ enabled' = enabled \ {<<kind, name>>}
  \/ "noenable" \in Environment /\ UNCHANGED enabled

WritePool(c) ==
  /\ At(c, "writePool")
  /\ poolUnits' = Config!Put(poolUnits, On(c))
  /\ Enable("pool", On(c).name)
  /\ Proceed(c)
  /\ Marking(IF Outdated(c, On(c), pools, LAMBDA d : d.pools) THEN {"stale"} ELSE {})
  /\ UNCHANGED <<config, bindUnits, fstab, mounted, stray>>

\* is_mounted, then write_pool_unit.
LookAndWritePool(c) ==
  /\ At(c, "lookPool")
  /\ poolUnits' = Config!Put(poolUnits, On(c))
  /\ Enable("pool", On(c).name)
  /\ Continue(c, Save \o IF IsMounted(On(c).mountpoint) THEN Do("tunePool", On(c))
                         ELSE Try("mountPool", On(c)))
  /\ Marking(IF \E old \in pools, v \in bindUnits :
                  /\ old.name = On(c).name /\ old.mountpoint # On(c).mountpoint
                  /\ old.name \in v.requires \/ Covers(old.mountpoint, v.bind.source)
              THEN {"moved"} ELSE {})
  /\ UNCHANGED <<config, bindUnits, fstab, mounted, stray>>

DropPool(c) ==
  /\ At(c, "dropPool")
  /\ poolUnits' = Config!Without(poolUnits, On(c).name)
  /\ Disable("pool", On(c).name)
  /\ Proceed(c)
  /\ UNCHANGED <<config, bindUnits, fstab, mounted, stray, marks>>

\* runtime_update: the branches of the live pool, through its control file.
TunePool(c) ==
  /\ At(c, "tunePool")
  /\ \/ mounted' = {IF m.kind = "pool" /\ m.at = On(c).mountpoint
                    THEN [m EXCEPT !.from = On(c).branches] ELSE m : m \in mounted}
     \/ "nomount" \in Environment /\ UNCHANGED mounted
  /\ Proceed(c)
  /\ UNCHANGED <<config, files, stray, marks>>

\* The disks that RequiresMountsFor= mounts before a unit runs.
Needed(places) == {d \in fstab : \E q \in places : Covers(d.mountpoint, q)}
Pulled(places) == {DiskMount(d) : d \in Needed(places)}

\* What systemctl start of a pool's unit leaves mounted, when it succeeds.
AfterStart(name) ==
  IF Active(mounted, "pool", name) THEN {mounted}
  ELSE {mounted \cup Pulled(u.branches) \cup {PoolMount(u, TRUE)} :
          u \in {x \in poolUnits : x.name = name}}

\* mount_pool: the unit, or mergerfs directly when systemctl reports an error.
StartPool(c) ==
  /\ At(c, "mountPool")
  /\ \/ mounted' \in AfterStart(On(c).name) /\ Proceed(c) /\ UNCHANGED marks
     \/ /\ "nomount" \in Environment \/ AfterStart(On(c).name) = {}
        /\ \/ /\ mounted' = mounted \cup {PoolMount(On(c), FALSE)}
              /\ Proceed(c)
              /\ Marking({"direct"})
           \/ "nomount" \in Environment /\ UNCHANGED <<mounted, marks>> /\ Fail(c)
  /\ UNCHANGED <<config, files, stray>>

\* is_mounted at the end of the fixes that write a unit.
StartIfDown(c) ==
  /\ At(c, "ifDown")
  /\ Continue(c, IF IsMounted(On(c).at) THEN <<>> ELSE On(c).then)
  /\ UNCHANGED <<config, files, mounted, stray, marks>>

\* Bind mounts whose unit requires the pool's: systemd stops them first.
Dependents(name) ==
  {m \in mounted : m.kind = "bind" /\ \E v \in bindUnits : v.bind.name = m.name /\ name \in v.requires}

\* is_mounted, then umount, which may raise.
Umount(c, path) ==
  \/ /\ ~IsMounted(path) \/ Free(mounted, path)
     /\ mounted' = Unmounted(path)
     /\ Proceed(c)
  \/ /\ IsMounted(path)
     /\ "busy" \in Environment \/ ~Free(mounted, path)
     /\ UNCHANGED mounted
     /\ End(c)

\* A remount remembers which bind mounts it took down.
ProceedWithout(c, taken) ==
  IF job[c].kind = "remount"
    THEN /\ job' = [job EXCEPT ![c].plan = Tail(@), ![c].down = {m.name : m \in taken}]
         /\ UNCHANGED lock
    ELSE Proceed(c)

\* unmount_pool.  Stopping a unit that is not active succeeds and does
\* nothing, even if mergerfs was started without it; systemctl reports an
\* error when there is no unit, and umount is used.
StopPool(c) ==
  /\ At(c, "stopPool")
  /\ LET p    == On(c)
         own  == {m \in mounted : m.kind = "pool" /\ m.name = p.name /\ m.byUnit}
         deps == Dependents(p.name)
     IN \/ /\ Config!Has(poolUnits, p.name) /\ own = {}
           /\ UNCHANGED mounted
           /\ Proceed(c)
        \/ /\ Config!Has(poolUnits, p.name) /\ own # {}
           /\ \/ /\ \A m \in own : Free(mounted \ deps, m.at)
                 /\ mounted' = mounted \ (own \cup deps)
                 /\ ProceedWithout(c, deps)
              \/ /\ "busy" \in Environment \/ \E m \in own : ~Free(mounted \ deps, m.at)
                 /\ mounted' = mounted \ deps
                 /\ End(c)
        \/ /\ ~Config!Has(poolUnits, p.name)
           /\ Umount(c, p.mountpoint)
  /\ UNCHANGED <<config, files, stray, marks>>

MakeSource(c) ==
  /\ At(c, "makeSource")
  /\ \/ /\ SourceExists(mounted, On(c).source) \/ ~HollowIn(mounted, On(c).source)
        /\ UNCHANGED <<stray, marks>>
        /\ Proceed(c)
     \/ /\ ~SourceExists(mounted, On(c).source)
        /\ stray' = stray \cup {On(c).source}
        /\ Proceed(c)
        /\ UNCHANGED marks
     \/ /\ "nosource" \in Environment
        /\ UNCHANGED stray
        /\ End(c)
        /\ Marking(IF \E v \in bindUnits : v.bind \in job[c].draft.binds \ binds THEN {"cut"} ELSE {})
  /\ UNCHANGED <<config, files, mounted>>

\* bind_unit: the pool it requires, and the mount its guard checks.
BindUnit(b, inPools) ==
  [bind     |-> b,
   requires |-> {p.name : p \in {x \in inPools :
                   x.mountpoint \in Deepest({y.mountpoint : y \in inPools}, b.source)}},
   guard    |-> MountRoot(b.source)]

WithoutUnit(name) == {v \in bindUnits : v.bind.name # name}

WriteBind(c) ==
  /\ At(c, "writeBind")
  /\ bindUnits' = WithoutUnit(On(c).name) \cup {BindUnit(On(c), job[c].draft.pools)}
  /\ Enable("bind", On(c).name)
  /\ Proceed(c)
  /\ Marking((IF Outdated(c, On(c), binds, LAMBDA d : d.binds) THEN {"stale"} ELSE {})
             \cup (IF Active(mounted, "bind", On(c).name) THEN {"kept"} ELSE {})
             \cup (IF MountRoot(On(c).source) \subseteq Storage THEN {} ELSE {"loose"}))
  /\ UNCHANGED <<config, poolUnits, fstab, mounted, stray>>

DropBind(c) ==
  /\ At(c, "dropBind")
  /\ bindUnits' = WithoutUnit(On(c).name)
  /\ Disable("bind", On(c).name)
  /\ Proceed(c)
  /\ Marking(IF Active(mounted, "bind", On(c).name) THEN {"kept"} ELSE {})
  /\ UNCHANGED <<config, poolUnits, fstab, mounted, stray>>

\* Fault: mountpoint -q is left out of the unit.
GuardPassesAlways(v, table) == SourceExists(table, v.bind.source)

\* ExecStartPre: mountpoint -q, when the unit has it, and test -d.
GuardPasses(v, table) ==
  (\A g \in v.guard : MountedIn(table, g)) /\ SourceExists(table, v.bind.source)

\* systemctl start of the bind unit v, when it succeeds.
AfterBindStart(v) ==
  IF Active(mounted, "bind", v.bind.name) THEN {mounted}
  ELSE LET ready == IF v.requires = {} THEN {mounted \cup Pulled(v.guard)}
                    ELSE UNION {AfterStart(n) : n \in v.requires}
       IN {t \cup {BindMount(v.bind, t)} :
             t \in {x \in ready : GuardPasses(v, x)}}

StartBind(c) ==
  /\ At(c, "startBind")
  /\ LET results == UNION {AfterBindStart(v) : v \in {x \in bindUnits : x.bind.name = On(c).name}}
     IN \/ mounted' \in results /\ Proceed(c)
        \/ /\ "nomount" \in Environment \/ results = {}
           /\ UNCHANGED mounted
           /\ Fail(c)
  /\ UNCHANGED <<config, files, stray, marks>>

\* unmount_bind: a busy target only gives a warning.
StopBind(c) ==
  /\ At(c, "stopBind")
  /\ \/ /\ Free(mounted, On(c).target)
        /\ mounted' = {m \in Unmounted(On(c).target) : ~(m.kind = "bind" /\ m.name = On(c).name)}
     \/ /\ "busy" \in Environment \/ ~Free(mounted, On(c).target)
        /\ UNCHANGED mounted
  /\ Proceed(c)
  /\ UNCHANGED <<config, files, stray, marks>>

AddLine(c) ==
  /\ At(c, "addLine")
  /\ fstab' = Config!Put(fstab, On(c))
  /\ Proceed(c)
  /\ UNCHANGED <<config, poolUnits, bindUnits, enabled, mounted, stray, marks>>

DropLine(c) ==
  /\ At(c, "dropLine")
  /\ fstab' = Config!Without(fstab, On(c).name)
  /\ Proceed(c)
  /\ UNCHANGED <<config, poolUnits, bindUnits, enabled, mounted, stray, marks>>

\* read_fstab, and write_fstab, in the noatime fix.
ReadLines(c) ==
  /\ At(c, "readLines")
  /\ Continue(c, IF On(c) \in fstab THEN <<[do |-> "writeLines", lines |-> fstab]>> ELSE <<>>)
  /\ UNCHANGED <<config, files, mounted, stray, marks>>

WriteLines(c) ==
  /\ At(c, "writeLines")
  /\ fstab' = Head(job[c].plan).lines
  /\ Proceed(c)
  /\ Marking(IF fstab' # fstab \/ lock # NoClient THEN {"stale"} ELSE {})
  /\ UNCHANGED <<config, poolUnits, bindUnits, enabled, mounted, stray>>

\* mount looks the disk up in fstab.
AttachDisk(c) ==
  /\ At(c, "mountDisk")
  /\ \/ /\ On(c) \in fstab /\ ~IsMounted(On(c).mountpoint)
        /\ mounted' = mounted \cup {DiskMount(On(c))}
        /\ Proceed(c)
        /\ UNCHANGED marks
     \/ /\ "nodisk" \in Environment \/ On(c) \notin fstab \/ IsMounted(On(c).mountpoint)
        /\ UNCHANGED mounted
        /\ End(c)
        /\ Marking(IF On(c) \in disks THEN {} ELSE {"left"})
  /\ UNCHANGED <<config, files, stray>>

DetachDisk(c) ==
  /\ At(c, "umountDisk")
  /\ Umount(c, On(c).mountpoint)
  /\ UNCHANGED <<config, files, stray, marks>>

Answer(c) ==
  /\ At(c, "done")
  /\ Proceed(c)
  /\ UNCHANGED <<config, files, mounted, stray, marks>>

Work(c) ==
  \/ SaveState(c) \/ WritePool(c) \/ LookAndWritePool(c) \/ DropPool(c) \/ TunePool(c)
  \/ StartPool(c) \/ StopPool(c) \/ MakeSource(c) \/ WriteBind(c) \/ DropBind(c)
  \/ StartBind(c) \/ StopBind(c) \/ AddLine(c) \/ DropLine(c) \/ AttachDisk(c)
  \/ DetachDisk(c) \/ StartIfDown(c) \/ ReadLines(c) \/ WriteLines(c) \/ Answer(c)

-----------------------------------------------------------------------------
(* The host *)

Dropped == job' = [c \in Clients |-> Idle] /\ lock' = NoClient

\* The service is restarted: its threads are gone, everything else stays.
Restart ==
  /\ "restart" \in Environment /\ ~Quiet
  /\ Dropped
  /\ Marking({"cut"})
  /\ UNCHANGED <<config, files, mounted, stray>>

\* A boot starts what is enabled, and the pools that an enabled bind unit
\* requires.
BindWanted(name) == <<"bind", name>> \in enabled
PoolWanted(name) ==
  \/ <<"pool", name>> \in enabled
  \/ \E v \in bindUnits : BindWanted(v.bind.name) /\ name \in v.requires

\* What is mounted once the disks in found are, and the units have run.
Booted(found) ==
  LET live  == {u \in poolUnits : PoolWanted(u.name) /\ Needed(u.branches) \subseteq found}
      ready == {DiskMount(d) : d \in found} \cup {PoolMount(u, TRUE) : u \in live}
      up    == {v \in bindUnits : /\ BindWanted(v.bind.name)
                                  /\ v.requires \subseteq {u.name : u \in live}
                                  /\ GuardPasses(v, ready)}
  IN ready \cup {BindMount(v.bind, ready) : v \in up}

\* The managed lines of fstab say nofail.  In the middle of a request, a reboot
\* is a restart and then this.
Reboot ==
  /\ "reboot" \in Environment /\ Quiet
  /\ Dropped
  /\ \E found \in (IF "missing" \in Environment THEN SUBSET fstab ELSE {fstab}) :
       mounted' = Booted(found)
  /\ marks' = marks \ {"direct", "kept"}
  /\ UNCHANGED <<config, files, stray>>

Next == Restart \/ Reboot \/ \E c \in Clients : Request(c) \/ Work(c)

Spec == Init /\ [][Next]_vars

-----------------------------------------------------------------------------
(* What the storage half promises *)

(* Whatever requests overlap, fail or are cut off by a restart or a        *)
(* reboot, state.json only goes from one configuration to the next one     *)
(* that a single request makes of it: no lost update, no half of a request,*)
(* no check made on a configuration that is gone when it is saved.         *)
ImplementsConfig == Config!Spec

(* When no request is under way, the unit files are those of the saved     *)
(* pools and bind mounts, and every saved disk has its line in fstab.  A   *)
(* line without a disk is there only after a disk failed to mount          *)
(* (api/disks.py:50-53 leaves it).  The exceptions are requests that were  *)
(* cut off and writes without the lock.                                    *)
UnitsMatch ==
  Quiet /\ marks \cap {"cut", "stale"} = {} =>
    /\ poolUnits = pools
    /\ {v.bind : v \in bindUnits} = binds
    /\ disks \subseteq fstab
    /\ "left" \notin marks => fstab \subseteq disks

(* When no request is under way, every pool, bind mount and disk that is   *)
(* mounted is one the configuration puts there, unless mergerfs was started*)
(* outside its unit or a busy target was given up.                         *)
NoOrphanMount ==
  Quiet /\ marks \cap {"cut", "stale", "left", "direct", "kept"} = {} => \A m \in mounted :
             \/ m.kind = "pool" /\ \E p \in pools : p.name = m.name /\ p.mountpoint = m.at
             \/ m.kind = "bind" /\ \E b \in binds : b.name = m.name /\ b.target = m.at
             \/ m.kind = "disk" /\ \E d \in disks : d.name = m.name

StopsUnderShares(c) ==
  \/ /\ At(c, "stopPool") /\ job[c].kind # "remount"
     /\ Config!BlockersForPath(On(c).mountpoint) # {}
  \/ /\ At(c, "stopBind")
     /\ ~\E b \in job[c].draft.binds : b.name = On(c).name /\ b.target = On(c).target
     /\ Config!BlockersForPath(On(c).target) # {}

(* A request that holds the lock does not unmount a pool or a bind mount, to *)
(* delete or move it, while a share needs it (core/deps.py:38-40): its check *)
(* still holds when the command runs.  An update that leaves a bind mount at *)
(* its target stops it under its shares, to start it again; the endpoints    *)
(* that only unmount take no lock.                                           *)
LockedStopsAreSafe == \A c \in Clients : StopsUnderShares(c) => lock # c

(* A remount that succeeds leaves up every bind mount it took down         *)
(* (remount_pool_with_binds).                                              *)
RemountRestoresBinds ==
  \A c \in Clients, b \in binds :
    At(c, "done") /\ b.name \in job[c].down /\ marks \cap {"cut", "stale", "moved"} = {}
      => Active(mounted, "bind", b.name)

(* A bind mount whose unit was written while the storage of its source was *)
(* mounted never shows the empty directory below that storage, whatever    *)
(* disks are missing at later boots and whatever mounts fail.              *)
(* write_unit (storage/binds.py), bindconf.py:51-57.                       *)
GuardHolds ==
  \A m \in mounted, v \in bindUnits :
    /\ m.kind = "bind" /\ v.bind.name = m.name /\ "kept" \notin marks
    /\ v.guard = Home(v.bind.source) /\ v.guard # {}
    => ~Hollow(m)

\* No finding of _pool_checks, _bind_checks, _mount_checks and _unit_checks
\* that speaks of a mount or a unit.
PageIsClean ==
  /\ \A p \in pools : IsMounted(p.mountpoint) /\ p \in poolUnits
  /\ \A b \in binds : /\ SourceExists(mounted, b.source)
                      /\ IsMounted(b.target)
                      /\ \E v \in bindUnits : v.bind.name = b.name
  /\ \A d \in disks : IsMounted(d.mountpoint)

\* With every disk found, each pool, bind mount and disk comes up at its
\* place, the bind mounts with their own content, but for the units that are
\* not enabled and the bind mounts that rest on a pool that is not.
BootsWhole ==
  LET up == Booted(fstab)
  IN /\ \A p \in pools : PoolWanted(p.name) => PoolMount(p, TRUE) \in up
     /\ \A b \in binds :
          /\ BindWanted(b.name)
          /\ \A p \in pools : Covers(p.mountpoint, b.source) => PoolWanted(p.name)
          => \E m \in up : /\ m.kind = "bind" /\ m.name = b.name
                           /\ m.at = b.target /\ m.from = b.source /\ ~Hollow(m)
     /\ \A d \in disks : DiskMount(d) \in up

(* A clean diagnostics page is good news for the next boot: when every disk*)
(* is found, each disk, pool and bind mount of the configuration comes up, *)
(* with its own content, but for a unit whose systemctl enable failed.  The*)
(* page looks at no line of fstab, at no bind unit's text and at no link.  *)
CleanPageLasts ==
  Quiet /\ PageIsClean /\ marks \cap {"cut", "direct", "moved"} = {} => BootsWhole

(* The same of any page: whatever mounts, unmounts and fixes failed, the   *)
(* next boot that finds every disk brings up all that is saved.  A request *)
(* that was cut off, a pool moved from under bind mounts, a bind unit made *)
(* of a mount outside the configuration, and a systemctl enable that failed*)
(* (write_unit ignores it) leave something down, and nothing else does.    *)
BootRestores ==
  Quiet /\ marks \cap {"cut", "stale", "moved", "loose"} = {} => BootsWhole
=============================================================================
