--------------------------- MODULE MCStorageHost ---------------------------
(* Small instances of StorageHost for TLC.                                 *)
EXTENDS StorageHost, TLC

Names == {"mnt", "pool", "in", "tree", "disk", "a", "b", "old"}

LOCAL Pool(name, at, from) == [name |-> name, mountpoint |-> at, branches |-> from]
LOCAL Bind(name, from, at) == [name |-> name, source |-> from, target |-> at]
LOCAL Disk(name)           == [name |-> name, mountpoint |-> <<"disk", name>>]

\* A pool that may move, a folder of it in the tree, a share on each.
MovingPool == {Pool("p", <<"mnt", "pool">>, {<<"disk", "a">>}), Pool("p", <<"old">>, {<<"disk", "a">>})}
OneFolder  == {Bind("a", <<"mnt", "pool", "a">>, <<"tree", "a">>)}
OneShare   == {[name |-> "s", path |-> <<"tree", "a">>]}

\* One pool below the place of another, and a folder below both.
PoolInPool  == {Pool("p", <<"mnt", "pool">>, {<<"disk", "a">>}),
                Pool("q", <<"mnt", "pool", "in">>, {<<"disk", "b">>})}
InnerFolder == {Bind("a", <<"mnt", "pool", "in", "a">>, <<"tree", "a">>)}

OneDisk    == {Disk("a")}

\* A folder of the pool that may be shown elsewhere, and a disk.
Mixed == OneFolder \cup {Bind("a", <<"mnt", "pool", "a">>, <<"in", "a">>),
                         Bind("b", <<"disk", "a">>, <<"tree", "b">>)}

Anyone == Permutations(Clients)

\* No property says anything after a write without the lock, but for those
\* of state.json, which reads no unit and no line of fstab.  A request that is
\* cut off and a disk that does not mount are taken one at a time.
NotStale == "stale" \notin marks /\ Cardinality(marks) <= 1

\* Nothing is decided between the arrival of the noatime fix and its reading of
\* fstab: it might as well arrive then.
Prompt == \A c \in Clients : At(c, "readLines") => job'[c] # job[c]

Linked == {<<"pool", u.name>> : u \in poolUnits} \cup {<<"bind", v.bind.name>> : v \in bindUnits}

\* One kind of damage at a time, beside a loose guard; a unit that could not
\* be enabled, or a link left behind, counts as one.
OneMark == Cardinality(marks \ {"loose"}) + (IF enabled = Linked THEN 0 ELSE 1) <= 1

AllButShares == RequestKinds \ {"share"}

None == {}
=============================================================================
