-------------------------- MODULE MCStorageConfig --------------------------
(* Small instances of StorageConfig for TLC.                               *)
EXTENDS StorageConfig

Names == {"mnt", "pool", "tree", "disk", "old", "x", "a", "b", "c"}

LOCAL Pool(name, at)       == [name |-> name, mountpoint |-> at, branches |-> {<<"disk", "a">>}]
LOCAL Bind(name, from, at) == [name |-> name, source |-> from, target |-> at]
LOCAL Share(name, at)      == [name |-> name, path |-> at]

\* A pool that may move, one that may be created over the presentation tree;
\* folders of the pool shown in the tree, and all of /mnt shown elsewhere.
ManyPools  == {Pool("p", <<"mnt", "pool">>), Pool("p", <<"old">>), Pool("q", <<"tree">>)}
ManyBinds  == {Bind("a", <<"mnt", "pool", "a">>, <<"tree", "a">>), Bind("a", <<"mnt">>, <<"x">>),
               Bind("b", <<"mnt", "pool">>, <<"tree", "b">>),
               Bind("b", <<"mnt", "pool", "b">>, <<"tree", "a">>),
               Bind("c", <<"disk", "a", "c">>, <<"tree", "a", "c">>)}
ManyShares == {Share("s", <<"tree">>), Share("s", <<"tree", "a">>), Share("s", <<"x", "pool", "a">>),
               Share("t", <<"tree", "b", "b">>), Share("t", <<"mnt", "pool", "b">>)}
OneDisk    == {[name |-> "a", mountpoint |-> <<"disk", "a">>]}

\* Bind mounts whose sources are below what the one before shows.
ChainBinds  == {Bind("a", <<"old">>, <<"x">>), Bind("b", <<"x", "b">>, <<"b">>),
                Bind("c", <<"b", "c">>, <<"c">>)}
ChainShares == {Share("s", <<"c">>)}

MovingPool == {Pool("p", <<"mnt", "pool">>), Pool("p", <<"old">>)}
TreePool   == {Pool("q", <<"tree">>)}
PoolFolder == {Bind("b", <<"mnt", "pool", "b">>, <<"tree", "b">>)}

NoDisks  == {}
NoPools  == {}
NoShares == {}
=============================================================================
