---------------------------- MODULE PoolOptions ----------------------------
(***************************************************************************)
(* The options of one pool: what the form holds, what mergerfs is asked    *)
(* for, and what a running mergerfs makes of it.  Options that behave alike*)
(* stand for each other: moveonenospc for everything the control file      *)
(* takes and nobody reads back, cache.attr for an extra option the control *)
(* file takes, inodecalc for one it refuses.                               *)
(***************************************************************************)
EXTENDS Sequences, FiniteSets

CONSTANTS
  Values,    \* what an option may be set to
  Branches   \* what the branches of the pool may be

ASSUME OptionsAssumption ==
  {"off", "auto-full", "rw", "true", "false", "default"} \subseteq Values

VERIFIABLE_OPTIONS == {"cache.files", "cache.writeback", "passthrough"}
MOUNT_TIME_OPTIONS == {"cache.writeback", "passthrough"}
RUNTIME_OPTIONS    == <<"moveonenospc", "cache.files">>
ExtraOnly          == {"cache.attr", "inodecalc"}

OptionKeys == VERIFIABLE_OPTIONS \cup {"moveonenospc"} \cup ExtraOnly

\* class Pool, without its place; extra_options are those of keys.
Pool(keys) == [branches : Branches, cache_files : Values, cache_writeback : BOOLEAN,
               moveonenospc : BOOLEAN, passthrough : Values, extra : [keys -> Values]]

IsPool(form) == \E keys \in SUBSET OptionKeys : form \in Pool(keys)

\* The model validators of Pool.  What extra_options says is not looked at.
Valid(pool) ==
  /\ pool.cache_writeback => pool.cache_files # "off"
  /\ pool.passthrough # "off" => pool.cache_files # "off" /\ ~pool.cache_writeback

Switch(b) == IF b THEN "true" ELSE "false"

\* The options that have a field in the form.
FieldOptions(pool) ==
  [k \in {"cache.files", "cache.writeback", "moveonenospc"}
         \cup (IF pool.passthrough # "off" THEN {"passthrough"} ELSE {}) |->
     CASE k = "cache.files"     -> pool.cache_files
       [] k = "cache.writeback" -> Switch(pool.cache_writeback)
       [] k = "moveonenospc"    -> Switch(pool.moveonenospc)
       [] OTHER                 -> pool.passthrough]

\* What extra_options says wins.
merged_options(pool) ==
  [k \in DOMAIN FieldOptions(pool) \cup DOMAIN pool.extra |->
     IF k \in DOMAIN pool.extra THEN pool.extra[k] ELSE FieldOptions(pool)[k]]

\* The text of the unit, as far as it decides what is mounted.
pool_unit(pool) == [options |-> merged_options(pool), branches |-> pool.branches]

-----------------------------------------------------------------------------
(* mergerfs: what it does with the options, as the comments of poolconf.py *)
(* and models.py say                                                       *)

Default(key) ==
  CASE key = "cache.files" -> "auto-full" [] key = "passthrough" -> "off"
    [] key = "cache.writeback" -> "false" [] OTHER -> "default"

Asked(options, key) == IF key \in DOMAIN options THEN options[key] ELSE Default(key)

\* Will it mount at all?  A version before 2.41 does not know passthrough.
Accepts(options, recent) ==
  /\ "passthrough" \in DOMAIN options => recent
  /\ ~(/\ Asked(options, "passthrough") = "off"
       /\ Asked(options, "cache.files") = "off"
       /\ Asked(options, "cache.writeback") = "true")

\* Two options give way to passthrough, silently.
Resolved(options) ==
  [k \in OptionKeys |->
     IF Asked(options, "passthrough") = "off" THEN Asked(options, k)
     ELSE CASE k = "cache.files" /\ Asked(options, k) = "off" -> "auto-full"
            [] k = "cache.writeback" -> "false"
            [] OTHER -> Asked(options, k)]

\* What a mounted pool may run.
Running == [options : [OptionKeys -> Values], branches : Branches, recent : BOOLEAN]

Started(unit, recent) ==
  [options |-> Resolved(unit.options), branches |-> unit.branches, recent |-> recent]

\* Does mergerfs run these options as they are written?
Compatible(options) == \A k \in DOMAIN options : Resolved(options)[k] = options[k]
=============================================================================
