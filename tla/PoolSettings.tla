---------------------------- MODULE PoolSettings ----------------------------
(***************************************************************************)
(* One pool from the form to the running mergerfs.  A save writes the unit,*)
(* then state.json, then pushes what it can through the control file of    *)
(* the mounted pool, option by option; what the pool cannot adopt is left  *)
(* to a remount, which is offered in the answer and again by the           *)
(* diagnostics page.  Saves and the passthrough fix hold state_store.lock; *)
(* remount, mount, unmount and the other fixes do not.                     *)
(*                                                                         *)
(* Names, mountpoints and bind mounts are StorageHost's subject, and so is *)
(* mergerfs started outside its unit.                                      *)
(***************************************************************************)
EXTENDS PoolOptions, SequencesExt

CONSTANTS
  Forms,        \* what users save
  FirstForm,    \* the pool as it was created
  Clients, NoClient,
  Requests,     \* what users send: see RequestKinds
  Concurrent,   \* which of them overlap; the others come one at a time
  Environment,  \* what may go wrong: see TroubleKinds
  FirstRecent,  \* is the installed mergerfs 2.41 or later?
  NotMounted

\* Two of the fixes are what two endpoints do.
FixFor == [pool_not_mounted |-> "mount", pool_needs_remount |-> "remount",
           pool_unit |-> "unit", pool_passthrough_available |-> "passthrough"]

RequestKinds == {"save", "unmount", "mount", "remount", "unit", "passthrough"}

TroubleKinds == {"refuse",   \* the control file refuses an option
                 "busy",     \* an unmount does not succeed
                 "nomount",  \* a mount does not
                 "upgrade",  \* a recent mergerfs is installed
                 "restart",  \* the service is restarted
                 "reboot"}   \* the host is

ASSUME SettingsAssumption ==
  /\ NoClient \notin Clients
  /\ Requests \subseteq RequestKinds /\ Concurrent \subseteq Requests
  /\ Environment \subseteq TroubleKinds
  /\ FirstForm \in Forms /\ \A f \in Forms : IsPool(f) /\ Valid(f)
  /\ NotMounted \notin Running
  /\ FirstRecent \in (SUBSET BOOLEAN) \ {{}}

VARIABLES
  saved,    \* the pool in state.json
  unit,     \* its unit file
  live,     \* the running mergerfs
  recent,   \* is the installed mergerfs recent?
  lock, job,
  told,     \* observes: the last word to the user was not that all is applied
  calm      \* from here on users only click on fixes, and commands work

vars == <<saved, unit, live, recent, lock, job, told, calm>>

Idle == [kind |-> "none", form |-> FirstForm, plan |-> <<>>, stale |-> {}, alone |-> FALSE]

Quiet == \A c \in Clients : job[c] = Idle

Trouble(kind) == kind \in Environment /\ ~calm

Init ==
  /\ saved = FirstForm /\ unit = pool_unit(FirstForm)
  /\ live = NotMounted
  /\ recent \in FirstRecent
  /\ lock = NoClient /\ job = [c \in Clients |-> Idle]
  /\ told = FALSE /\ calm = FALSE

-----------------------------------------------------------------------------
(* What the running pool says of itself, and the checks that read it *)

Mounted == live # NotMounted

\* live_option: a mergerfs from before 2.41 does not answer for passthrough.
Answers(key) == key = "passthrough" => live.recent

\* Fault: extra_options is not looked at.
DiffersFromFields(pool, keys) ==
  {k \in keys : Answers(k) /\ live.options[k] # Asked(FieldOptions(pool), k)}

\* The options of keys that live runs otherwise than pool wants.
Differs(pool, keys) ==
  {k \in keys : Answers(k) /\ live.options[k] # Asked(merged_options(pool), k)}

option_drift(pool) == IF Mounted THEN Differs(pool, VERIFIABLE_OPTIONS) ELSE {}

\* _pool_checks and _unit_checks, the findings that have a fix.
Findings ==
  {f \in DOMAIN FixFor :
     CASE f = "pool_not_mounted"   -> ~Mounted
       [] f = "pool_unit"          -> unit # pool_unit(saved)
       [] f = "pool_needs_remount" -> option_drift(saved) # {}
       [] OTHER                    -> recent /\ saved.passthrough = "off"}

-----------------------------------------------------------------------------
(* Requests *)

\* What a request has still to do.
Steps == {"unit", "save", "update", "push", "compare", "try", "stop", "start", "startIfDown", "answer"}

Do(steps) == [i \in 1..Len(steps) |-> [do |-> steps[i]]]

Alone(c) == \A d \in Clients \ {c} : job[d] = Idle

Accept(c, kind, form, plan) ==
  /\ job[c] = Idle
  /\ kind \in Requests
  /\ Quiet \/ {kind} \cup {job[d].kind : d \in Clients \ {c}} \subseteq Concurrent \cup {"none"}
  /\ job' = [d \in Clients |->
       IF d = c THEN [kind |-> kind, form |-> form, plan |-> plan, stale |-> {}, alone |-> Alone(c)]
       ELSE [job[d] EXCEPT !.alone = FALSE]]
  /\ UNCHANGED <<saved, unit, live, recent, told, calm>>

Locks(c) == lock = NoClient /\ lock' = c

\* update_pool: whether the pool is mounted is looked up before the unit is
\* written; what happens after the save depends on it.
Save(c, form) ==
  /\ ~calm
  /\ Locks(c)
  /\ Accept(c, "save", form,
       Do(<<"unit", "save", IF Mounted THEN "update" ELSE "start", "answer">>))

\* remount_pool, and _remount_pool.
Remount(c) == Accept(c, "remount", saved, Do(<<"unit", "stop", "start", "answer">>)) /\ UNCHANGED lock

\* mount_pool, and _fix_pool_not_mounted.
MountNow(c) == Accept(c, "mount", saved, Do(<<"start", "answer">>)) /\ UNCHANGED lock

UnmountNow(c) == ~calm /\ Accept(c, "unmount", saved, Do(<<"stop", "answer">>)) /\ UNCHANGED lock

\* _fix_pool_unit
FixUnit(c) == Accept(c, "unit", saved, Do(<<"unit", "startIfDown", "answer">>)) /\ UNCHANGED lock

\* What _fix_pool_passthrough makes of the pool.
WithPassthrough(pool) ==
  [pool EXCEPT !.passthrough = "rw", !.cache_writeback = FALSE, !.moveonenospc = FALSE,
               !.cache_files = IF @ = "off" THEN "auto-full" ELSE @]

\* Fault: a mounted pool is left running.
PassthroughStepsNoStop == <<"unit", "start", "save", "answer">>

\* The state is saved last, and not at all when a command fails.
PassthroughSteps ==
  IF Mounted THEN <<"unit", "stop", "start", "save", "answer">>
  ELSE <<"unit", "start", "save", "answer">>

FixPassthrough(c) ==
  /\ Locks(c)
  /\ Accept(c, "passthrough", WithPassthrough(saved), Do(PassthroughSteps))

Request(c) ==
  \/ \E form \in Forms : Save(c, form)
  \/ UnmountNow(c)
  \/ ~calm /\ (MountNow(c) \/ Remount(c) \/ FixUnit(c) \/ FixPassthrough(c))

-----------------------------------------------------------------------------
(* Their steps *)

At(c, step) == job[c].plan # <<>> /\ Head(job[c].plan).do = step
Form(c) == job[c].form

Frees(c) == lock' = IF lock = c THEN NoClient ELSE lock

Ends(c) == job' = [job EXCEPT ![c] = Idle] /\ Frees(c)

Continue(c, plan) == job' = [job EXCEPT ![c].plan = plan] /\ UNCHANGED lock

Proceed(c) == Continue(c, Tail(job[c].plan))

\* An exception: the answer is an error.
Raises(c) == Ends(c) /\ told' = TRUE

WriteUnit(c) ==
  /\ At(c, "unit")
  /\ unit' = pool_unit(Form(c))
  /\ Proceed(c)
  /\ UNCHANGED <<saved, live, recent, told, calm>>

SaveState(c) ==
  /\ At(c, "save")
  /\ saved' = Form(c)
  /\ Proceed(c)
  /\ UNCHANGED <<unit, live, recent, told, calm>>

PushAll(keys) == [i \in 1..Len(keys) |-> [do |-> "push", key |-> keys[i]]]

\* Fault: the branches are not pushed.
PushesNoBranches == PushAll(RUNTIME_OPTIONS)

\* What runtime_update sends to the control file, in this order: every form
\* has a value for these options.
Pushes == PushAll(<<"branches">> \o RUNTIME_OPTIONS)

\* remount_needed tries the extra options that no list names.
Tries(pool) ==
  LET sent == SetToSeq(DOMAIN pool.extra \cap ExtraOnly)
  IN [i \in 1..Len(sent) |-> [do |-> "try", key |-> sent[i]]]

RuntimeUpdate(c) ==
  /\ At(c, "update")
  /\ Continue(c, IF Mounted THEN Pushes \o Do(<<"compare">>) \o Tries(Form(c)) \o Do(<<"answer">>)
                 ELSE Do(<<"answer">>))
  /\ UNCHANGED <<saved, unit, live, recent, told, calm>>

\* The control file takes the value.
Takes(key, pool) ==
  live' = IF key = "branches" THEN [live EXCEPT !.branches = pool.branches]
          ELSE [live EXCEPT !.options[key] = merged_options(pool)[key]]

\* The first option that is refused ends the update, with a warning.
Push(c) ==
  /\ At(c, "push")
  /\ \/ /\ Mounted
        /\ Takes(Head(job[c].plan).key, Form(c))
        /\ Proceed(c)
        /\ UNCHANGED told
     \/ /\ ~Mounted \/ Trouble("refuse")
        /\ Ends(c)
        /\ told' = TRUE
        /\ UNCHANGED live
  /\ UNCHANGED <<saved, unit, recent, calm>>

Compare(c) ==
  /\ At(c, "compare")
  /\ job' = [job EXCEPT ![c].plan = Tail(@),
                        ![c].stale = IF Mounted THEN Differs(Form(c), MOUNT_TIME_OPTIONS) ELSE {}]
  /\ UNCHANGED <<saved, unit, live, recent, lock, told, calm>>

Try(c) ==
  /\ At(c, "try")
  /\ LET key == Head(job[c].plan).key
     IN \/ /\ Mounted /\ key # "inodecalc"
           /\ Takes(key, Form(c))
           /\ Proceed(c)
        \/ /\ ~Mounted \/ key = "inodecalc" \/ Trouble("refuse")
           /\ job' = [job EXCEPT ![c].plan = Tail(@), ![c].stale = @ \cup {key}]
           /\ UNCHANGED <<live, lock>>
  /\ UNCHANGED <<saved, unit, recent, told, calm>>

\* unmount_pool
Stop(c) ==
  /\ At(c, "stop")
  /\ \/ live' = NotMounted /\ Proceed(c) /\ UNCHANGED told
     \/ Mounted /\ Trouble("busy") /\ UNCHANGED live /\ Raises(c)
  /\ UNCHANGED <<saved, unit, recent, calm>>

\* mount_pool: a unit that is active is left alone.  A save that cannot
\* mount only warns.
Start(c) ==
  /\ At(c, "start")
  /\ \/ Mounted /\ Proceed(c) /\ UNCHANGED <<live, told>>
     \/ /\ ~Mounted /\ Accepts(unit.options, recent)
        /\ live' = Started(unit, recent)
        /\ Proceed(c)
        /\ told' = FALSE
     \/ /\ ~Mounted
        /\ Trouble("nomount") \/ ~Accepts(unit.options, recent)
        /\ UNCHANGED live
        /\ Raises(c)
  /\ UNCHANGED <<saved, unit, recent, calm>>

StartIfDown(c) ==
  /\ At(c, "startIfDown")
  /\ Continue(c, (IF Mounted THEN <<>> ELSE Do(<<"start">>)) \o Tail(job[c].plan))
  /\ UNCHANGED <<saved, unit, live, recent, told, calm>>

\* The answer of a save names what needs a remount; without any, it says
\* that the pool runs what was saved.  That of the unit's fix speaks of the
\* unit only, whatever a mounted pool runs.
Tells(c) ==
  CASE job[c].kind = "save"      -> job[c].stale # {}
    [] job[c].kind = "unit" -> TRUE
    [] OTHER                     -> told

Answer(c) ==
  /\ At(c, "answer")
  /\ Ends(c)
  /\ told' = Tells(c)
  /\ UNCHANGED <<saved, unit, live, recent, calm>>

Work(c) ==
  \/ WriteUnit(c) \/ SaveState(c) \/ RuntimeUpdate(c) \/ Push(c) \/ Compare(c) \/ Try(c)
  \/ Stop(c) \/ Start(c) \/ StartIfDown(c) \/ Answer(c)

-----------------------------------------------------------------------------
(* The host *)

Dropped == job' = [c \in Clients |-> Idle] /\ lock' = NoClient

\* Requests without an answer: whoever sent them sees an error.
Restart ==
  /\ Trouble("restart")
  /\ Dropped
  /\ told' = (told \/ ~Quiet)
  /\ UNCHANGED <<saved, unit, live, recent, calm>>

Reboot ==
  /\ Trouble("reboot")
  /\ Dropped
  /\ told' = ~Quiet
  /\ \/ live' = IF Accepts(unit.options, recent) THEN Started(unit, recent) ELSE NotMounted
     \/ live' = NotMounted
  /\ UNCHANGED <<saved, unit, recent, calm>>

\* A running mergerfs stays what it is.
Upgrade ==
  /\ Trouble("upgrade") /\ ~recent
  /\ recent' = TRUE
  /\ UNCHANGED <<saved, unit, live, lock, job, told, calm>>

CalmDown == Quiet /\ ~calm /\ calm' = TRUE /\ UNCHANGED <<saved, unit, live, recent, lock, job, told>>

\* The user follows the page: what it offers is clicked, one at a time.
Repair(c, f) ==
  /\ calm /\ Quiet /\ f \in Findings
  /\ CASE FixFor[f] = "mount"   -> MountNow(c)
       [] FixFor[f] = "remount" -> Remount(c)
       [] FixFor[f] = "unit"    -> FixUnit(c)
       [] OTHER                 -> FixPassthrough(c)

Next ==
  \/ \E c \in Clients : Request(c) \/ Work(c) \/ \E f \in DOMAIN FixFor : Repair(c, f)
  \/ Restart \/ Reboot \/ Upgrade \/ CalmDown

Spec == Init /\ [][Next]_vars

\* Every command has a timeout.  The user does not leave an offer that keeps
\* coming back unclicked for ever.
Fairness ==
  /\ \A c \in Clients : WF_vars(Work(c))
  /\ \A f \in DOMAIN FixFor : SF_vars(\E c \in Clients : Repair(c, f))

FairSpec == Spec /\ Fairness

-----------------------------------------------------------------------------
(* What saving a pool promises *)

\* The running pool does everything the form asks for.
Runs(pool) ==
  /\ live.branches = pool.branches
  /\ \A k \in DOMAIN merged_options(pool) : live.options[k] = merged_options(pool)[k]

\* The pool was asked for passthrough, by a mergerfs too old to say.
Unasked == Mounted /\ ~live.recent /\ Asked(merged_options(saved), "passthrough") # "off"

Reported == told \/ Findings \ {"pool_passthrough_available"} # {}

(* When no request is under way, a mounted pool that does not run what is  *)
(* saved is never news to the user: the answer of the save said so, or an  *)
(* error did, or the diagnostics page does (pools.py:199-206, 251-253), as *)
(* long as mergerfs is recent enough to answer for passthrough.            *)
NothingSilent == Quiet /\ Mounted /\ ~Runs(saved) /\ ~Unasked => Reported

(* A fix that reports success, with no other request around it, has made   *)
(* its finding go away; a remount also brings options and unit in line,    *)
(* unless extra_options asks for what mergerfs does not do.                *)
FixWorks ==
  \A c \in Clients :
    LET kind == job[c].kind
        settled == Compatible(merged_options(saved)) => option_drift(saved) = {}
    IN At(c, "answer") /\ job[c].alone /\ kind \in {"mount", "remount", "unit", "passthrough"} =>
         /\ Mounted
         /\ kind # "mount" => unit = pool_unit(saved)
         /\ kind \in {"remount", "passthrough"} => settled
         /\ kind = "passthrough" => "pool_passthrough_available" \notin Findings

(* Once users stop editing and commands work, clicking on what the page    *)
(* offers leaves nothing to click on, whatever failed or was cut off       *)
(* before; unless the saved options are ones mergerfs does not run as they *)
(* are written, or not at all.                                             *)
SettlesDown ==
  calm ~> (Compatible(merged_options(saved)) /\ Accepts(merged_options(saved), recent) => Findings = {})
=============================================================================
