----------------------------- MODULE SambaAdmin -----------------------------
(***************************************************************************)
(* The Samba endpoints on a running host: shares, users, groups, settings. *)
(* A request takes state_store.lock, checks the state, runs its account    *)
(* commands, and commits: testparm on a copy, replace the generated file,  *)
(* make smb.conf include it, reload smbd, save state.json.  Each of these  *)
(* is an action; commands may fail, the disk may be full, and the service  *)
(* or the host may stop in the middle of any of them.                      *)
(*                                                                         *)
(* The account database, smb.conf's other lines and smbd are outside the   *)
(* source and modelled as accounts.py and service.py use them.             *)
(***************************************************************************)
EXTENDS SmbConf, Naturals

CONSTANTS
  ShareForms,       \* what a user may send as a share
  AccessForms,      \* and as the access of one account: levels by share name
  Folded,           \* the lower case of every share name
  DefaultSettings,
  NoSettings,       \* for a generated file that is not there
  Refused,          \* settings that testparm refuses
  Existing,         \* accounts that are on the host before the GUI is,
  FirstMasters,     \*   and what smb.conf may be then
  Clients,          \* worker threads
  NoClient,         \* holds the lock when nobody does
  Environment,      \* what may go wrong: see TroubleKinds
  MaxBreaks         \* how often a write or a request may be cut short

TroubleKinds == {"command",  \* an account command fails
                 "testparm", \* testparm is missing, times out, or refuses smb.conf itself
                 "reload",   \* smbd cannot be reloaded
                 "nospace",  \* a file cannot be written
                 "restart",  \* the service is restarted
                 "crash"}    \* the host is

ShareNames == {s.name : s \in ShareForms}
Places     == {s.path : s \in ShareForms}

Share == [name : ShareNames, path : Places, security : Security, exported : BOOLEAN,
          access : Matrix]

ASSUME AdminAssumption ==
  /\ DefaultSettings \in Settings \ Refused
  /\ NoSettings \notin Settings \cup Refused
  /\ ShareForms \subseteq Share
  /\ \A asked \in AccessForms : /\ DOMAIN asked \subseteq ShareNames
                               /\ \A n \in DOMAIN asked : asked[n] \in Levels
  /\ Existing \subseteq Accounts
  /\ FirstMasters \subseteq {"absent", "own", "stray"}
  /\ NoClient \notin Clients
  /\ Environment \subseteq TroubleKinds
  /\ MaxBreaks \in Nat

VARIABLES
  saved,     \* state.json
  conf,      \* proxmox-nas-gui.conf
  master,    \* smb.conf: see MasterKinds
  backup,    \* smb.conf.pnas-backup, "none" when there is none
  served,    \* the configuration smbd works with
  sysUsers,  \* passwd
  sysGroups, \* group,
  members,   \*   and its members
  passdb,    \* Samba's own accounts
  opened,    \* directories handed to nobody, mode 0777
  lock,      \* state_store.lock
  job,       \* the request each worker thread serves
  breaks     \* how often something was cut short so far

accounts == <<sysUsers, sysGroups, members, passdb, opened>>
smbFiles == <<conf, master, backup>>
vars == <<saved, smbFiles, served, accounts, lock, job, breaks>>

MasterKinds == {"absent",
                "own",    \* what the administrator wrote,
                "stray",  \*   with the include line of an older version at its end,
                "ours",   \*   with the include line in [global]
                "bare",   \* nothing but that line in [global]
                "cut"}    \* opened for writing, and empty

NoConf == [global |-> NoSettings, sections |-> {}]

\* What smbd reads when it starts or reloads.
Loaded(file, generated) == IF file \in {"stray", "ours", "bare"} THEN generated ELSE NoConf

Idle == [at |-> "idle", on |-> "-", members |-> {}, known |-> TRUE,
         draft |-> Fresh(DefaultSettings)]

Quiet == \A c \in Clients : job[c] = Idle

Named(st, n) == {s \in st.shares : s.name = n}

Steps == {"useradd", "password", "smbdel", "userdel", "groupadd", "members", "groupdel", "perms",
          "validate", "install", "include", "reload", "save"}

State == [users : SUBSET Users, groups : SUBSET Groups, shares : SUBSET Share,
          settings : Settings]

Job == [at : Steps \cup {"idle"}, on : Accounts \cup ShareNames \cup Places \cup {"-"},
        members : SUBSET Users, known : BOOLEAN, draft : State]

OneEach(st) == \A s, t \in st.shares : s.name = t.name => s = t

TypeOK ==
  /\ saved \in State /\ OneEach(saved)
  /\ master \in MasterKinds
  /\ backup \in {"none", "own", "stray", "cut"}
  /\ sysUsers \subseteq Users /\ passdb \subseteq Users
  /\ sysGroups \subseteq Groups
  /\ members \in [Groups -> SUBSET Users] /\ \A g \in Groups : members[g] \subseteq sysUsers
  /\ opened \subseteq Places
  /\ lock \in Clients \cup {NoClient}
  /\ job \in [Clients -> Job] /\ \A c \in Clients : OneEach(job[c].draft)
  /\ breaks \in 0..MaxBreaks

Init ==
  /\ saved = Fresh(DefaultSettings)
  /\ conf = NoConf /\ served = NoConf
  /\ master \in FirstMasters /\ backup = "none"
  /\ sysUsers = Existing \cap Users /\ sysGroups = Existing \cap Groups
  /\ members = [g \in Groups |-> {}]
  /\ passdb = {} /\ opened = {}
  /\ lock = NoClient
  /\ job = [c \in Clients |-> Idle]
  /\ breaks = 0

-----------------------------------------------------------------------------
(* Requests: the guards, the first step, and the state to be saved.        *)

\* Fault: the lock is not taken.
LocksNot(c) == lock = NoClient /\ UNCHANGED lock

Locks(c) == lock = NoClient /\ lock' = c

\* A step that works on an account or on a directory; members and known are
\* for the requests about groups and about access.
Accept(c, at, on, group, known, draft) ==
  /\ job[c] = Idle
  /\ Locks(c)
  /\ job' = [job EXCEPT ![c] = [at |-> at, on |-> on, members |-> group, known |-> known,
                                draft |-> draft]]
  /\ UNCHANGED <<saved, smbFiles, served, accounts, breaks>>

Ask(c, at, on, draft) == Accept(c, at, on, {}, TRUE, draft)

\* _apply_access, for an account and the levels asked.
Granting(st, account, asked) ==
  [st EXCEPT !.shares =
     {[s EXCEPT !.access[account] = IF s.name \in DOMAIN asked THEN asked[s.name] ELSE @]
        : s \in st.shares}]

KnownShares(asked) == \A n \in DOMAIN asked : Named(saved, n) # {}

Without(st, account) ==
  [st EXCEPT !.users = @ \ {account}, !.groups = @ \ {account},
             !.shares = {[s EXCEPT !.access[account] = "no"] : s \in @}]

CreateShare(c, s) ==
  /\ \A known \in saved.shares : Folded[known.name] # Folded[s.name]
  /\ Ask(c, "perms", s.path, [saved EXCEPT !.shares = @ \cup {s}])

\* Fault: what was there under the name stays.
ReplacedBeside(s) == [saved EXCEPT !.shares = @ \cup {s}]

Replaced(s) == [saved EXCEPT !.shares = (@ \ Named(saved, s.name)) \cup {s}]

UpdateShare(c, s) ==
  /\ Named(saved, s.name) # {}
  /\ Ask(c, "perms", s.path, Replaced(s))

DeleteShare(c, n) ==
  /\ Named(saved, n) # {}
  /\ Ask(c, "validate", n, [saved EXCEPT !.shares = @ \ Named(saved, n)])

\* Fault: whether the host has the account already is not looked up.
IsNewUnchecked(name, managed, system) == name \notin managed

IsNew(name, managed, system) == name \notin managed /\ name \notin system

CreateUser(c, u) ==
  /\ IsNew(u, saved.users, sysUsers)
  /\ Ask(c, "useradd", u, [saved EXCEPT !.users = @ \cup {u}])

\* A share that is not there ends the request with 404, but only after the
\* password was set.
UpdateUser(c, u, password, asked) ==
  /\ u \in saved.users
  /\ password \/ KnownShares(asked)
  /\ Accept(c, IF password THEN "password" ELSE "validate", u, {}, KnownShares(asked),
            Granting(saved, u, asked))

\* Fault: the grants of the account stay.
RemovedKeepsGrants(st, account) == [st EXCEPT !.users = @ \ {account}, !.groups = @ \ {account}]

Removed(st, account) == Without(st, account)

DeleteUser(c, u) ==
  /\ u \in saved.users
  /\ Ask(c, "smbdel", u, Removed(saved, u))

\* Fault: they are not compared with the users of the state.
CheckMembersNot(group) == TRUE

CheckMembers(group) == group \subseteq saved.users

CreateGroup(c, g, group) ==
  /\ IsNew(g, saved.groups, sysGroups)
  /\ CheckMembers(group)
  /\ Accept(c, "groupadd", g, group, TRUE, [saved EXCEPT !.groups = @ \cup {g}])

\* As with a password, an unknown share is found after the members are set.
UpdateGroup(c, g, regroup, group, asked) ==
  /\ g \in saved.groups
  /\ regroup \/ KnownShares(asked)
  /\ regroup => CheckMembers(group)
  /\ Accept(c, IF regroup THEN "members" ELSE "validate", g, group, KnownShares(asked),
            Granting(saved, g, asked))

DeleteGroup(c, g) ==
  /\ g \in saved.groups
  /\ Ask(c, "groupdel", g, Removed(saved, g))

UpdateSettings(c, settings) ==
  Ask(c, "validate", "-", [saved EXCEPT !.settings = settings])

\* POST /service/restart, which takes no lock.
RestartSamba ==
  /\ served' = Loaded(master, conf)
  /\ UNCHANGED <<saved, smbFiles, accounts, lock, job, breaks>>

Request(c) ==
  \/ \E s \in ShareForms : CreateShare(c, s) \/ UpdateShare(c, s)
  \/ \E n \in ShareNames : DeleteShare(c, n)
  \/ \E u \in Users : CreateUser(c, u) \/ DeleteUser(c, u)
  \/ \E u \in Users, password \in BOOLEAN, asked \in AccessForms : UpdateUser(c, u, password, asked)
  \/ \E g \in Groups, group \in SUBSET Users : CreateGroup(c, g, group)
  \/ \E g \in Groups, regroup \in BOOLEAN, group \in SUBSET Users, asked \in AccessForms :
        UpdateGroup(c, g, regroup, group, asked)
  \/ \E g \in Groups : DeleteGroup(c, g)
  \/ \E settings \in Settings : UpdateSettings(c, settings)

-----------------------------------------------------------------------------
(* The account commands *)

At(c, step) == job[c].at = step

Goes(c, step) == job' = [job EXCEPT ![c].at = step] /\ UNCHANGED <<lock, breaks>>

\* The answer is sent, and the lock given back.
End(c) ==
  /\ job' = [job EXCEPT ![c] = Idle]
  /\ lock' = IF lock = c THEN NoClient ELSE lock

\* The rest of the handler, unless a share it names is not there.
Continues(c) == IF job[c].known THEN Goes(c, "validate") ELSE End(c) /\ UNCHANGED breaks

\* Every command ends the request when it fails, but smbpasswd -x; userdel and
\* groupdel are run for an account that is there.
CommandFails(c) ==
  /\ "command" \in Environment
  /\ \/ job[c].at \in {"useradd", "password", "groupadd", "members", "perms"}
     \/ At(c, "userdel") /\ job[c].on \in sysUsers
     \/ At(c, "groupdel") /\ job[c].on \in sysGroups
  /\ End(c)
  /\ UNCHANGED <<saved, smbFiles, served, accounts, breaks>>

UserAdd(c) ==
  /\ At(c, "useradd") /\ sysUsers' = sysUsers \cup {job[c].on}
  /\ Goes(c, "password")
  /\ UNCHANGED <<saved, smbFiles, served, sysGroups, members, passdb, opened>>

\* smbpasswd -a, which needs the system account, then smbpasswd -e.
SetPassword(c) ==
  /\ At(c, "password") /\ job[c].on \in sysUsers
  /\ passdb' = passdb \cup {job[c].on}
  /\ \/ Continues(c)
     \/ "command" \in Environment /\ End(c) /\ UNCHANGED breaks
  /\ UNCHANGED <<saved, smbFiles, served, sysUsers, sysGroups, members, opened>>

\* There is no account to set it for.
NoPassword(c) ==
  /\ At(c, "password") /\ job[c].on \notin sysUsers
  /\ End(c)
  /\ UNCHANGED <<saved, smbFiles, served, accounts, breaks>>

\* A failure of smbpasswd -x is passed over.
SmbDel(c) ==
  /\ At(c, "smbdel")
  /\ \/ passdb' = passdb \ {job[c].on}
     \/ "command" \in Environment /\ UNCHANGED passdb
  /\ Goes(c, "userdel")
  /\ UNCHANGED <<saved, smbFiles, served, sysUsers, sysGroups, members, opened>>

\* userdel takes the user out of every group; with no such user it is not run.
UserDel(c) ==
  /\ At(c, "userdel")
  /\ sysUsers' = sysUsers \ {job[c].on}
  /\ members' = [g \in Groups |-> members[g] \ {job[c].on}]
  /\ Goes(c, "validate")
  /\ UNCHANGED <<saved, smbFiles, served, sysGroups, passdb, opened>>

GroupAdd(c) ==
  /\ At(c, "groupadd") /\ sysGroups' = sysGroups \cup {job[c].on}
  /\ Goes(c, "members")
  /\ UNCHANGED <<saved, smbFiles, served, sysUsers, members, passdb, opened>>

\* gpasswd -M, which knows the system's users and groups only.
CanSetMembers(c) == job[c].members \subseteq sysUsers /\ job[c].on \in sysGroups

SetMembers(c) ==
  /\ At(c, "members") /\ CanSetMembers(c)
  /\ members' = [members EXCEPT ![job[c].on] = job[c].members]
  /\ Continues(c)
  /\ UNCHANGED <<saved, smbFiles, served, sysUsers, sysGroups, passdb, opened>>

NoMembers(c) ==
  /\ At(c, "members") /\ ~CanSetMembers(c)
  /\ End(c)
  /\ UNCHANGED <<saved, smbFiles, served, accounts, breaks>>

GroupDel(c) ==
  /\ At(c, "groupdel")
  /\ sysGroups' = sysGroups \ {job[c].on}
  /\ members' = [members EXCEPT ![job[c].on] = {}]
  /\ Goes(c, "validate")
  /\ UNCHANGED <<saved, smbFiles, served, sysUsers, passdb, opened>>

\* apply_share_perms.
OpenDirectory(c) ==
  /\ At(c, "perms") /\ opened' = opened \cup {job[c].on}
  /\ Goes(c, "validate")
  /\ UNCHANGED <<saved, smbFiles, served, sysUsers, sysGroups, members, passdb>>

-----------------------------------------------------------------------------
(* The commit *)

\* Fault: what testparm says is not looked at.
PassesAlways(draft) == TRUE

Passes(draft) == draft.settings \notin Refused

Validate(c) ==
  /\ At(c, "validate") /\ Passes(job[c].draft)
  /\ Goes(c, "install")
  /\ UNCHANGED <<saved, smbFiles, served, accounts>>

Refusal(c) == At(c, "validate") /\ (~Passes(job[c].draft) \/ "testparm" \in Environment)

\* Fault: the state is saved first.
RefuseSaved(c) ==
  /\ Refusal(c) /\ saved' = job[c].draft
  /\ End(c)
  /\ UNCHANGED <<smbFiles, served, accounts, breaks>>

Refuse(c) ==
  /\ Refusal(c)
  /\ End(c)
  /\ UNCHANGED <<saved, smbFiles, served, accounts, breaks>>

\* os.replace.
Install(c) ==
  /\ At(c, "install") /\ conf' = Generate(job[c].draft)
  /\ Goes(c, "include")
  /\ UNCHANGED <<saved, master, backup, served, accounts>>

\* ensure_include: smb.conf with the line in place is left alone.
Included == master \in {"ours", "bare"}

\* Fault: the original is not kept.
WantsBackupNever == FALSE

WantsBackup == ~Included /\ master # "absent" /\ backup = "none"

IncludeStays(c) ==
  /\ At(c, "include") /\ Included
  /\ Goes(c, "reload")
  /\ UNCHANGED <<saved, smbFiles, served, accounts>>

KeepOriginal(c) ==
  /\ At(c, "include") /\ WantsBackup
  /\ backup' = master
  /\ UNCHANGED <<saved, conf, master, served, accounts, lock, job, breaks>>

AddInclude(c) ==
  /\ At(c, "include") /\ ~Included /\ ~WantsBackup
  /\ master' = IF master \in {"own", "stray"} THEN "ours" ELSE "bare"
  /\ Goes(c, "reload")
  /\ UNCHANGED <<saved, conf, backup, served, accounts>>

\* reload_samba: when both commands fail the answer carries a warning.
Reload(c) ==
  /\ At(c, "reload")
  /\ \/ served' = Loaded(master, conf)
     \/ "reload" \in Environment /\ UNCHANGED served
  /\ Goes(c, "save")
  /\ UNCHANGED <<saved, smbFiles, accounts>>

SaveState(c) ==
  /\ At(c, "save") /\ saved' = job[c].draft
  /\ End(c)
  /\ UNCHANGED <<smbFiles, served, accounts, breaks>>

Work(c) ==
  \/ CommandFails(c)
  \/ UserAdd(c) \/ SetPassword(c) \/ NoPassword(c) \/ SmbDel(c) \/ UserDel(c)
  \/ GroupAdd(c) \/ SetMembers(c) \/ NoMembers(c) \/ GroupDel(c) \/ OpenDirectory(c)
  \/ Validate(c) \/ Refuse(c) \/ Install(c)
  \/ IncludeStays(c) \/ KeepOriginal(c) \/ AddInclude(c) \/ Reload(c) \/ SaveState(c)

-----------------------------------------------------------------------------
(* What may cut a request short *)

Breaks(kind) == kind \in Environment /\ breaks < MaxBreaks /\ breaks' = breaks + 1

\* smb.conf and its backup are written in place; the other files are replaced.
Torn(c) ==
  \/ UNCHANGED <<master, backup>>
  \/ /\ At(c, "include") /\ WantsBackup
     /\ backup' = "cut" /\ UNCHANGED master
  \/ /\ At(c, "include") /\ ~Included /\ ~WantsBackup
     /\ master' = "cut" /\ UNCHANGED backup

NoSpace(c) ==
  /\ Breaks("nospace")
  /\ job[c].at \in {"validate", "install", "include", "save"}
  /\ Torn(c) /\ End(c)
  /\ UNCHANGED <<saved, conf, served, accounts>>

Stops == job' = [c \in Clients |-> Idle] /\ lock' = NoClient

RestartService ==
  /\ Breaks("restart") /\ Stops
  /\ \E c \in Clients : Torn(c)
  /\ UNCHANGED <<saved, conf, served, accounts>>

\* smbd comes up with the files as they are.
CrashHost ==
  /\ Breaks("crash") /\ Stops
  /\ \E c \in Clients : Torn(c)
  /\ served' = Loaded(master', conf)
  /\ UNCHANGED <<saved, conf, accounts>>

Next ==
  \/ \E c \in Clients : Request(c) \/ Work(c) \/ NoSpace(c)
  \/ RestartSamba \/ RestartService \/ CrashHost

Spec == Init /\ [][Next]_vars

-----------------------------------------------------------------------------
(* Properties *)

\* The generated file is what state.json says, or nothing was ever applied,
\* whenever no request is under way and none was cut short: every error
\* before the file is replaced leaves both as they were.
\* commit (samba/api/common.py), README "How it works".
ConfIsState ==
  Quiet /\ breaks = 0 =>
    conf = Generate(saved) \/ (conf = NoConf /\ saved = Fresh(DefaultSettings))

\* Neither the generated file, nor smbd, nor state.json (which the next
\* request starts from) ever holds what testparm refuses, whatever is cut
\* short and whenever smbd is restarted.  validate (samba/service.py).
NeverServesRefused ==
  conf.global \notin Refused /\ served.global \notin Refused /\ saved.settings \notin Refused

\* The members of a group the GUI manages are users it manages, even when
\* the group or the user is half-made or half-deleted.  _check_members.
MembersManaged == \A g \in saved.groups : members[g] \subseteq saved.users

\* No sequence of requests takes over an account that was on the host before:
\* it is never deleted, and never gets a Samba password.
\* create_user (samba/api/users.py), create_group (samba/api/groups.py).
KeepsExisting == Existing \subseteq (sysUsers \cup sysGroups) \ passdb

\* A name leaves the users of state.json only with its system account and
\* every grant in state.json and in the generated file.
\* delete_user (samba/api/users.py), README "full cleanup on deletion".
DeletedMeansRevoked ==
  [][\A u \in saved.users \ saved'.users :
       /\ u \notin sysUsers'
       /\ \A s \in saved'.shares : s.access[u] = "no"
       /\ \A sec \in conf'.sections : u \notin sec.valid \cup sec.writers]_vars

EntriesOf(st) == st.users \cup st.groups \cup {s.name : s \in st.shares}

\* A user, a group or a share leaves state.json only by a request to delete
\* it: no request saves over what another one saved.  state_store.lock.
NothingLost ==
  [][\A c \in Clients : At(c, "save") /\ ~At(c, "save")' =>
       EntriesOf(saved) \ EntriesOf(saved)' \subseteq {job[c].on}]_vars

\* Between them the sections of the generated file and the modes of the
\* directories let every user read and write exactly where the access matrix
\* and the security of the share say, whoever was granted, regrouped or
\* deleted before and whichever request brought the directory in: in
\* particular a private share does not open when its last grant goes.
\* generate (samba/sambaconf.py), apply_share_perms (core/fsops.py), README
\* "Security modes" and "How it works".
MatrixIsServed ==
  Quiet /\ breaks = 0 =>
    \A s \in saved.shares, u \in Users : \E sec \in conf.sections :
      /\ sec.name = s.name /\ sec.path \in opened
      /\ MayRead(sec, u, members) <=> Readable(s, u, members)
      /\ MayWrite(sec, u, members) <=> Writable(s, u, members)

\* The administrator's own lines.
OriginalThere == master \in {"own", "stray", "ours"} \/ backup \in {"own", "stray"}

\* One write cut short never loses the administrator's smb.conf: it is in
\* the file or in its backup.  ensure_include (samba/service.py).
OriginalKept == [][OriginalThere /\ breaks' <= 1 => OriginalThere']_vars
=============================================================================
