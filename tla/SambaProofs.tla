---------------------------- MODULE SambaProofs ----------------------------
(***************************************************************************)
(* What holds of the Samba endpoints for any accounts, shares, settings    *)
(* and worker threads, whatever fails and however often anything is cut    *)
(* short.                                                                  *)
(***************************************************************************)
EXTENDS SambaAdmin, TLAPS

-----------------------------------------------------------------------------
(* Type correctness                                                        *)

\* A state that may be saved.
StateOK(st) == st \in State /\ OneEach(st)

LEMMA FreshOK == StateOK(Fresh(DefaultSettings))
  BY AdminAssumption DEF StateOK, State, OneEach, Fresh

LEMMA GrantingOK ==
  ASSUME NEW st, StateOK(st), NEW account \in Accounts, NEW asked \in AccessForms
  PROVE  StateOK(Granting(st, account, asked))
  <1> DEFINE level(s) == IF s.name \in DOMAIN asked THEN asked[s.name] ELSE s.access[account]
             changed(s) == [s EXCEPT !.access[account] = level(s)]
  <1>1. ASSUME NEW s \in Share
        PROVE  changed(s) \in Share /\ changed(s).name = s.name
    <2>1. s.access \in Matrix /\ level(s) \in Levels
      BY AdminAssumption DEF Share, Matrix
    <2>2. [s.access EXCEPT ![account] = level(s)] \in Matrix
      BY <2>1 DEF Matrix
    <2>3. changed(s) = [s EXCEPT !.access = [s.access EXCEPT ![account] = level(s)]]
      BY DEF Share
    <2> HIDE DEF level
    <2> QED BY <2>2, <2>3 DEF Share
  <1>2. Granting(st, account, asked) = [st EXCEPT !.shares = {changed(s) : s \in st.shares}]
    BY DEF Granting, StateOK, State
  <1> HIDE DEF changed
  <1>3. {changed(s) : s \in st.shares} \subseteq Share
    BY <1>1 DEF StateOK, State
  <1>4. Granting(st, account, asked) \in State
    BY <1>2, <1>3 DEF StateOK, State
  <1>5. Granting(st, account, asked).shares = {changed(s) : s \in st.shares}
    BY <1>2 DEF StateOK, State
  <1>6. OneEach(Granting(st, account, asked))
    BY <1>1, <1>5 DEF OneEach, StateOK, State
  <1> QED BY <1>4, <1>6 DEF StateOK

LEMMA RemovedOK ==
  ASSUME NEW st, StateOK(st), NEW account \in Accounts
  PROVE  StateOK(Removed(st, account))
  <1> DEFINE changed(s) == [s EXCEPT !.access[account] = "no"]
  <1>1. ASSUME NEW s \in Share
        PROVE  changed(s) \in Share /\ changed(s).name = s.name
    <2>1. [s.access EXCEPT ![account] = "no"] \in Matrix
      BY DEF Share, Matrix, Levels
    <2>2. changed(s) = [s EXCEPT !.access = [s.access EXCEPT ![account] = "no"]]
      BY DEF Share
    <2> QED BY <2>1, <2>2 DEF Share
  <1>2. Removed(st, account) = [users |-> st.users \ {account}, groups |-> st.groups \ {account},
                                shares |-> {changed(s) : s \in st.shares},
                                settings |-> st.settings]
    <2>1. Removed(st, account) = [st EXCEPT !.users = st.users \ {account},
                                            !.groups = st.groups \ {account},
                                            !.shares = {changed(s) : s \in st.shares}]
      BY Zenon DEF Removed, Without, StateOK, State
    <2> HIDE DEF changed
    <2> QED BY <2>1 DEF StateOK, State
  <1> HIDE DEF changed
  <1>3. {changed(s) : s \in st.shares} \subseteq Share
    BY <1>1 DEF StateOK, State
  <1>4. Removed(st, account) \in State
    BY <1>2, <1>3 DEF StateOK, State
  <1>5. OneEach(Removed(st, account))
    BY <1>1, <1>2 DEF OneEach, StateOK, State
  <1> QED BY <1>4, <1>5 DEF StateOK

LEMMA SharesOK ==
  ASSUME StateOK(saved), NEW s \in ShareForms
  PROVE  /\ (\A k \in saved.shares : Folded[k.name] # Folded[s.name])
              => StateOK([saved EXCEPT !.shares = @ \cup {s}])
         /\ StateOK(Replaced(s))
         /\ StateOK([saved EXCEPT !.shares = @ \ Named(saved, s.name)])
  <1>1. s \in Share
    BY AdminAssumption
  <1> QED BY <1>1 DEF StateOK, State, OneEach, Replaced, Named

LEMMA InitTypeOK == Init => TypeOK
  <1> SUFFICES ASSUME Init PROVE TypeOK
    OBVIOUS
  <1> USE AdminAssumption DEF Init
  <1>1. StateOK(saved)
    BY FreshOK
  <1>2. Idle \in Job /\ OneEach(Idle.draft)
    BY FreshOK DEF Idle, Job, StateOK
  <1>3. master \in MasterKinds /\ breaks \in 0..MaxBreaks
    BY DEF MasterKinds
  <1> QED BY <1>1, <1>2, <1>3 DEF TypeOK, StateOK

\* A step works on something of its own kind.
Fits(at, on) ==
  /\ at \in {"useradd", "password", "smbdel", "userdel"} => on \in Users
  /\ at \in {"groupadd", "members", "groupdel"} => on \in Groups
  /\ at = "perms" => on \in Places

\* With it the types are inductive.
TypeInv == TypeOK /\ \A c \in Clients : Fits(job[c].at, job[c].on)

(* The part of TypeInv that is about the worker threads.                   *)
JobsOK ==
  /\ lock \in Clients \cup {NoClient}
  /\ job \in [Clients -> Job]
  /\ \A c \in Clients : OneEach(job[c].draft) /\ Fits(job[c].at, job[c].on)

LEMMA IdleOK == Idle \in Job /\ StateOK(Idle.draft) /\ Fits(Idle.at, Idle.on)
  BY FreshOK DEF Idle, Job, StateOK, Fits

LEMMA InitTypeInv == Init => TypeInv
  BY InitTypeOK, IdleOK DEF Init, TypeInv

LEMMA AcceptOK ==
  ASSUME TypeInv, NEW c \in Clients, NEW at \in Steps,
         NEW on \in Accounts \cup ShareNames \cup Places \cup {"-"}, Fits(at, on),
         NEW group \in SUBSET Users, NEW known \in BOOLEAN, NEW draft, StateOK(draft),
         Accept(c, at, on, group, known, draft)
  PROVE  TypeInv'
  <1> DEFINE new == [at |-> at, on |-> on, members |-> group, known |-> known, draft |-> draft]
  <1>1. new \in Job /\ new.draft = draft /\ new.at = at /\ new.on = on
    BY DEF Job, StateOK
  <1>2. job' = [job EXCEPT ![c] = new] /\ lock' = c
    BY DEF Accept, Locks
  <1> HIDE DEF new
  <1>3. JobsOK'
    BY <1>1, <1>2 DEF TypeInv, TypeOK, JobsOK, StateOK
  <1> QED BY <1>3 DEF TypeInv, TypeOK, JobsOK, Accept, smbFiles, accounts

LEMMA RequestTypeOK ==
  ASSUME TypeInv, NEW c \in Clients, Request(c)
  PROVE  TypeInv'
  <1>0. StateOK(saved)
    BY DEF TypeInv, TypeOK, StateOK
  <1> USE DEF Accounts, Steps, Fits
  <1>1. ASSUME NEW s \in ShareForms, CreateShare(c, s) \/ UpdateShare(c, s) PROVE TypeInv'
    <2>1. s.path \in Places
      BY DEF Places
    <2> QED BY <1>0, <1>1, <2>1, SharesOK, AcceptOK DEF CreateShare, UpdateShare, Ask
  <1>2. ASSUME NEW n \in ShareNames, DeleteShare(c, n) PROVE TypeInv'
    BY <1>0, <1>2, SharesOK, AcceptOK DEF DeleteShare, Ask, ShareNames
  <1>3. ASSUME NEW u \in Users, CreateUser(c, u) PROVE TypeInv'
    <2>1. StateOK([saved EXCEPT !.users = @ \cup {u}])
      BY <1>0 DEF StateOK, State, OneEach
    <2> QED BY <1>3, <2>1, AcceptOK DEF CreateUser, Ask
  <1>4. ASSUME NEW u \in Users, DeleteUser(c, u) PROVE TypeInv'
    BY <1>0, <1>4, RemovedOK, AcceptOK DEF DeleteUser, Ask
  <1>5. ASSUME NEW u \in Users, NEW password \in BOOLEAN, NEW asked \in AccessForms,
               UpdateUser(c, u, password, asked)
        PROVE  TypeInv'
    BY <1>0, <1>5, GrantingOK, AcceptOK DEF UpdateUser, KnownShares
  <1>6. ASSUME NEW g \in Groups, NEW group \in SUBSET Users, CreateGroup(c, g, group)
        PROVE  TypeInv'
    <2>1. StateOK([saved EXCEPT !.groups = @ \cup {g}])
      BY <1>0 DEF StateOK, State, OneEach
    <2> QED BY <1>6, <2>1, AcceptOK DEF CreateGroup
  <1>7. ASSUME NEW g \in Groups, NEW regroup \in BOOLEAN, NEW group \in SUBSET Users,
               NEW asked \in AccessForms, UpdateGroup(c, g, regroup, group, asked)
        PROVE  TypeInv'
    BY <1>0, <1>7, GrantingOK, AcceptOK DEF UpdateGroup, KnownShares
  <1>8. ASSUME NEW g \in Groups, DeleteGroup(c, g) PROVE TypeInv'
    BY <1>0, <1>8, RemovedOK, AcceptOK DEF DeleteGroup, Ask
  <1>9. ASSUME NEW settings \in Settings, UpdateSettings(c, settings) PROVE TypeInv'
    <2>1. StateOK([saved EXCEPT !.settings = settings])
      BY <1>0 DEF StateOK, State, OneEach
    <2> QED BY <1>9, <2>1, AcceptOK DEF UpdateSettings, Ask
  <1> QED BY <1>1, <1>2, <1>3, <1>4, <1>5, <1>6, <1>7, <1>8, <1>9 DEF Request

LEMMA GoesOK ==
  ASSUME TypeInv, NEW c \in Clients, NEW step \in Steps, Goes(c, step), Fits(step, job[c].on)
  PROVE  JobsOK' /\ breaks' = breaks
  <1> DEFINE new == [job[c] EXCEPT !.at = step]
  <1>1. /\ new \in Job /\ new.draft = job[c].draft
        /\ new.at = step /\ new.on = job[c].on
    BY DEF TypeInv, TypeOK, Job
  <1>2. job' = [job EXCEPT ![c] = new]
    BY DEF Goes
  <1> HIDE DEF new
  <1> QED BY <1>1, <1>2 DEF Goes, TypeInv, TypeOK, JobsOK

LEMMA EndOK ==
  ASSUME TypeInv, NEW c \in Clients, End(c)
  PROVE  JobsOK'
  BY IdleOK DEF End, TypeInv, TypeOK, JobsOK, StateOK

LEMMA StopsOK ==
  ASSUME TypeInv, Stops
  PROVE  JobsOK'
  BY IdleOK DEF Stops, TypeInv, TypeOK, JobsOK, StateOK

LEMMA ContinuesOK ==
  ASSUME TypeInv, NEW c \in Clients, Continues(c)
  PROVE  JobsOK' /\ breaks' = breaks
  BY GoesOK, EndOK DEF Continues, Steps, Fits

LEMMA WorkTypeOK ==
  ASSUME TypeInv, NEW c \in Clients, Work(c)
  PROVE  TypeInv'
  <1>0. /\ job[c] \in Job /\ Fits(job[c].at, job[c].on) /\ StateOK(job[c].draft)
    BY DEF TypeInv, TypeOK, Job, StateOK
  <1> USE DEF At, Steps, Fits, smbFiles, accounts
  <1>1. CASE CommandFails(c) \/ NoPassword(c) \/ NoMembers(c) \/ Refuse(c)
    BY <1>1, EndOK DEF CommandFails, NoPassword, NoMembers, Refuse, TypeInv, TypeOK, JobsOK
  <1>2. CASE UserAdd(c)
    BY <1>0, <1>2, GoesOK DEF UserAdd, TypeInv, TypeOK, JobsOK
  <1>3. CASE SetPassword(c)
    BY <1>0, <1>3, ContinuesOK, EndOK DEF SetPassword, TypeInv, TypeOK, JobsOK
  <1>4. CASE SmbDel(c)
    BY <1>0, <1>4, GoesOK DEF SmbDel, TypeInv, TypeOK, JobsOK
  <1>5. CASE UserDel(c)
    BY <1>0, <1>5, GoesOK DEF UserDel, TypeInv, TypeOK, JobsOK
  <1>6. CASE GroupAdd(c)
    BY <1>0, <1>6, GoesOK DEF GroupAdd, TypeInv, TypeOK, JobsOK
  <1>7. CASE SetMembers(c)
    BY <1>0, <1>7, ContinuesOK DEF SetMembers, CanSetMembers, Job, TypeInv, TypeOK, JobsOK
  <1>8. CASE GroupDel(c)
    BY <1>0, <1>8, GoesOK DEF GroupDel, TypeInv, TypeOK, JobsOK
  <1>9. CASE OpenDirectory(c)
    BY <1>0, <1>9, GoesOK DEF OpenDirectory, TypeInv, TypeOK, JobsOK
  <1>10. CASE Validate(c) \/ Install(c) \/ IncludeStays(c) \/ Reload(c)
    BY <1>10, GoesOK DEF Validate, Install, IncludeStays, Reload, TypeInv, TypeOK, JobsOK
  <1>11. CASE KeepOriginal(c)
    BY <1>11 DEF KeepOriginal, WantsBackup, Included, MasterKinds, TypeInv, TypeOK
  <1>12. CASE AddInclude(c)
    BY <1>12, GoesOK DEF AddInclude, MasterKinds, TypeInv, TypeOK, JobsOK
  <1>13. CASE SaveState(c)
    BY <1>0, <1>13, EndOK DEF SaveState, StateOK, TypeInv, TypeOK, JobsOK
  <1> QED BY <1>1, <1>2, <1>3, <1>4, <1>5, <1>6, <1>7, <1>8, <1>9, <1>10, <1>11, <1>12, <1>13
          DEF Work

LEMMA BreakTypeOK ==
  ASSUME TypeInv,
         \/ \E c \in Clients : NoSpace(c)
         \/ RestartService \/ CrashHost \/ RestartSamba
  PROVE  TypeInv'
  <1> USE DEF smbFiles, accounts
  <1>1. ASSUME NEW c \in Clients, Torn(c)
        PROVE  master' \in MasterKinds /\ backup' \in {"none", "own", "stray", "cut"}
    BY <1>1 DEF Torn, MasterKinds, TypeInv, TypeOK
  <1>2. ASSUME NEW kind, Breaks(kind) PROVE breaks' \in 0..MaxBreaks
    BY <1>2, AdminAssumption DEF Breaks, TypeInv, TypeOK
  <1>3. CASE \E c \in Clients : NoSpace(c)
    BY <1>1, <1>2, <1>3, EndOK DEF NoSpace, TypeInv, TypeOK, JobsOK
  <1>4. CASE RestartService \/ CrashHost
    BY <1>1, <1>2, <1>4, StopsOK DEF RestartService, CrashHost, TypeInv, TypeOK, JobsOK
  <1>5. CASE RestartSamba
    BY <1>5 DEF RestartSamba, TypeInv, TypeOK
  <1> QED BY <1>3, <1>4, <1>5

LEMMA NextTypeInv == TypeInv /\ [Next]_vars => TypeInv'
  <1> SUFFICES ASSUME TypeInv, [Next]_vars PROVE TypeInv'
    OBVIOUS
  <1>1. CASE Next
    BY <1>1, RequestTypeOK, WorkTypeOK, BreakTypeOK DEF Next
  <1>2. CASE UNCHANGED vars
    BY <1>2 DEF vars, smbFiles, accounts, TypeInv, TypeOK
  <1> QED BY <1>1, <1>2

(* Every reachable state is well-formed: what is saved and what is about   *)
(* to be saved has one share per name, each with a level for every         *)
(* account, and the groups of the host hold accounts of the host.          *)
THEOREM TypeCorrect == Spec => []TypeOK
  <1>1. TypeInv => TypeOK
    BY DEF TypeInv
  <1> QED BY <1>1, InitTypeInv, NextTypeInv, PTL DEF Spec

-----------------------------------------------------------------------------
(* Nothing that testparm refuses gets anywhere                             *)

\* A request past validate has a draft that testparm accepts.
PassedIn(c) ==
  job[c].at \in {"install", "include", "reload", "save"} => job[c].draft.settings \notin Refused

RefusedInv == TypeInv /\ NeverServesRefused /\ \A c \in Clients : PassedIn(c)

LEMMA RequestKeepsRefused ==
  ASSUME RefusedInv, NEW c \in Clients, Request(c)
  PROVE  NeverServesRefused' /\ \A d \in Clients : PassedIn(d)'
  <1>1. ASSUME NEW at \in Steps, NEW on, NEW group, NEW known, NEW draft,
               Accept(c, at, on, group, known, draft),
               at \notin {"install", "include", "reload", "save"}
        PROVE  NeverServesRefused' /\ \A d \in Clients : PassedIn(d)'
    BY <1>1 DEF Accept, RefusedInv, TypeInv, TypeOK, NeverServesRefused, PassedIn, smbFiles
  <1> QED BY <1>1 DEF Request, CreateShare, UpdateShare, DeleteShare, CreateUser, DeleteUser,
             UpdateUser, CreateGroup, UpdateGroup, DeleteGroup, UpdateSettings, Ask, Steps

LEMMA StepKeepsPassed ==
  ASSUME RefusedInv, NEW c \in Clients,
         \/ \E step \in Steps :
              /\ Goes(c, step)
              /\ step \in {"install", "include", "reload", "save"} =>
                   \/ Passes(job[c].draft)
                   \/ job[c].at \in {"install", "include", "reload", "save"}
         \/ End(c)
         \/ Continues(c)
  PROVE  \A d \in Clients : PassedIn(d)'
  <1>1. ASSUME NEW step \in Steps, Goes(c, step)
        PROVE  job'[c].at = step /\ job'[c].draft = job[c].draft
    BY <1>1 DEF Goes, RefusedInv, TypeInv, TypeOK, Job
  <1>2. ASSUME NEW d \in Clients, d # c PROVE job'[d] = job[d]
    BY <1>2 DEF Goes, End, Continues, RefusedInv, TypeInv, TypeOK
  <1>3. End(c) => job'[c] = Idle
    BY DEF End, RefusedInv, TypeInv, TypeOK
  <1>4. PassedIn(c)'
    BY <1>1, <1>3 DEF Continues, PassedIn, Passes, RefusedInv, Idle, Steps
  <1> QED BY <1>2, <1>4 DEF PassedIn, RefusedInv

LEMMA LoadedPasses ==
  ASSUME NEW file, NEW generated, generated.global \notin Refused
  PROVE  Loaded(file, generated).global \notin Refused
  BY AdminAssumption DEF Loaded, NoConf

LEMMA WorkKeepsRefused ==
  ASSUME RefusedInv, NEW c \in Clients, Work(c)
  PROVE  NeverServesRefused' /\ \A d \in Clients : PassedIn(d)'
  <1> USE DEF At, Steps, smbFiles
  <1>0. PassedIn(c) /\ NeverServesRefused
    BY DEF RefusedInv
  <1>1. CASE CommandFails(c) \/ NoPassword(c) \/ NoMembers(c) \/ Refuse(c)
    BY <1>0, <1>1, StepKeepsPassed DEF CommandFails, NoPassword, NoMembers, Refuse, NeverServesRefused
  <1>2. CASE UserAdd(c) \/ SmbDel(c) \/ UserDel(c) \/ GroupAdd(c) \/ GroupDel(c) \/ OpenDirectory(c)
    BY <1>0, <1>2, StepKeepsPassed
       DEF UserAdd, SmbDel, UserDel, GroupAdd, GroupDel, OpenDirectory, NeverServesRefused
  <1>3. CASE SetPassword(c) \/ SetMembers(c)
    BY <1>0, <1>3, StepKeepsPassed DEF SetPassword, SetMembers, NeverServesRefused
  <1>4. CASE Validate(c)
    BY <1>0, <1>4, StepKeepsPassed DEF Validate, NeverServesRefused
  <1>5. CASE Install(c)
    BY <1>0, <1>5, StepKeepsPassed DEF Install, Generate, PassedIn, NeverServesRefused
  <1>6. CASE IncludeStays(c) \/ AddInclude(c)
    BY <1>0, <1>6, StepKeepsPassed DEF IncludeStays, AddInclude, NeverServesRefused
  <1>7. CASE KeepOriginal(c)
    BY <1>7 DEF KeepOriginal, NeverServesRefused, PassedIn, RefusedInv
  <1>8. CASE Reload(c)
    BY <1>0, <1>8, StepKeepsPassed, LoadedPasses DEF Reload, NeverServesRefused
  <1>9. CASE SaveState(c)
    BY <1>0, <1>9, StepKeepsPassed DEF SaveState, PassedIn, NeverServesRefused
  <1> QED BY <1>1, <1>2, <1>3, <1>4, <1>5, <1>6, <1>7, <1>8, <1>9 DEF Work

LEMMA BreakKeepsRefused ==
  ASSUME RefusedInv,
         \/ \E c \in Clients : NoSpace(c)
         \/ RestartService \/ CrashHost \/ RestartSamba
  PROVE  NeverServesRefused' /\ \A d \in Clients : PassedIn(d)'
  <1>1. Stops => \A d \in Clients : PassedIn(d)'
    BY DEF Stops, PassedIn, Idle
  <1>2. CASE \E c \in Clients : NoSpace(c)
    BY <1>2, StepKeepsPassed DEF NoSpace, NeverServesRefused, RefusedInv
  <1>3. CASE RestartService
    BY <1>1, <1>3 DEF RestartService, NeverServesRefused, RefusedInv
  <1>4. CASE CrashHost
    BY <1>1, <1>4, LoadedPasses DEF CrashHost, NeverServesRefused, RefusedInv
  <1>5. CASE RestartSamba
    BY <1>5, LoadedPasses DEF RestartSamba, smbFiles, NeverServesRefused, RefusedInv, PassedIn
  <1> QED BY <1>2, <1>3, <1>4, <1>5

(* What testparm refuses never reaches the generated file, smbd or         *)
(* state.json, whatever fails, however often a request is cut short or     *)
(* smbd restarted, and whether or not smbd could be reloaded before.       *)
THEOREM NeverServesRefusedHolds == Spec => []NeverServesRefused
  <1>1. Init => RefusedInv
    BY InitTypeInv, AdminAssumption
       DEF Init, RefusedInv, NeverServesRefused, PassedIn, NoConf, Fresh, Idle
  <1>2. RefusedInv /\ [Next]_vars => RefusedInv'
    <2> SUFFICES ASSUME RefusedInv, [Next]_vars PROVE RefusedInv'
      OBVIOUS
    <2>1. TypeInv'
      BY NextTypeInv DEF RefusedInv
    <2>2. CASE Next
      BY <2>1, <2>2, RequestKeepsRefused, WorkKeepsRefused, BreakKeepsRefused DEF Next, RefusedInv
    <2>3. CASE UNCHANGED vars
      BY <2>1, <2>3 DEF vars, smbFiles, RefusedInv, NeverServesRefused, PassedIn
    <2> QED BY <2>2, <2>3
  <1>3. RefusedInv => NeverServesRefused
    BY DEF RefusedInv
  <1> QED BY <1>1, <1>2, <1>3, PTL DEF Spec

-----------------------------------------------------------------------------
(* The members of managed groups are managed users                         *)

Commit == {"validate", "install", "include", "reload", "save"}

\* Only the holder of the lock is past its guards.
Holds(c) == job[c].at # "idle" => lock = c

\* How far the draft of a request is from what is saved: before its command
\* about the account it works on, and when only the commit is left.
Ahead(c) ==
  /\ job[c].at \in {"useradd", "password", "groupdel", "perms"} =>
       job[c].draft.groups \subseteq saved.groups /\ saved.users \subseteq job[c].draft.users
  /\ job[c].at \in {"smbdel", "userdel"} =>
       /\ job[c].draft.groups \subseteq saved.groups
       /\ saved.users \ {job[c].on} \subseteq job[c].draft.users
  /\ job[c].at \in {"groupadd", "members"} =>
       /\ job[c].draft.groups \subseteq saved.groups \cup {job[c].on}
       /\ saved.users \subseteq job[c].draft.users
       /\ job[c].members \subseteq saved.users
  /\ job[c].at \in Commit =>
       \A g \in job[c].draft.groups : members[g] \subseteq job[c].draft.users

MembersInv == TypeInv /\ MembersManaged /\ \A c \in Clients : Holds(c) /\ Ahead(c)

\* While one request works, every other worker thread is idle, and nothing
\* is asked of an idle one.
LEMMA OneAtWork ==
  ASSUME MembersInv, NEW c \in Clients, job[c].at # "idle", NEW value,
         job' = [job EXCEPT ![c] = value]
  PROVE  \A d \in Clients \ {c} : Holds(d)' /\ Ahead(d)'
  BY DEF MembersInv, TypeInv, TypeOK, Holds, Ahead, Commit

LEMMA RemovedLeaves ==
  ASSUME saved \in State, NEW account
  PROVE  /\ Removed(saved, account).users = saved.users \ {account}
         /\ Removed(saved, account).groups = saved.groups \ {account}
  <1> DEFINE left == {[s EXCEPT !.access[account] = "no"] : s \in saved.shares}
  <1>1. Removed(saved, account) = [saved EXCEPT !.users = saved.users \ {account},
                                                !.groups = saved.groups \ {account},
                                                !.shares = left]
    BY Zenon DEF Removed, Without, State
  <1> HIDE DEF left
  <1> QED BY <1>1 DEF State

LEMMA GrantingLeaves ==
  ASSUME saved \in State, NEW account, NEW asked
  PROVE  /\ Granting(saved, account, asked).users = saved.users
         /\ Granting(saved, account, asked).groups = saved.groups
  BY DEF Granting, State

LEMMA AcceptKeepsMembers ==
  ASSUME MembersInv, NEW c \in Clients, NEW at \in Steps, NEW on, NEW group, NEW known, NEW draft,
         Accept(c, at, on, group, known, draft),
         /\ at \in {"useradd", "password", "groupdel", "perms"} \cup Commit =>
              draft.groups \subseteq saved.groups /\ saved.users \subseteq draft.users
         /\ at \in {"smbdel", "userdel"} =>
              draft.groups \subseteq saved.groups /\ saved.users \ {on} \subseteq draft.users
         /\ at \in {"groupadd", "members"} =>
              /\ draft.groups \subseteq saved.groups \cup {on}
              /\ saved.users \subseteq draft.users /\ group \subseteq saved.users
  PROVE  MembersManaged' /\ \A d \in Clients : Holds(d)' /\ Ahead(d)'
  <1>1. \A d \in Clients : job[d].at = "idle"
    BY AdminAssumption DEF MembersInv, Holds, Accept, Locks
  <1>2. Holds(c)' /\ Ahead(c)'
    BY DEF Accept, Locks, MembersInv, MembersManaged, Holds, Ahead, Commit, accounts, TypeInv, TypeOK
  <1>3. ASSUME NEW d \in Clients, d # c PROVE Holds(d)' /\ Ahead(d)'
    BY <1>1, <1>3 DEF Accept, MembersInv, TypeInv, TypeOK, Holds, Ahead, Commit
  <1>4. MembersManaged'
    BY DEF Accept, MembersInv, MembersManaged, accounts
  <1> QED BY <1>2, <1>3, <1>4

LEMMA RequestKeepsMembers ==
  ASSUME MembersInv, NEW c \in Clients, Request(c)
  PROVE  MembersManaged' /\ \A d \in Clients : Holds(d)' /\ Ahead(d)'
  <1>0. saved \in State
    BY DEF MembersInv, TypeInv, TypeOK
  <1> USE DEF Steps, Commit
  <1>1. ASSUME NEW s \in ShareForms, CreateShare(c, s) \/ UpdateShare(c, s)
        PROVE  MembersManaged' /\ \A d \in Clients : Holds(d)' /\ Ahead(d)'
    BY <1>0, <1>1, AcceptKeepsMembers DEF CreateShare, UpdateShare, Replaced, Ask, State
  <1>2. ASSUME NEW n \in ShareNames, DeleteShare(c, n)
        PROVE  MembersManaged' /\ \A d \in Clients : Holds(d)' /\ Ahead(d)'
    BY <1>0, <1>2, AcceptKeepsMembers DEF DeleteShare, Ask, State
  <1>3. ASSUME NEW u \in Users, CreateUser(c, u) \/ DeleteUser(c, u)
        PROVE  MembersManaged' /\ \A d \in Clients : Holds(d)' /\ Ahead(d)'
    BY <1>0, <1>3, AcceptKeepsMembers, RemovedLeaves DEF CreateUser, DeleteUser, Ask, State
  <1>4. ASSUME NEW u \in Users, NEW password \in BOOLEAN, NEW asked \in AccessForms,
               UpdateUser(c, u, password, asked)
        PROVE  MembersManaged' /\ \A d \in Clients : Holds(d)' /\ Ahead(d)'
    BY <1>0, <1>4, AcceptKeepsMembers, GrantingLeaves DEF UpdateUser
  <1>5. ASSUME NEW g \in Groups, NEW group \in SUBSET Users, CreateGroup(c, g, group)
        PROVE  MembersManaged' /\ \A d \in Clients : Holds(d)' /\ Ahead(d)'
    BY <1>0, <1>5, AcceptKeepsMembers DEF CreateGroup, CheckMembers, State
  <1>6. ASSUME NEW g \in Groups, NEW regroup \in BOOLEAN, NEW group \in SUBSET Users,
               NEW asked \in AccessForms, UpdateGroup(c, g, regroup, group, asked)
        PROVE  MembersManaged' /\ \A d \in Clients : Holds(d)' /\ Ahead(d)'
    BY <1>0, <1>6, AcceptKeepsMembers, GrantingLeaves DEF UpdateGroup, CheckMembers
  <1>7. ASSUME NEW g \in Groups, DeleteGroup(c, g)
        PROVE  MembersManaged' /\ \A d \in Clients : Holds(d)' /\ Ahead(d)'
    <2>1. g \notin saved.users
      BY <1>0, NamesAssumption DEF State
    <2> QED BY <1>0, <1>7, <2>1, AcceptKeepsMembers, RemovedLeaves DEF DeleteGroup, Ask, State
  <1>8. ASSUME NEW settings \in Settings, UpdateSettings(c, settings)
        PROVE  MembersManaged' /\ \A d \in Clients : Holds(d)' /\ Ahead(d)'
    BY <1>0, <1>8, AcceptKeepsMembers DEF UpdateSettings, Ask, State
  <1> QED BY <1>1, <1>2, <1>3, <1>4, <1>5, <1>6, <1>7, <1>8 DEF Request

LEMMA GoesKeepsMembers ==
  ASSUME MembersInv, NEW c \in Clients, NEW step \in Steps, job[c].at # "idle", Goes(c, step)
  PROVE  /\ job'[c].at = step /\ lock' = c
         /\ job'[c].draft = job[c].draft /\ job'[c].on = job[c].on
         /\ job'[c].members = job[c].members
         /\ \A d \in Clients \ {c} : Holds(d)' /\ Ahead(d)'
  <1>1. /\ job'[c].at = step /\ lock' = c
        /\ job'[c].draft = job[c].draft /\ job'[c].on = job[c].on
        /\ job'[c].members = job[c].members
    BY DEF Goes, MembersInv, TypeInv, TypeOK, Job, Holds
  <1>2. job' = [job EXCEPT ![c] = [job[c] EXCEPT !.at = step]]
    BY DEF Goes
  <1> QED BY <1>1, <1>2, OneAtWork

LEMMA EndKeepsMembers ==
  ASSUME MembersInv, NEW c \in Clients, job[c].at # "idle", End(c)
  PROVE  \A d \in Clients : Holds(d)' /\ Ahead(d)'
  <1>1. job'[c] = Idle
    BY DEF End, MembersInv, TypeInv, TypeOK
  <1>2. Holds(c)' /\ Ahead(c)'
    BY <1>1 DEF Idle, Holds, Ahead, Commit
  <1> QED BY <1>2, OneAtWork DEF End

LEMMA WorkKeepsMembers ==
  ASSUME MembersInv, NEW c \in Clients, Work(c)
  PROVE  MembersManaged' /\ \A d \in Clients : Holds(d)' /\ Ahead(d)'
  <1> USE DEF At, Steps, smbFiles, accounts
  <1>0. /\ Ahead(c) /\ MembersManaged /\ Fits(job[c].at, job[c].on)
        /\ members \in [Groups -> SUBSET Users]
        /\ saved.groups \subseteq Groups /\ job[c].draft.groups \subseteq Groups
    BY DEF MembersInv, TypeInv, TypeOK, Job, State
  <1>1. CASE CommandFails(c) \/ NoPassword(c) \/ NoMembers(c) \/ Refuse(c)
    BY <1>0, <1>1, EndKeepsMembers
       DEF CommandFails, NoPassword, NoMembers, Refuse, Refusal, MembersManaged
  <1>2. CASE UserAdd(c) \/ SmbDel(c) \/ GroupAdd(c) \/ OpenDirectory(c)
    <2>1. MembersManaged'
      BY <1>0, <1>2 DEF UserAdd, SmbDel, GroupAdd, OpenDirectory, MembersManaged
    <2>2. Holds(c)' /\ Ahead(c)'
      BY <1>0, <1>2, GoesKeepsMembers
         DEF UserAdd, SmbDel, GroupAdd, OpenDirectory, MembersManaged, Holds, Ahead, Commit
    <2> QED BY <1>2, <2>1, <2>2, GoesKeepsMembers DEF UserAdd, SmbDel, GroupAdd, OpenDirectory
  <1>3. CASE SetPassword(c)
    <2>1. MembersManaged'
      BY <1>0, <1>3 DEF SetPassword, MembersManaged
    <2>2. CASE End(c)
      BY <1>3, <2>1, <2>2, EndKeepsMembers DEF SetPassword
    <2>3. CASE Goes(c, "validate")
      <3>1. Holds(c)' /\ Ahead(c)'
        BY <1>0, <1>3, <2>3, GoesKeepsMembers DEF SetPassword, MembersManaged, Holds, Ahead, Commit
      <3> QED BY <1>3, <2>1, <2>3, <3>1, GoesKeepsMembers DEF SetPassword
    <2> QED BY <1>3, <2>2, <2>3 DEF SetPassword, Continues
  <1>4. CASE UserDel(c)
    <2>1. MembersManaged'
      BY <1>0, <1>4 DEF UserDel, MembersManaged
    <2>2. Holds(c)' /\ Ahead(c)'
      BY <1>0, <1>4, GoesKeepsMembers DEF UserDel, MembersManaged, Holds, Ahead, Commit
    <2> QED BY <1>4, <2>1, <2>2, GoesKeepsMembers DEF UserDel
  <1>5. CASE SetMembers(c)
    <2>1. MembersManaged'
      BY <1>0, <1>5 DEF SetMembers, MembersManaged, Ahead
    <2>2. CASE End(c)
      BY <1>5, <2>1, <2>2, EndKeepsMembers DEF SetMembers
    <2>3. CASE Goes(c, "validate")
      <3>1. Holds(c)' /\ Ahead(c)'
        BY <1>0, <1>5, <2>3, GoesKeepsMembers
           DEF SetMembers, MembersManaged, Holds, Ahead, Commit, Fits
      <3> QED BY <1>5, <2>1, <2>3, <3>1, GoesKeepsMembers DEF SetMembers
    <2> QED BY <1>5, <2>2, <2>3 DEF SetMembers, Continues
  <1>6. CASE GroupDel(c)
    <2>1. MembersManaged'
      BY <1>0, <1>6 DEF GroupDel, MembersManaged
    <2>2. Holds(c)' /\ Ahead(c)'
      BY <1>0, <1>6, GoesKeepsMembers DEF GroupDel, MembersManaged, Holds, Ahead, Commit
    <2> QED BY <1>6, <2>1, <2>2, GoesKeepsMembers DEF GroupDel
  <1>7. CASE Validate(c) \/ Install(c) \/ IncludeStays(c) \/ AddInclude(c) \/ Reload(c)
    <2>1. MembersManaged'
      BY <1>0, <1>7 DEF Validate, Install, IncludeStays, AddInclude, Reload, MembersManaged
    <2>2. Holds(c)' /\ Ahead(c)'
      BY <1>0, <1>7, GoesKeepsMembers
         DEF Validate, Install, IncludeStays, AddInclude, Reload, Holds, Ahead, Commit
    <2> QED BY <1>7, <2>1, <2>2, GoesKeepsMembers
            DEF Validate, Install, IncludeStays, AddInclude, Reload
  <1>8. CASE KeepOriginal(c)
    BY <1>8 DEF KeepOriginal, MembersInv, MembersManaged, Holds, Ahead
  <1>9. CASE SaveState(c)
    <2>1. MembersManaged'
      BY <1>0, <1>9 DEF SaveState, MembersManaged, Ahead, Commit
    <2> QED BY <1>9, <2>1, EndKeepsMembers DEF SaveState
  <1> QED BY <1>1, <1>2, <1>3, <1>4, <1>5, <1>6, <1>7, <1>8, <1>9 DEF Work

LEMMA BreakKeepsMembers ==
  ASSUME MembersInv,
         \/ \E c \in Clients : NoSpace(c)
         \/ RestartService \/ CrashHost \/ RestartSamba
  PROVE  MembersManaged' /\ \A d \in Clients : Holds(d)' /\ Ahead(d)'
  <1> USE DEF smbFiles, accounts
  <1>1. Stops => \A d \in Clients : Holds(d)' /\ Ahead(d)'
    BY DEF Stops, Idle, Holds, Ahead, Commit
  <1>2. CASE \E c \in Clients : NoSpace(c)
    BY <1>2, EndKeepsMembers DEF NoSpace, MembersInv, MembersManaged
  <1>3. CASE RestartService \/ CrashHost
    BY <1>1, <1>3 DEF RestartService, CrashHost, MembersInv, MembersManaged
  <1>4. CASE RestartSamba
    BY <1>4 DEF RestartSamba, MembersInv, MembersManaged, Holds, Ahead
  <1> QED BY <1>2, <1>3, <1>4

LEMMA InitMembersInv == Init => MembersInv
  BY InitTypeInv DEF Init, MembersInv, MembersManaged, Fresh, Idle, Holds, Ahead, Commit

LEMMA NextMembersInv == MembersInv /\ [Next]_vars => MembersInv'
  <1> SUFFICES ASSUME MembersInv, [Next]_vars PROVE MembersInv'
    OBVIOUS
  <1>1. TypeInv'
    BY NextTypeInv DEF MembersInv
  <1>2. CASE Next
    BY <1>1, <1>2, RequestKeepsMembers, WorkKeepsMembers, BreakKeepsMembers DEF Next, MembersInv
  <1>3. CASE UNCHANGED vars
    BY <1>1, <1>3 DEF vars, smbFiles, accounts, MembersInv, MembersManaged, Holds, Ahead
  <1> QED BY <1>2, <1>3

(* A group the GUI manages holds users it manages, for any number of       *)
(* requests at a time and wherever one of them fails or is cut short: the  *)
(* members are checked under the lock under which they are set.            *)
THEOREM MembersManagedHolds == Spec => []MembersManaged
  <1>1. MembersInv => MembersManaged
    BY DEF MembersInv
  <1> QED BY <1>1, InitMembersInv, NextMembersInv, PTL DEF Spec

-----------------------------------------------------------------------------
(* Accounts that were there before                                         *)

AccountSteps == {"useradd", "password", "smbdel", "userdel", "groupadd", "members", "groupdel"}

\* A state that manages none of them.
Apart(st) == (st.users \cup st.groups) \cap Existing = {}

\* A request has none of them in its draft, and works on none of them.
Leaves(c) ==
  Apart(job[c].draft) /\ (job[c].at \in AccountSteps => job[c].on \notin Existing)

ExistingInv == TypeInv /\ KeepsExisting /\ Apart(saved) /\ \A c \in Clients : Leaves(c)

LEMMA AcceptLeaves ==
  ASSUME ExistingInv, NEW c \in Clients, NEW at \in Steps, NEW on, NEW group, NEW known, NEW draft,
         Accept(c, at, on, group, known, draft),
         Apart(draft), at \in AccountSteps => on \notin Existing
  PROVE  (KeepsExisting /\ Apart(saved))' /\ \A d \in Clients : Leaves(d)'
  BY DEF Accept, ExistingInv, TypeInv, TypeOK, KeepsExisting, Apart, Leaves, accounts

LEMMA RequestLeaves ==
  ASSUME ExistingInv, NEW c \in Clients, Request(c)
  PROVE  (KeepsExisting /\ Apart(saved))' /\ \A d \in Clients : Leaves(d)'
  <1> DEFINE Goal == (KeepsExisting /\ Apart(saved))' /\ \A d \in Clients : Leaves(d)'
  <1>0. saved \in State /\ Apart(saved) /\ KeepsExisting /\ sysUsers \subseteq Users
        /\ sysGroups \subseteq Groups
    BY DEF ExistingInv, TypeInv, TypeOK
  <1> USE DEF Steps, AccountSteps
  <1>1. ASSUME NEW s \in ShareForms, CreateShare(c, s) \/ UpdateShare(c, s) PROVE Goal
    BY <1>0, <1>1, AcceptLeaves DEF CreateShare, UpdateShare, Replaced, Ask, State, Apart
  <1>2. ASSUME NEW n \in ShareNames, DeleteShare(c, n) PROVE Goal
    BY <1>0, <1>2, AcceptLeaves DEF DeleteShare, Ask, State, Apart
  <1>3. ASSUME NEW u \in Users, CreateUser(c, u) PROVE Goal
    <2>1. u \notin Existing
      BY <1>0, <1>3, NamesAssumption DEF CreateUser, IsNew, KeepsExisting
    <2> QED BY <1>0, <1>3, <2>1, AcceptLeaves DEF CreateUser, Ask, State, Apart
  <1>4. ASSUME NEW u \in Users, DeleteUser(c, u) PROVE Goal
    BY <1>0, <1>4, AcceptLeaves, RemovedLeaves DEF DeleteUser, Ask, Apart
  <1>5. ASSUME NEW u \in Users, NEW password \in BOOLEAN, NEW asked \in AccessForms,
               UpdateUser(c, u, password, asked)
        PROVE  Goal
    BY <1>0, <1>5, AcceptLeaves, GrantingLeaves DEF UpdateUser, Apart
  <1>6. ASSUME NEW g \in Groups, NEW group \in SUBSET Users, CreateGroup(c, g, group) PROVE Goal
    <2>1. g \notin Existing
      BY <1>0, <1>6, NamesAssumption DEF CreateGroup, IsNew, KeepsExisting
    <2> QED BY <1>0, <1>6, <2>1, AcceptLeaves DEF CreateGroup, State, Apart
  <1>7. ASSUME NEW g \in Groups, NEW regroup \in BOOLEAN, NEW group \in SUBSET Users,
               NEW asked \in AccessForms, UpdateGroup(c, g, regroup, group, asked)
        PROVE  Goal
    BY <1>0, <1>7, AcceptLeaves, GrantingLeaves DEF UpdateGroup, Apart
  <1>8. ASSUME NEW g \in Groups, DeleteGroup(c, g) PROVE Goal
    BY <1>0, <1>8, AcceptLeaves, RemovedLeaves DEF DeleteGroup, Ask, Apart
  <1>9. ASSUME NEW settings \in Settings, UpdateSettings(c, settings) PROVE Goal
    BY <1>0, <1>9, AcceptLeaves DEF UpdateSettings, Ask, State, Apart
  <1> QED BY <1>1, <1>2, <1>3, <1>4, <1>5, <1>6, <1>7, <1>8, <1>9 DEF Request

LEMMA FreshApart == Apart(Idle.draft)
  BY DEF Idle, Fresh, Apart

LEMMA StepLeaves ==
  ASSUME ExistingInv, NEW c \in Clients, job[c].at # "idle",
         \/ \E step \in Steps :
              Goes(c, step) /\ (step \in AccountSteps => job[c].at \in AccountSteps)
         \/ End(c)
         \/ Continues(c)
  PROVE  \A d \in Clients : Leaves(d)'
  <1>1. ASSUME NEW step \in Steps, Goes(c, step)
        PROVE  /\ job'[c].at = step /\ job'[c].draft = job[c].draft
               /\ job'[c].on = job[c].on
    BY <1>1 DEF Goes, ExistingInv, TypeInv, TypeOK, Job
  <1>2. ASSUME NEW d \in Clients, d # c PROVE job'[d] = job[d]
    BY <1>2 DEF Goes, End, Continues, ExistingInv, TypeInv, TypeOK
  <1>3. End(c) => job'[c] = Idle
    BY DEF End, ExistingInv, TypeInv, TypeOK
  <1>4. End(c) => Leaves(c)'
    BY <1>3, FreshApart DEF Leaves, Idle, AccountSteps, Apart
  <1>5. Leaves(c)'
    BY <1>1, <1>4 DEF Continues, Leaves, ExistingInv, Steps, AccountSteps, Apart
  <1> QED BY <1>2, <1>5 DEF Leaves, ExistingInv, Apart

LEMMA WorkLeaves ==
  ASSUME ExistingInv, NEW c \in Clients, Work(c)
  PROVE  (KeepsExisting /\ Apart(saved))' /\ \A d \in Clients : Leaves(d)'
  <1> USE DEF At, Steps, AccountSteps, smbFiles, accounts, KeepsExisting
  <1>0. /\ Leaves(c) /\ KeepsExisting /\ Apart(saved)
        /\ sysUsers \subseteq Users /\ sysGroups \subseteq Groups
    BY DEF ExistingInv, TypeInv, TypeOK
  <1>1. CASE CommandFails(c) \/ NoPassword(c) \/ NoMembers(c) \/ Refuse(c)
    BY <1>0, <1>1, StepLeaves DEF CommandFails, NoPassword, NoMembers, Refuse, Refusal, Apart
  <1>2. CASE UserAdd(c) \/ SmbDel(c) \/ UserDel(c)
    BY <1>0, <1>2, StepLeaves DEF UserAdd, SmbDel, UserDel, Leaves, Apart
  <1>3. CASE GroupAdd(c) \/ GroupDel(c) \/ OpenDirectory(c)
    BY <1>0, <1>3, StepLeaves DEF GroupAdd, GroupDel, OpenDirectory, Leaves, Apart
  <1>4. CASE SetPassword(c) \/ SetMembers(c)
    BY <1>0, <1>4, StepLeaves DEF SetPassword, SetMembers, Leaves, Apart
  <1>5. CASE Validate(c) \/ Install(c) \/ IncludeStays(c) \/ AddInclude(c) \/ Reload(c)
    BY <1>0, <1>5, StepLeaves DEF Validate, Install, IncludeStays, AddInclude, Reload, Apart
  <1>6. CASE KeepOriginal(c)
    BY <1>0, <1>6 DEF KeepOriginal, ExistingInv, Leaves, Apart
  <1>7. CASE SaveState(c)
    BY <1>0, <1>7, StepLeaves DEF SaveState, Leaves, Apart
  <1> QED BY <1>1, <1>2, <1>3, <1>4, <1>5, <1>6, <1>7 DEF Work

LEMMA BreakLeaves ==
  ASSUME ExistingInv,
         \/ \E c \in Clients : NoSpace(c)
         \/ RestartService \/ CrashHost \/ RestartSamba
  PROVE  (KeepsExisting /\ Apart(saved))' /\ \A d \in Clients : Leaves(d)'
  <1> USE DEF smbFiles, accounts, KeepsExisting
  <1>0. KeepsExisting /\ Apart(saved)
    BY DEF ExistingInv
  <1>1. Stops => \A d \in Clients : Leaves(d)'
    BY FreshApart DEF Stops, Leaves, Idle, AccountSteps, Apart
  <1>2. CASE \E c \in Clients : NoSpace(c)
    BY <1>0, <1>2, StepLeaves DEF NoSpace, Apart
  <1>3. CASE RestartService \/ CrashHost
    BY <1>0, <1>1, <1>3 DEF RestartService, CrashHost, Apart
  <1>4. CASE RestartSamba
    BY <1>0, <1>4 DEF RestartSamba, ExistingInv, Leaves, Apart
  <1> QED BY <1>2, <1>3, <1>4

(* An account that is on the host before the GUI uses its name is never    *)
(* deleted by it and never gets a Samba password, whatever the order of    *)
(* creations and deletions and whichever of them fail half way.            *)
THEOREM KeepsExistingHolds == Spec => []KeepsExisting
  <1>1. Init => ExistingInv
    BY InitTypeInv, FreshApart, AdminAssumption
       DEF Init, ExistingInv, KeepsExisting, Apart, Leaves, Fresh, Idle, AccountSteps, Accounts
  <1>2. ExistingInv /\ [Next]_vars => ExistingInv'
    <2> SUFFICES ASSUME ExistingInv, [Next]_vars PROVE ExistingInv'
      OBVIOUS
    <2>1. TypeInv'
      BY NextTypeInv DEF ExistingInv
    <2>2. CASE Next
      BY <2>1, <2>2, RequestLeaves, WorkLeaves, BreakLeaves DEF Next, ExistingInv
    <2>3. CASE UNCHANGED vars
      BY <2>1, <2>3 DEF vars, smbFiles, accounts, ExistingInv, KeepsExisting, Apart, Leaves
    <2> QED BY <2>2, <2>3
  <1>3. ExistingInv => KeepsExisting
    BY DEF ExistingInv
  <1> QED BY <1>1, <1>2, <1>3, PTL DEF Spec

-----------------------------------------------------------------------------
(* The commit: what is written, saved and served                           *)

Writing(c) == job[c].at \in {"include", "reload", "save"}

\* A request at work writes a file that is its draft, drops nothing but what
\* it works on, leaves no grant of a user it drops (nor, at the commit, the
\* system account), and has opened every directory its draft shares.
OnTheWay(c) ==
  LET draft == job[c].draft
  IN  job[c].at # "idle" =>
        /\ Writing(c) => conf = Generate(draft)
        /\ EntriesOf(saved) \ EntriesOf(draft) \subseteq {job[c].on}
        /\ \A u \in saved.users \ draft.users :
             /\ \A s \in draft.shares : s.access[u] = "no"
             /\ job[c].at \in Commit => u \notin sysUsers
        /\ \A s \in draft.shares :
             s.path \in opened \/ (job[c].at = "perms" /\ s.path = job[c].on)

\* Unless a request is between the two files, they agree.
Applied ==
  (\A c \in Clients : ~Writing(c)) =>
    conf = Generate(saved) \/ (conf = NoConf /\ saved = Fresh(DefaultSettings))

Opened(st) == \A s \in st.shares : s.path \in opened

CommitInv ==
  /\ MembersInv
  /\ Opened(saved)
  /\ breaks = 0 => Applied
  /\ \A c \in Clients : OnTheWay(c)

LEMMA InitCommitInv == Init => CommitInv
  <1> SUFFICES ASSUME Init PROVE CommitInv
    OBVIOUS
  <1>1. MembersInv
    BY InitMembersInv
  <1>2. \A c \in Clients : OnTheWay(c)
    BY DEF Init, OnTheWay, Idle
  <1>3. Opened(saved) /\ Applied
    BY DEF Init, Opened, Applied, Fresh
  <1> QED BY <1>1, <1>2, <1>3 DEF CommitInv

\* What a request leaves alone when it draws up its draft: the names and the
\* directories of the shares.
LEMMA GrantingKeepsShares ==
  ASSUME StateOK(saved), NEW account \in Accounts, NEW asked \in AccessForms
  PROVE  /\ EntriesOf(Granting(saved, account, asked)) = EntriesOf(saved)
         /\ \A t \in Granting(saved, account, asked).shares :
              \E s \in saved.shares : t.path = s.path
  <1> DEFINE changed(s) ==
        [s EXCEPT !.access[account] = IF s.name \in DOMAIN asked THEN asked[s.name] ELSE @]
  <1>1. ASSUME NEW s \in Share PROVE changed(s).name = s.name /\ changed(s).path = s.path
    BY DEF Share
  <1>2. Granting(saved, account, asked) = [saved EXCEPT !.shares = {changed(s) : s \in saved.shares}]
    BY Zenon DEF Granting
  <1> HIDE DEF changed
  <1>3. /\ Granting(saved, account, asked).shares = {changed(s) : s \in saved.shares}
        /\ Granting(saved, account, asked).users = saved.users
        /\ Granting(saved, account, asked).groups = saved.groups
    BY <1>2 DEF StateOK, State
  <1>4. saved.shares \subseteq Share
    BY DEF StateOK, State
  <1> QED BY <1>1, <1>3, <1>4 DEF EntriesOf

LEMMA RemovedKeepsShares ==
  ASSUME StateOK(saved), NEW account \in Accounts
  PROVE  /\ EntriesOf(saved) \ EntriesOf(Removed(saved, account)) \subseteq {account}
         /\ \A t \in Removed(saved, account).shares :
              /\ t.access[account] = "no"
              /\ \E s \in saved.shares : t.path = s.path
  <1> DEFINE changed(s) == [s EXCEPT !.access[account] = "no"]
  <1>1. ASSUME NEW s \in Share
        PROVE  /\ changed(s).name = s.name /\ changed(s).path = s.path
               /\ changed(s).access[account] = "no"
    BY DEF Share, Matrix
  <1>2. Removed(saved, account) = [saved EXCEPT !.users = saved.users \ {account},
                                                !.groups = saved.groups \ {account},
                                                !.shares = {changed(s) : s \in saved.shares}]
    BY Zenon DEF Removed, Without, StateOK, State
  <1> HIDE DEF changed
  <1>3. /\ Removed(saved, account).shares = {changed(s) : s \in saved.shares}
        /\ Removed(saved, account).users = saved.users \ {account}
        /\ Removed(saved, account).groups = saved.groups \ {account}
    BY <1>2 DEF StateOK, State
  <1>4. saved.shares \subseteq Share
    BY DEF StateOK, State
  <1> QED BY <1>1, <1>3, <1>4 DEF EntriesOf

\* A first step, and a draft it can be taken with.
Begins(at, on, draft) ==
  /\ at \notin {"install", "include", "reload", "save"}
  /\ EntriesOf(saved) \ EntriesOf(draft) \subseteq {on}
  /\ \A u \in saved.users \ draft.users :
       at # "validate" /\ \A s \in draft.shares : s.access[u] = "no"
  /\ \A s \in draft.shares : s.path \in opened \/ (at = "perms" /\ s.path = on)

LEMMA AcceptIsOnTheWay ==
  ASSUME CommitInv, NEW c \in Clients, NEW at, NEW on, NEW group, NEW known, NEW draft,
         Accept(c, at, on, group, known, draft), Begins(at, on, draft)
  PROVE  Opened(saved)' /\ (breaks = 0 => Applied)' /\ \A d \in Clients : OnTheWay(d)'
  <1> DEFINE new == [at |-> at, on |-> on, members |-> group, known |-> known, draft |-> draft]
  <1>1. \A d \in Clients : job[d].at = "idle"
    BY AdminAssumption DEF CommitInv, MembersInv, Holds, Accept, Locks
  <1>2. /\ new.at = at /\ new.on = on /\ new.draft = draft
        /\ job' = [job EXCEPT ![c] = new] /\ job \in [Clients -> Job]
    BY DEF Accept, CommitInv, MembersInv, TypeInv, TypeOK
  <1> HIDE DEF new
  <1>3. UNCHANGED <<saved, conf, sysUsers, opened, breaks>>
    BY DEF Accept, smbFiles, accounts
  <1>4. \A d \in Clients : ~Writing(d)'
    BY <1>1, <1>2 DEF Begins, Writing
  <1>5. OnTheWay(c)'
    BY <1>2, <1>3, <1>4 DEF Begins, OnTheWay, Commit, EntriesOf
  <1>6. ASSUME NEW d \in Clients, d # c PROVE OnTheWay(d)'
    BY <1>1, <1>2, <1>6 DEF OnTheWay
  <1>7. (breaks = 0 => Applied)'
    BY <1>1, <1>3 DEF CommitInv, Applied, Writing
  <1>8. Opened(saved)'
    BY <1>3 DEF CommitInv, Opened
  <1> QED BY <1>5, <1>6, <1>7, <1>8

LEMMA RequestIsOnTheWay ==
  ASSUME CommitInv, NEW c \in Clients, Request(c)
  PROVE  Opened(saved)' /\ (breaks = 0 => Applied)' /\ \A d \in Clients : OnTheWay(d)'
  <1> DEFINE Goal == Opened(saved)' /\ (breaks = 0 => Applied)' /\ \A d \in Clients : OnTheWay(d)'
  <1>0. StateOK(saved) /\ saved \in State /\ \A s \in saved.shares : s.path \in opened
    BY DEF CommitInv, MembersInv, TypeInv, TypeOK, StateOK, Opened
  <1> USE DEF Accounts
  <1>1. ASSUME NEW s \in ShareForms, CreateShare(c, s) PROVE Goal
    <2> DEFINE draft == [saved EXCEPT !.shares = @ \cup {s}]
    <2>1. draft.shares = saved.shares \cup {s} /\ draft.users = saved.users
          /\ draft.groups = saved.groups
      BY <1>0 DEF State
    <2>2. Accept(c, "perms", s.path, {}, TRUE, draft)
      BY <1>1 DEF CreateShare, Ask
    <2> HIDE DEF draft
    <2>3. EntriesOf(saved) \ EntriesOf(draft) \subseteq {s.path}
      BY <2>1 DEF EntriesOf
    <2>4. Begins("perms", s.path, draft)
      BY <1>0, <2>1, <2>3 DEF Begins
    <2> QED BY <2>2, <2>4, AcceptIsOnTheWay
  <1>2. ASSUME NEW s \in ShareForms, UpdateShare(c, s) PROVE Goal
    <2>1. /\ Replaced(s).shares = (saved.shares \ Named(saved, s.name)) \cup {s}
          /\ Replaced(s).users = saved.users /\ Replaced(s).groups = saved.groups
      BY <1>0 DEF Replaced, State
    <2>2. EntriesOf(saved) \subseteq EntriesOf(Replaced(s))
      BY <2>1 DEF EntriesOf, Named
    <2>3. Accept(c, "perms", s.path, {}, TRUE, Replaced(s))
      BY <1>2 DEF UpdateShare, Ask
    <2>4. Begins("perms", s.path, Replaced(s))
      BY <1>0, <2>1, <2>2 DEF Begins
    <2> QED BY <2>3, <2>4, AcceptIsOnTheWay
  <1>3. ASSUME NEW n \in ShareNames, DeleteShare(c, n) PROVE Goal
    <2> DEFINE draft == [saved EXCEPT !.shares = @ \ Named(saved, n)]
    <2>1. draft.shares = saved.shares \ Named(saved, n) /\ draft.users = saved.users
          /\ draft.groups = saved.groups
      BY <1>0 DEF State
    <2>2. Accept(c, "validate", n, {}, TRUE, draft)
      BY <1>3 DEF DeleteShare, Ask
    <2> HIDE DEF draft
    <2>3. EntriesOf(saved) \ EntriesOf(draft) \subseteq {n}
      BY <2>1 DEF EntriesOf, Named
    <2>4. Begins("validate", n, draft)
      BY <1>0, <2>1, <2>3 DEF Begins
    <2> QED BY <2>2, <2>4, AcceptIsOnTheWay
  <1>4. ASSUME NEW u \in Users, CreateUser(c, u) PROVE Goal
    <2> DEFINE draft == [saved EXCEPT !.users = @ \cup {u}]
    <2>1. draft.shares = saved.shares /\ draft.users = saved.users \cup {u}
          /\ draft.groups = saved.groups
      BY <1>0 DEF State
    <2>2. Accept(c, "useradd", u, {}, TRUE, draft)
      BY <1>4 DEF CreateUser, Ask
    <2> HIDE DEF draft
    <2>3. EntriesOf(saved) \subseteq EntriesOf(draft)
      BY <2>1 DEF EntriesOf
    <2>4. Begins("useradd", u, draft)
      BY <1>0, <2>1, <2>3 DEF Begins
    <2> QED BY <2>2, <2>4, AcceptIsOnTheWay
  <1>5. ASSUME NEW u \in Users, DeleteUser(c, u) PROVE Goal
    <2>1. /\ EntriesOf(saved) \ EntriesOf(Removed(saved, u)) \subseteq {u}
          /\ saved.users \ Removed(saved, u).users \subseteq {u}
      BY <1>0, RemovedKeepsShares, RemovedLeaves
    <2>2. \A t \in Removed(saved, u).shares : t.access[u] = "no" /\ t.path \in opened
      BY <1>0, RemovedKeepsShares
    <2>3. Begins("smbdel", u, Removed(saved, u))
      BY <2>1, <2>2 DEF Begins
    <2>4. Accept(c, "smbdel", u, {}, TRUE, Removed(saved, u))
      BY <1>5 DEF DeleteUser, Ask
    <2> QED BY <2>3, <2>4, AcceptIsOnTheWay
  <1>6. ASSUME NEW account \in Accounts, NEW at, NEW group, NEW known,
               NEW asked \in AccessForms, at \notin {"install", "include", "reload", "save"},
               Accept(c, at, account, group, known, Granting(saved, account, asked))
        PROVE  Goal
    <2>1. /\ EntriesOf(Granting(saved, account, asked)) = EntriesOf(saved)
          /\ Granting(saved, account, asked).users = saved.users
      BY <1>0, GrantingKeepsShares, GrantingLeaves
    <2>2. \A t \in Granting(saved, account, asked).shares : t.path \in opened
      BY <1>0, GrantingKeepsShares
    <2>3. Begins(at, account, Granting(saved, account, asked))
      BY <1>6, <2>1, <2>2 DEF Begins
    <2> QED BY <1>6, <2>3, AcceptIsOnTheWay
  <1>7. ASSUME NEW u \in Users, NEW password \in BOOLEAN, NEW asked \in AccessForms,
               UpdateUser(c, u, password, asked)
        PROVE  Goal
    BY <1>6, <1>7 DEF UpdateUser
  <1>8. ASSUME NEW g \in Groups, NEW group \in SUBSET Users, CreateGroup(c, g, group) PROVE Goal
    <2> DEFINE draft == [saved EXCEPT !.groups = @ \cup {g}]
    <2>1. draft.shares = saved.shares /\ draft.users = saved.users
          /\ draft.groups = saved.groups \cup {g}
      BY <1>0 DEF State
    <2>2. Accept(c, "groupadd", g, group, TRUE, draft)
      BY <1>8 DEF CreateGroup
    <2> HIDE DEF draft
    <2>3. EntriesOf(saved) \subseteq EntriesOf(draft)
      BY <2>1 DEF EntriesOf
    <2>4. Begins("groupadd", g, draft)
      BY <1>0, <2>1, <2>3 DEF Begins
    <2> QED BY <2>2, <2>4, AcceptIsOnTheWay
  <1>9. ASSUME NEW g \in Groups, NEW regroup \in BOOLEAN, NEW group \in SUBSET Users,
               NEW asked \in AccessForms, UpdateGroup(c, g, regroup, group, asked)
        PROVE  Goal
    BY <1>6, <1>9 DEF UpdateGroup
  <1>10. ASSUME NEW g \in Groups, DeleteGroup(c, g) PROVE Goal
    <2>1. /\ EntriesOf(saved) \ EntriesOf(Removed(saved, g)) \subseteq {g}
          /\ Removed(saved, g).users = saved.users
      <3>1. g \notin saved.users
        BY <1>0, NamesAssumption DEF State
      <3>2. saved.users \ {g} = saved.users
        BY <3>1
      <3>3. Removed(saved, g).users = saved.users \ {g}
        BY <1>0, RemovedLeaves
      <3> QED BY <1>0, <3>2, <3>3, RemovedKeepsShares
    <2>2. \A t \in Removed(saved, g).shares : t.path \in opened
      BY <1>0, RemovedKeepsShares
    <2>3. Begins("groupdel", g, Removed(saved, g))
      BY <2>1, <2>2 DEF Begins
    <2>4. Accept(c, "groupdel", g, {}, TRUE, Removed(saved, g))
      BY <1>10 DEF DeleteGroup, Ask
    <2> QED BY <2>3, <2>4, AcceptIsOnTheWay
  <1>11. ASSUME NEW settings \in Settings, UpdateSettings(c, settings) PROVE Goal
    <2> DEFINE draft == [saved EXCEPT !.settings = settings]
    <2>1. draft.shares = saved.shares /\ draft.users = saved.users
          /\ draft.groups = saved.groups
      BY <1>0 DEF State
    <2>2. Accept(c, "validate", "-", {}, TRUE, draft)
      BY <1>11 DEF UpdateSettings, Ask
    <2> HIDE DEF draft
    <2>3. Begins("validate", "-", draft)
      BY <1>0, <2>1 DEF Begins, EntriesOf
    <2> QED BY <2>2, <2>3, AcceptIsOnTheWay
  <1> QED BY <1>1, <1>2, <1>3, <1>4, <1>5, <1>7, <1>8, <1>9, <1>10, <1>11 DEF Request

LEMMA Alone ==
  ASSUME CommitInv, NEW c \in Clients, job[c].at # "idle"
  PROVE  \A d \in Clients \ {c} : job[d].at = "idle"
  BY DEF CommitInv, MembersInv, Holds

LEMMA GoesOnAlone ==
  ASSUME CommitInv, NEW c \in Clients, job[c].at # "idle", NEW step, Goes(c, step)
  PROVE  /\ job'[c].at = step /\ job'[c].draft = job[c].draft /\ job'[c].on = job[c].on
         /\ breaks' = breaks
         /\ \A d \in Clients \ {c} : OnTheWay(d)' /\ ~Writing(d) /\ ~Writing(d)'
  <1>1. /\ job'[c].at = step /\ job'[c].draft = job[c].draft /\ job'[c].on = job[c].on
        /\ breaks' = breaks
    BY DEF Goes, CommitInv, MembersInv, TypeInv, TypeOK, Job
  <1>2. \A d \in Clients \ {c} : job'[d] = job[d]
    BY DEF Goes, CommitInv, MembersInv, TypeInv, TypeOK
  <1> QED BY <1>1, <1>2, Alone DEF OnTheWay, Writing

LEMMA EndsAlone ==
  ASSUME CommitInv, NEW c \in Clients, job[c].at # "idle", End(c)
  PROVE  \A d \in Clients : OnTheWay(d)' /\ ~Writing(d)' /\ (d # c => ~Writing(d))
  <1>1. \A d \in Clients : job'[d].at = "idle"
    BY Alone DEF End, Idle, CommitInv, MembersInv, TypeInv, TypeOK
  <1> QED BY <1>1, Alone DEF OnTheWay, Writing

\* A request that ends before it writes.
LEMMA EndsUnwritten ==
  ASSUME CommitInv, NEW c \in Clients, job[c].at # "idle", ~Writing(c), End(c),
         UNCHANGED <<saved, conf, opened, breaks>>
  PROVE  Opened(saved)' /\ (breaks = 0 => Applied)' /\ \A d \in Clients : OnTheWay(d)'
  <1>1. \A d \in Clients : ~Writing(d)
    BY EndsAlone
  <1>2. (breaks = 0 => Applied)'
    BY <1>1 DEF CommitInv, Applied
  <1> QED BY <1>2, EndsAlone DEF CommitInv, Opened

\* A step before the commit.
LEMMA CommandIsOnTheWay ==
  ASSUME CommitInv, NEW c \in Clients, job[c].at # "idle", job[c].at \notin Commit,
         NEW step, Goes(c, step),
         step \notin {"install", "include", "reload", "save", "perms"},
         UNCHANGED <<saved, conf>>, opened \subseteq opened',
         job[c].at = "perms" => job[c].on \in opened',
         step = "validate" => \A u \in saved.users \ job[c].draft.users : u \notin sysUsers'
  PROVE  Opened(saved)' /\ (breaks = 0 => Applied)' /\ \A d \in Clients : OnTheWay(d)'
  <1>1. OnTheWay(c)
    BY DEF CommitInv
  <1>2. ~Writing(c) /\ ~Writing(c)'
    BY GoesOnAlone DEF Writing, Commit
  <1>3. OnTheWay(c)'
    BY <1>1, <1>2, GoesOnAlone DEF OnTheWay, Commit, EntriesOf
  <1>4. \A d \in Clients : ~Writing(d)
    BY <1>2, GoesOnAlone
  <1>5. (breaks = 0 => Applied)'
    BY <1>4, GoesOnAlone DEF CommitInv, Applied
  <1>6. Opened(saved)'
    BY DEF CommitInv, Opened
  <1> QED BY <1>3, <1>5, <1>6, GoesOnAlone

\* A step of the commit.
LEMMA CommitIsOnTheWay ==
  ASSUME CommitInv, NEW c \in Clients, job[c].at \in Commit, NEW step \in Commit, Goes(c, step),
         UNCHANGED <<saved, sysUsers, opened>>,
         \/ step = "install" /\ job[c].at = "validate" /\ conf' = conf
         \/ step = "include" /\ conf' = Generate(job[c].draft)
         \/ Writing(c) /\ step \in {"reload", "save"} /\ conf' = conf
  PROVE  Opened(saved)' /\ (breaks = 0 => Applied)' /\ \A d \in Clients : OnTheWay(d)'
  <1>1. OnTheWay(c) /\ job[c].at # "idle"
    BY DEF CommitInv, Commit
  <1>2. OnTheWay(c)'
    BY <1>1, GoesOnAlone DEF OnTheWay, Writing, Commit, EntriesOf
  <1>3. (breaks = 0 => Applied)'
    <2>1. CASE step = "install"
      <3>1. \A d \in Clients : ~Writing(d)
        BY <1>1, <2>1, GoesOnAlone DEF Writing
      <3>2. conf' = conf
        BY <2>1
      <3> QED BY <1>1, <3>1, <3>2, GoesOnAlone DEF CommitInv, Applied
    <2>2. CASE step # "install"
      <3>1. Writing(c)'
        BY <1>1, <2>2, GoesOnAlone DEF Writing
      <3> QED BY <3>1 DEF Applied
    <2> QED BY <2>1, <2>2
  <1>4. Opened(saved)'
    BY DEF CommitInv, Opened
  <1> QED BY <1>1, <1>2, <1>3, <1>4, GoesOnAlone

LEMMA WorkIsOnTheWay ==
  ASSUME CommitInv, NEW c \in Clients, Work(c)
  PROVE  Opened(saved)' /\ (breaks = 0 => Applied)' /\ \A d \in Clients : OnTheWay(d)'
  <1> USE DEF At, Commit, smbFiles, accounts
  <1>0. OnTheWay(c) /\ Ahead(c) /\ Opened(saved)
    BY DEF CommitInv, MembersInv
  <1>1. CASE CommandFails(c) \/ NoPassword(c) \/ NoMembers(c) \/ Refuse(c)
    BY <1>1, EndsUnwritten DEF CommandFails, NoPassword, NoMembers, Refuse, Refusal, Writing
  <1>2. CASE UserAdd(c) \/ SmbDel(c) \/ GroupAdd(c)
    BY <1>2, CommandIsOnTheWay DEF UserAdd, SmbDel, GroupAdd
  <1>3. CASE SetPassword(c) \/ SetMembers(c)
    <2>1. CASE End(c)
      BY <1>3, <2>1, EndsUnwritten DEF SetPassword, SetMembers, Writing, Continues, Goes
    <2>2. CASE Goes(c, "validate")
      <3>1. saved.users \subseteq job[c].draft.users
        BY <1>0, <1>3 DEF Ahead, SetPassword, SetMembers
      <3> QED BY <1>3, <2>2, <3>1, CommandIsOnTheWay DEF SetPassword, SetMembers
    <2> QED BY <1>3, <2>1, <2>2 DEF SetPassword, SetMembers, Continues
  <1>4. CASE UserDel(c)
    BY <1>0, <1>4, CommandIsOnTheWay DEF UserDel, Ahead
  <1>5. CASE GroupDel(c) \/ OpenDirectory(c)
    BY <1>0, <1>5, CommandIsOnTheWay DEF GroupDel, OpenDirectory, Ahead
  <1>6. CASE Validate(c) \/ Install(c)
    BY <1>6, CommitIsOnTheWay DEF Validate, Install
  <1>7. CASE IncludeStays(c) \/ AddInclude(c) \/ Reload(c)
    BY <1>7, CommitIsOnTheWay DEF IncludeStays, AddInclude, Reload, Writing
  <1>8. CASE KeepOriginal(c)
    BY <1>8 DEF KeepOriginal, CommitInv, Opened, Applied, OnTheWay, Writing, EntriesOf
  <1>9. CASE SaveState(c)
    <2>1. job[c].at = "save" /\ job[c].at # "idle" /\ saved' = job[c].draft
          /\ UNCHANGED <<conf, opened, breaks>> /\ End(c)
      BY <1>9 DEF SaveState
    <2>2. conf' = Generate(saved')
      BY <1>0, <2>1 DEF OnTheWay, Writing
    <2>3. Opened(saved)'
      BY <1>0, <2>1 DEF OnTheWay, Opened
    <2>4. Applied'
      BY <2>2 DEF Applied
    <2> QED BY <2>1, <2>3, <2>4, EndsAlone
  <1> QED BY <1>1, <1>2, <1>3, <1>4, <1>5, <1>6, <1>7, <1>8, <1>9 DEF Work

LEMMA BreakIsOnTheWay ==
  ASSUME CommitInv,
         \/ \E c \in Clients : NoSpace(c)
         \/ RestartService \/ CrashHost \/ RestartSamba
  PROVE  Opened(saved)' /\ (breaks = 0 => Applied)' /\ \A d \in Clients : OnTheWay(d)'
  <1> USE DEF smbFiles, accounts
  <1>0. Opened(saved) /\ breaks \in Nat
    BY AdminAssumption DEF CommitInv, MembersInv, TypeInv, TypeOK
  <1>1. ASSUME NEW kind, Breaks(kind) PROVE breaks' # 0
    BY <1>0, <1>1 DEF Breaks
  <1>2. CASE \E c \in Clients : NoSpace(c)
    <2> PICK c \in Clients : NoSpace(c)
      BY <1>2
    <2>1. job[c].at # "idle" /\ End(c) /\ breaks' # 0 /\ UNCHANGED <<saved, opened>>
      BY <1>1 DEF NoSpace
    <2> QED BY <1>0, <2>1, EndsAlone DEF Opened
  <1>3. CASE RestartService \/ CrashHost
    <2>1. Stops /\ breaks' # 0 /\ UNCHANGED <<saved, opened>>
      BY <1>1, <1>3 DEF RestartService, CrashHost
    <2>2. \A d \in Clients : job'[d].at = "idle"
      BY <2>1 DEF Stops, Idle
    <2> QED BY <1>0, <2>1, <2>2 DEF Opened, OnTheWay
  <1>4. CASE RestartSamba
    BY <1>4 DEF RestartSamba, CommitInv, Opened, Applied, OnTheWay, Writing, EntriesOf
  <1> QED BY <1>2, <1>3, <1>4

LEMMA NextCommitInv == CommitInv /\ [Next]_vars => CommitInv'
  <1> SUFFICES ASSUME CommitInv, [Next]_vars PROVE CommitInv'
    OBVIOUS
  <1>1. MembersInv'
    BY NextMembersInv DEF CommitInv
  <1>2. Opened(saved)' /\ (breaks = 0 => Applied)' /\ \A d \in Clients : OnTheWay(d)'
    <2>1. CASE Next
      BY <2>1, RequestIsOnTheWay, WorkIsOnTheWay, BreakIsOnTheWay DEF Next
    <2>2. CASE UNCHANGED vars
      BY <2>2 DEF vars, smbFiles, accounts, CommitInv, Opened, Applied, OnTheWay, Writing, EntriesOf
    <2> QED BY <2>1, <2>2
  <1> QED BY <1>1, <1>2 DEF CommitInv

(* With nothing cut short and nothing under way, the generated file is the *)
(* saved state's, for any requests, refusals and failed commands before.   *)
THEOREM ConfIsStateHolds == Spec => []ConfIsState
  <1>1. CommitInv => ConfIsState
    BY DEF CommitInv, Applied, ConfIsState, Quiet, Writing, Idle
  <1> QED BY <1>1, InitCommitInv, NextCommitInv, PTL DEF Spec

\* What smbd makes of the section of a share is what the README promises of it.
LEMMA SectionServes ==
  ASSUME NEW s \in Share, NEW u \in Users, NEW groups \in [Groups -> SUBSET Users]
  PROVE  /\ MayRead(Section(s), u, groups) <=> Readable(s, u, groups)
         /\ MayWrite(Section(s), u, groups) <=> Writable(s, u, groups)
  <1> DEFINE sec == Section(s)
             some == Entities(s, {"read", "write"})
             writing == Entities(s, {"write"})
  <1>1. /\ sec.enabled = s.exported
        /\ sec.guest <=> s.security # "private"
        /\ sec.open <=> s.security = "public"
        /\ sec.nobody <=> s.security = "private" /\ some = {}
        /\ s.security = "private" => sec.valid = some
        /\ s.security # "public" => sec.writers = writing
    BY DEF Section, DeniesAll
  <1>2. /\ some \subseteq Accounts /\ writing \subseteq some
        /\ Listed(u, some, groups) <=> Granted(s, u, groups, {"read", "write"})
        /\ Listed(u, writing, groups) <=> Granted(s, u, groups, {"write"})
        /\ Listed(u, some, groups) => some # {}
        /\ Listed(u, writing, groups) => Listed(u, some, groups)
    BY DEF Entities, Listed, Granted, Accounts
  <1>3. s.security \in {"public", "secure", "private"} /\ s.exported \in BOOLEAN
    BY DEF Share, Security
  <1> HIDE DEF sec, some, writing
  <1>4. MayRead(sec, u, groups) <=> Readable(s, u, groups)
    BY <1>1, <1>2, <1>3 DEF MayRead, Readable
  <1>5. MayWrite(sec, u, groups) <=> Writable(s, u, groups)
    BY <1>1, <1>2, <1>3, <1>4 DEF MayWrite, Readable, Writable
  <1> QED BY <1>4, <1>5 DEF sec

(* With nothing cut short and nothing under way, every user reads and      *)
(* writes exactly what the matrix and the security of the shares say, for  *)
(* any shares, accounts, memberships and grants, and every directory that  *)
(* is shared has been opened.                                              *)
THEOREM MatrixIsServedHolds == Spec => []MatrixIsServed
  <1>1. CommitInv => MatrixIsServed
    <2> SUFFICES ASSUME CommitInv, Quiet, breaks = 0, NEW s \in saved.shares, NEW u \in Users
                 PROVE  \E sec \in conf.sections :
                          /\ sec.name = s.name /\ sec.path \in opened
                          /\ MayRead(sec, u, members) <=> Readable(s, u, members)
                          /\ MayWrite(sec, u, members) <=> Writable(s, u, members)
      BY DEF MatrixIsServed
    <2>1. s \in Share /\ members \in [Groups -> SUBSET Users] /\ s.path \in opened
      BY DEF CommitInv, MembersInv, TypeInv, TypeOK, State, Opened
    <2>2. conf = Generate(saved)
      BY DEF CommitInv, Applied, Quiet, Writing, Idle, Fresh
    <2>3. Section(s) \in conf.sections
      BY <2>2 DEF Generate
    <2>4. Section(s).name = s.name /\ Section(s).path = s.path
      BY DEF Section
    <2> QED BY <2>1, <2>3, <2>4, SectionServes
  <1> QED BY <1>1, InitCommitInv, NextCommitInv, PTL DEF Spec

\* state.json changes in one place, and only by the draft of a request.
LEMMA SavedByDraft ==
  ASSUME [Next]_vars, saved' # saved
  PROVE  \E c \in Clients : SaveState(c)
  <1>1. ASSUME NEW c \in Clients, Request(c) PROVE UNCHANGED saved
    BY <1>1 DEF Request, CreateShare, UpdateShare, DeleteShare, CreateUser, DeleteUser,
                UpdateUser, CreateGroup, UpdateGroup, DeleteGroup, UpdateSettings, Ask, Accept
  <1>2. ASSUME NEW c \in Clients, Work(c), ~SaveState(c) PROVE UNCHANGED saved
    BY <1>2 DEF Work, CommandFails, UserAdd, SetPassword, NoPassword, SmbDel, UserDel, GroupAdd,
                SetMembers, NoMembers, GroupDel, OpenDirectory, Validate, Refuse, Install,
                IncludeStays, KeepOriginal, AddInclude, Reload
  <1> QED BY <1>1, <1>2
          DEF Next, vars, NoSpace, RestartSamba, RestartService, CrashHost

(* A user leaves state.json only with the system account and with every    *)
(* grant, in state.json and in the generated file, however often a         *)
(* deletion was cut short before.                                          *)
THEOREM DeletedMeansRevokedHolds == Spec => DeletedMeansRevoked
  <1> DEFINE Revoked ==
        \A u \in saved.users \ saved'.users :
          /\ u \notin sysUsers'
          /\ \A s \in saved'.shares : s.access[u] = "no"
          /\ \A sec \in conf'.sections : u \notin sec.valid \cup sec.writers
  <1>1. CommitInv /\ [Next]_vars => Revoked
    <2> SUFFICES ASSUME CommitInv, [Next]_vars, saved' # saved PROVE Revoked
      OBVIOUS
    <2> PICK c \in Clients : SaveState(c)
      BY SavedByDraft
    <2>1. job[c].at = "save" /\ saved' = job[c].draft /\ UNCHANGED <<conf, sysUsers>>
      BY DEF SaveState, At, smbFiles, accounts
    <2>2. /\ conf' = Generate(saved')
          /\ \A u \in saved.users \ saved'.users :
               u \notin sysUsers' /\ \A s \in saved'.shares : s.access[u] = "no"
      BY <2>1 DEF CommitInv, OnTheWay, Writing, Commit
    <2>3. ASSUME NEW u, NEW s, s.access[u] = "no"
          PROVE  u \notin Section(s).valid \cup Section(s).writers
      BY <2>3 DEF Section, Entities
    <2>4. conf'.sections = {Section(s) : s \in saved'.shares}
      BY <2>2 DEF Generate
    <2> QED BY <2>2, <2>3, <2>4
  <1>2. CommitInv /\ [Next]_vars => [Revoked]_vars
    BY <1>1
  <1> QED BY <1>2, InitCommitInv, NextCommitInv, PTL DEF Spec, DeletedMeansRevoked

(* A request drops no user, group or share from state.json but the one it  *)
(* was asked to delete, for any number of requests at a time.              *)
THEOREM NothingLostHolds == Spec => NothingLost
  <1> DEFINE Kept ==
        \A c \in Clients : At(c, "save") /\ ~At(c, "save")' =>
          EntriesOf(saved) \ EntriesOf(saved)' \subseteq {job[c].on}
  <1>1. CommitInv /\ [Next]_vars => Kept
    <2> SUFFICES ASSUME CommitInv, [Next]_vars, NEW c \in Clients, At(c, "save")
                 PROVE  EntriesOf(saved) \ EntriesOf(saved)' \subseteq {job[c].on}
      OBVIOUS
    <2>1. CASE saved' = saved
      BY <2>1 DEF EntriesOf
    <2>2. CASE saved' # saved
      <3> PICK d \in Clients : SaveState(d)
        BY <2>2, SavedByDraft
      <3>1. d = c
        BY Alone DEF SaveState, At
      <3>2. EntriesOf(saved) \ EntriesOf(job[c].draft) \subseteq {job[c].on}
        BY DEF At, CommitInv, OnTheWay
      <3> QED BY <3>1, <3>2 DEF SaveState, EntriesOf
    <2> QED BY <2>1, <2>2
  <1>2. CommitInv /\ [Next]_vars => [Kept]_vars
    BY <1>1
  <1> QED BY <1>2, InitCommitInv, NextCommitInv, PTL DEF Spec, NothingLost

-----------------------------------------------------------------------------
(* The administrator's smb.conf                                            *)

\* Half a file is there only after something was cut short.
CutInv == TypeInv /\ ("cut" \in {master, backup} => breaks > 0)

LEMMA NextCutInv == CutInv /\ [Next]_vars => CutInv'
  <1> SUFFICES ASSUME CutInv, [Next]_vars PROVE CutInv'
    OBVIOUS
  <1> USE DEF smbFiles
  <1>0. TypeInv' /\ breaks \in Nat /\ ("cut" \in {master, backup} => breaks > 0)
    BY NextTypeInv, AdminAssumption DEF CutInv, TypeInv, TypeOK
  <1>1. ASSUME NEW kind, Breaks(kind) PROVE CutInv'
    BY <1>0, <1>1 DEF Breaks, CutInv
  <1>2. ASSUME UNCHANGED <<master, backup, breaks>> PROVE CutInv'
    BY <1>0, <1>2 DEF CutInv
  <1>3. ASSUME NEW c \in Clients, Request(c) PROVE CutInv'
    BY <1>2, <1>3 DEF Request, CreateShare, UpdateShare, DeleteShare, CreateUser, DeleteUser,
                UpdateUser, CreateGroup, UpdateGroup, DeleteGroup, UpdateSettings, Ask, Accept
  <1>4. ASSUME NEW c \in Clients, Work(c) PROVE CutInv'
    <2>1. CASE KeepOriginal(c)
      BY <1>0, <2>1 DEF KeepOriginal, CutInv
    <2>2. CASE AddInclude(c)
      BY <1>0, <2>2 DEF AddInclude, Goes, CutInv
    <2>3. CASE ~KeepOriginal(c) /\ ~AddInclude(c)
      BY <1>2, <1>4, <2>3
         DEF Work, CommandFails, UserAdd, SetPassword, NoPassword, SmbDel, UserDel, GroupAdd,
             SetMembers, NoMembers, GroupDel, OpenDirectory, Validate, Refuse, Install,
             IncludeStays, Reload, SaveState, Goes, Continues
    <2> QED BY <2>1, <2>2, <2>3
  <1>5. CASE \E c \in Clients : NoSpace(c)
    BY <1>1, <1>5 DEF NoSpace
  <1>6. CASE RestartService \/ CrashHost
    BY <1>1, <1>6 DEF RestartService, CrashHost
  <1>7. CASE RestartSamba
    BY <1>2, <1>7 DEF RestartSamba
  <1>8. CASE UNCHANGED vars
    BY <1>2, <1>8 DEF vars
  <1> QED BY <1>3, <1>4, <1>5, <1>6, <1>7, <1>8 DEF Next

(* The administrator's own smb.conf survives one write cut short at any    *)
(* point, in place or as the backup, whatever failed before without being  *)
(* cut short.                                                              *)
THEOREM OriginalKeptHolds == Spec => OriginalKept
  <1> DEFINE Kept == OriginalThere /\ breaks' <= 1 => OriginalThere'
  <1>1. CutInv /\ [Next]_vars => Kept
    <2> SUFFICES ASSUME CutInv, [Next]_vars, OriginalThere, breaks' <= 1 PROVE OriginalThere'
      OBVIOUS
    <2> USE DEF smbFiles, OriginalThere
    <2>0. breaks \in Nat /\ ("cut" \in {master, backup} => breaks > 0)
          /\ backup \in {"none", "own", "stray", "cut"}
      BY AdminAssumption DEF CutInv, TypeInv, TypeOK
    <2>1. ASSUME UNCHANGED <<master, backup>> PROVE OriginalThere'
      BY <2>1
    <2>2. ASSUME NEW c \in Clients, Torn(c), NEW kind, Breaks(kind) PROVE OriginalThere'
      <3>1. breaks = 0 /\ backup # "cut"
        BY <2>0, <2>2 DEF Breaks
      <3> QED BY <2>0, <2>2, <3>1 DEF Torn, WantsBackup, Included
    <2>3. ASSUME NEW c \in Clients, Request(c) PROVE OriginalThere'
      BY <2>1, <2>3 DEF Request, CreateShare, UpdateShare, DeleteShare, CreateUser, DeleteUser,
                  UpdateUser, CreateGroup, UpdateGroup, DeleteGroup, UpdateSettings, Ask, Accept
    <2>4. ASSUME NEW c \in Clients, Work(c) PROVE OriginalThere'
      <3>1. CASE KeepOriginal(c)
        BY <3>1 DEF KeepOriginal, WantsBackup, Included
      <3>2. CASE AddInclude(c)
        BY <3>2 DEF AddInclude, Included
      <3>3. CASE ~KeepOriginal(c) /\ ~AddInclude(c)
        BY <2>1, <2>4, <3>3
           DEF Work, CommandFails, UserAdd, SetPassword, NoPassword, SmbDel, UserDel, GroupAdd,
               SetMembers, NoMembers, GroupDel, OpenDirectory, Validate, Refuse, Install,
               IncludeStays, Reload, SaveState
      <3> QED BY <3>1, <3>2, <3>3
    <2>5. CASE \E c \in Clients : NoSpace(c)
      BY <2>2, <2>5 DEF NoSpace
    <2>6. CASE RestartService \/ CrashHost
      BY <2>2, <2>6 DEF RestartService, CrashHost
    <2>7. CASE RestartSamba
      BY <2>1, <2>7 DEF RestartSamba
    <2>8. CASE UNCHANGED vars
      BY <2>1, <2>8 DEF vars
    <2> QED BY <2>3, <2>4, <2>5, <2>6, <2>7, <2>8 DEF Next
  <1>2. Init => CutInv
    BY InitTypeInv, AdminAssumption DEF Init, CutInv
  <1>3. CutInv /\ [Next]_vars => [Kept]_vars
    BY <1>1
  <1> QED BY <1>2, <1>3, NextCutInv, PTL DEF Spec, OriginalKept
=============================================================================
