------------------------------ MODULE SmbConf ------------------------------
(***************************************************************************)
(* What sambaconf.generate writes for a share, what Samba makes of it, and *)
(* what the README promises of the three kinds of security.                *)
(*                                                                         *)
(* The access matrix of a share is a function from every account to a      *)
(* level; "no" stands for an account without an entry.                     *)
(***************************************************************************)
CONSTANTS
  Users, Groups,  \* account names the GUI may manage
  Settings        \* values of the [global] section

Accounts == Users \cup Groups
Levels   == {"no", "read", "write"}
Matrix   == [Accounts -> Levels]
Security == {"public", "secure", "private"}

ASSUME NamesAssumption == Users \cap Groups = {}

\* State(), before anything is saved.
Fresh(settings) == [users |-> {}, groups |-> {}, shares |-> {}, settings |-> settings]

-----------------------------------------------------------------------------
(* generate *)

Entities(s, levels) == {a \in Accounts : s.access[a] \in levels}

\* Fault: a private share that nobody is granted gets no line of its own.
DeniesAllNever(s) == FALSE

\* "invalid users = *".
DeniesAll(s) == s.security = "private" /\ Entities(s, {"read", "write"}) = {}

Section(s) ==
  [name    |-> s.name,
   path    |-> s.path,
   enabled |-> s.exported,
   guest   |-> s.security # "private",
   open    |-> s.security = "public",
   valid   |-> IF s.security = "private" THEN Entities(s, {"read", "write"}) ELSE {},
   writers |-> IF s.security = "public" THEN {} ELSE Entities(s, {"write"}),
   nobody  |-> DeniesAll(s)]

\* The generated file: one section per share, below [global].
Generate(st) == [global |-> st.settings, sections |-> {Section(s) : s \in st.shares}]

-----------------------------------------------------------------------------
(* What smbd makes of a section.  members gives the users of each group.   *)

Listed(user, entries, members) ==
  \/ user \in entries
  \/ \E g \in entries \cap Groups : user \in members[g]

\* An empty "valid users" lets every authenticated user in.
MayRead(sec, user, members) ==
  /\ sec.enabled /\ ~sec.nobody
  /\ sec.guest \/ sec.valid = {} \/ Listed(user, sec.valid, members)

MayWrite(sec, user, members) ==
  /\ MayRead(sec, user, members)
  /\ sec.open \/ Listed(user, sec.writers, members)

-----------------------------------------------------------------------------
(* What the README promises of a share.                                    *)

Granted(s, user, members, levels) ==
  \/ s.access[user] \in levels
  \/ \E g \in Groups : user \in members[g] /\ s.access[g] \in levels

Readable(s, user, members) ==
  /\ s.exported
  /\ s.security = "private" => Granted(s, user, members, {"read", "write"})

Writable(s, user, members) ==
  /\ s.exported
  /\ s.security # "public" => Granted(s, user, members, {"write"})
=============================================================================
