------------------------------- MODULE SignIn -------------------------------
(***************************************************************************)
(* core/auth.py and core/loginguard.py: sign-in requests on the worker     *)
(* threads of one process, the failure counters they share under a lock,   *)
(* and the session table they share without one.                           *)
(*                                                                         *)
(* An attempt is a sequence of steps: retry_after, the password check      *)
(* (PAM, which takes seconds), record_failure or record_success, and, when *)
(* the password was right, the sweep of the session table and the new      *)
(* session.  Each loginguard call holds its lock throughout and is one     *)
(* step, with the reading of the clock just before it.                     *)
(***************************************************************************)
EXTENDS Integers, FiniteSets

CONSTANTS
  Threads,                 \* worker threads
  Addresses, Users,
  NoAddress, NoUser,       \* of a thread that serves no sign-in
  FREE_ATTEMPTS, FIRST_LOCKOUT, MAX_LOCKOUT, FORGET_AFTER, SESSION_TTL,
  MaxTime, MaxSessions     \* bounds of the model

ASSUME SignInAssumption ==
  /\ IsFiniteSet(Threads) /\ Threads # {}
  /\ NoAddress \notin Addresses /\ NoUser \notin Users
  /\ FREE_ATTEMPTS \in Nat /\ SESSION_TTL \in Nat
  /\ FIRST_LOCKOUT \in Nat \ {0} /\ MAX_LOCKOUT \in Nat \ {0}
  /\ FORGET_AFTER \in Nat /\ FORGET_AFTER >= MAX_LOCKOUT
  /\ MaxTime \in Nat /\ MaxSessions \in Nat

VARIABLES
  now,        \* time.time()
  failures,   \* _failures
  sessions,   \* _sessions: token -> when it expires
  attempt,    \* where each worker thread is in login()
  given,      \* how many tokens were handed out
  late,       \* observes: verdicts on a key while it was barred, in a row
  ended       \* observes: the tokens that were logged out

vars == <<now, failures, sessions, attempt, given, late, ended>>

_keys(a, u) == {<<a, u>>, <<a>>}

Keys == UNION {_keys(a, u) : a \in Addresses, u \in Users}

Tokens == 1..MaxSessions

\* Where a thread is in login(): whose password it checks; how large the
\* session table was, and what time, when it began to sweep.
Place(step, a, u, n, clock) ==
  [at |-> step, address |-> a, user |-> u, size |-> n, clock |-> clock]

Idle == Place("idle", NoAddress, NoUser, 0, 0)

Init ==
  /\ now = 0 /\ given = 0
  /\ failures = [k \in {} |-> 0]
  /\ sessions = [x \in {} |-> 0]
  /\ attempt = [t \in Threads |-> Idle]
  /\ late = [k \in Keys |-> 0] /\ ended = {}

-----------------------------------------------------------------------------
(* core/loginguard.py *)

\* Fault: the lockout is not capped.
LockoutUncapped(count) ==
  IF count <= FREE_ATTEMPTS THEN 0 ELSE FIRST_LOCKOUT * 2 ^ (count - FREE_ATTEMPTS - 1)

_lockout_for(count) ==
  LET doubled == FIRST_LOCKOUT * 2 ^ (count - FREE_ATTEMPTS - 1)
  IN IF count <= FREE_ATTEMPTS THEN 0
     ELSE IF doubled \in 0..MAX_LOCKOUT THEN doubled ELSE MAX_LOCKOUT

\* The keys _forget_stale leaves.
Kept(f) == {k \in DOMAIN f : f[k].seen + FORGET_AFTER >= now}

Only(f, S) == [k \in S |-> f[k]]

\* Fault: the counter of the address does not make anybody wait.
BarredByPair(a, u) ==
  <<a, u>> \in Kept(failures) /\ failures[<<a, u>>].until > now

Barred(a, u) == \E k \in _keys(a, u) \cap Kept(failures) : failures[k].until > now

\* The entry of k after one more failure.
Counted(k) ==
  LET old == IF k \in Kept(failures) THEN failures[k] ELSE [count |-> 0, until |-> 0, seen |-> now]
      bar == _lockout_for(old.count + 1)
  IN [count |-> old.count + 1, seen |-> now,
      until |-> IF bar > 0 THEN now + bar ELSE old.until]

-----------------------------------------------------------------------------
(* login() *)

At(t, step) == attempt[t].at = step
Goes(t, place) == attempt' = [attempt EXCEPT ![t] = place]
Ends(t) == Goes(t, Idle)

\* retry_after: refused, or on to the password check.
Check(t, a, u) ==
  /\ At(t, "idle")
  /\ failures' = Only(failures, Kept(failures))
  /\ IF Barred(a, u) THEN UNCHANGED attempt ELSE Goes(t, Place("verify", a, u, 0, 0))
  /\ UNCHANGED <<now, sessions, given, late, ended>>

\* PNAS_ADMIN_USERS and PAM say what they say.
Verify(t) ==
  /\ At(t, "verify")
  /\ \E verdict \in {"wrong", "right"} :
       Goes(t, Place(verdict, attempt[t].address, attempt[t].user, 0, 0))
  /\ UNCHANGED <<now, failures, sessions, given, late, ended>>

RecordFailure(t) ==
  LET keys == _keys(attempt[t].address, attempt[t].user)
      kept == Kept(failures)
  IN /\ At(t, "wrong")
     /\ failures' = [k \in kept \cup keys |-> IF k \in keys THEN Counted(k) ELSE failures[k]]
     /\ late' = [k \in Keys |->
          IF k \notin keys THEN late[k]
          ELSE IF k \in kept /\ failures[k].until > now THEN late[k] + 1 ELSE 0]
     /\ Ends(t)
     /\ UNCHANGED <<now, sessions, given, ended>>

RecordSuccess(t) ==
  /\ At(t, "right")
  /\ failures' = Only(failures, Kept(failures) \ _keys(attempt[t].address, attempt[t].user))
  /\ Goes(t, Place("sweep", NoAddress, NoUser, 0, 0))
  /\ UNCHANGED <<now, sessions, given, late, ended>>

\* _purge_expired_sessions reads the clock and starts to walk the table.
BeginSweep(t) ==
  /\ At(t, "sweep")
  /\ Goes(t, Place("walk", NoAddress, NoUser, Cardinality(DOMAIN sessions), now))
  /\ UNCHANGED <<now, failures, sessions, given, late, ended>>

\* A table that has another size than at the start makes the walk raise: the
\* request ends with an error, the failures stay forgotten.
SweepRaises(t) ==
  /\ At(t, "walk")
  /\ Cardinality(DOMAIN sessions) # attempt[t].size
  /\ Ends(t)
  /\ UNCHANGED <<now, failures, sessions, given, late, ended>>

\* The tokens the walk leaves.
Unexpired(t) == {x \in DOMAIN sessions : sessions[x] >= attempt[t].clock}

Purge(t) ==
  /\ At(t, "walk")
  /\ Cardinality(DOMAIN sessions) = attempt[t].size
  /\ sessions' = Only(sessions, Unexpired(t))
  /\ Goes(t, Place("open", NoAddress, NoUser, 0, 0))
  /\ UNCHANGED <<now, failures, given, late, ended>>

Open(t) ==
  /\ At(t, "open") /\ given < MaxSessions
  /\ given' = given + 1
  /\ sessions' = [x \in DOMAIN sessions \cup {given'} |->
                    IF x = given' THEN now + SESSION_TTL ELSE sessions[x]]
  /\ Ends(t)
  /\ UNCHANGED <<now, failures, late, ended>>

-----------------------------------------------------------------------------
(* The other requests, time, and the service *)

\* Fault: the comparison is with the time the session was opened.
OutlivedAtOnce(x) == sessions[x] - SESSION_TTL < now

Outlived(x) == sessions[x] < now

\* current_user, with the cookie of any sign-in so far: a session that lasts
\* is served and nothing changes, one that does not is dropped.
Use(x) ==
  /\ x \in DOMAIN sessions /\ Outlived(x)
  /\ sessions' = Only(sessions, DOMAIN sessions \ {x})
  /\ UNCHANGED <<now, failures, attempt, given, late, ended>>

Logout(x) ==
  /\ x \in 1..given \ ended
  /\ sessions' = Only(sessions, DOMAIN sessions \ {x})
  /\ ended' = ended \cup {x}
  /\ UNCHANGED <<now, failures, attempt, given, late>>

Tick ==
  /\ now < MaxTime
  /\ now' = now + 1
  /\ UNCHANGED <<failures, sessions, attempt, given, late, ended>>

\* Both tables live in memory.
Restart ==
  /\ failures' = [k \in {} |-> 0] /\ sessions' = [x \in {} |-> 0]
  /\ attempt' = [t \in Threads |-> Idle]
  /\ late' = [k \in Keys |-> 0]
  /\ UNCHANGED <<now, given, ended>>

Login(t) ==
  \/ \E a \in Addresses, u \in Users : Check(t, a, u)
  \/ Verify(t) \/ RecordFailure(t) \/ RecordSuccess(t)
  \/ BeginSweep(t) \/ SweepRaises(t) \/ Purge(t) \/ Open(t)

Next ==
  \/ \E t \in Threads : Login(t)
  \/ \E x \in Tokens : Use(x) \/ Logout(x)
  \/ Tick \/ Restart

Spec == Init /\ [][Next]_vars

-----------------------------------------------------------------------------
(* What signing in promises *)

Stages == {"idle", "verify", "wrong", "right", "sweep", "walk", "open"}

(* The tables hold what the code puts there, and no counter bars a key for *)
(* longer than MAX_LOCKOUT (loginguard.py:44-47).                          *)
SignInTypeOK ==
  /\ now \in 0..MaxTime /\ given \in 0..MaxSessions
  /\ DOMAIN failures \subseteq Keys
  /\ \A k \in DOMAIN failures : /\ failures[k].count \in Nat \ {0}
                                /\ failures[k].seen \in 0..now
                                /\ failures[k].until \in 0..(failures[k].seen + MAX_LOCKOUT)
  /\ DOMAIN sessions \subseteq 1..given
  /\ \A x \in DOMAIN sessions : sessions[x] \in SESSION_TTL..(now + SESSION_TTL)
  /\ DOMAIN attempt = Threads
  /\ \A t \in Threads : attempt[t].at \in Stages /\ attempt[t].clock \in 0..now
  /\ late \in [Keys -> Nat] /\ ended \subseteq 1..given

(* However many sign-ins run at the same time, at most one verdict of each *)
(* other thread falls on a key after it was barred: only attempts that had *)
(* passed retry_after before (auth.py, login: the check runs before PAM).  *)
OverrunBound == \A k \in Keys : late[k] < Cardinality(Threads)

(* What the code's tables stand for, as Access counts it.                  *)
Left(stamp) == IF stamp >= now THEN stamp - now + 1 ELSE 0

Remembered(k) == k \in DOMAIN failures /\ failures[k].seen + FORGET_AFTER >= now

StreakOf(k) == IF Remembered(k) THEN failures[k].count ELSE 0
MemoryOf(k) == IF Remembered(k) THEN Left(failures[k].seen + FORGET_AFTER) ELSE 0
WaitOf(k)   == IF k \in DOMAIN failures THEN Left(failures[k].until - 1) ELSE 0
LiveOf(x)   == IF x \in DOMAIN sessions THEN Left(sessions[x]) ELSE 0
TryingOf(t) ==
  IF At(t, "idle") THEN <<>>
  ELSE IF attempt[t].at \in {"verify", "wrong", "right"}
       THEN <<attempt[t].address, attempt[t].user>> ELSE <<"right">>

Promise == INSTANCE Access WITH
  Subjects    <- Addresses \X Users,
  KeysOf      <- LAMBDA s : _keys(s[1], s[2]),
  Lockout     <- _lockout_for,
  ForgetAfter <- FORGET_AFTER,
  SessionTTL  <- SESSION_TTL,
  streak <- [k \in Keys |-> StreakOf(k)],
  memory <- [k \in Keys |-> MemoryOf(k)],
  wait   <- [k \in Keys |-> WaitOf(k)],
  trying <- [t \in Threads |-> TryingOf(t)],
  live   <- [x \in Tokens |-> LiveOf(x)]

(* The counters, cleaned up lazily and compared with absolute times, and   *)
(* the session table, purged at sign-in only, do what Access says: nothing *)
(* is forgotten early or late, no lockout is cut short except by a right   *)
(* password already past the check, no session ends before its time or     *)
(* outlives it.                                                            *)
ImplementsAccess == Promise!Spec
=============================================================================
