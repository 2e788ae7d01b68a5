---------------------------- MODULE SignInProofs ----------------------------
(***************************************************************************)
(* SignIn implements Access, for any accounts, addresses, threads, lockouts*)
(* and times.                                                              *)
(***************************************************************************)
EXTENDS SignIn, FiniteSetTheorems, TLAPS

Sizes == {0} \cup {Cardinality(S) : S \in SUBSET Tokens}

Attempts == [at : Stages, address : Addresses \cup {NoAddress}, user : Users \cup {NoUser},
             size : Sizes, clock : 0..MaxTime]

\* A verdict is about somebody.
Judged == \A t \in Threads : attempt[t].at \in {"verify", "wrong", "right"} =>
            attempt[t].address \in Addresses /\ attempt[t].user \in Users

TypeInv == SignInTypeOK /\ attempt \in [Threads -> Attempts] /\ Judged

-----------------------------------------------------------------------------
LEMMA KeysKnown ==
  ASSUME NEW a \in Addresses, NEW u \in Users PROVE _keys(a, u) \subseteq Keys
  BY DEF Keys

LEMMA LockoutRange ==
  ASSUME NEW n \in Nat PROVE _lockout_for(n) \in 0..MAX_LOCKOUT
  BY SignInAssumption, SMT DEF _lockout_for

\* What one more failure makes of a counter.
LEMMA CountedTyped ==
  ASSUME SignInTypeOK, NEW k \in Keys
  PROVE  /\ Counted(k).count \in Nat \ {0} /\ Counted(k).seen = now
         /\ Counted(k).until \in 0..(now + MAX_LOCKOUT)
         /\ Counted(k).count = StreakOf(k) + 1
  <1> DEFINE old == IF k \in Kept(failures) THEN failures[k] ELSE [count |-> 0, until |-> 0, seen |-> now]
  <1>1. /\ old.count \in Nat /\ old.until \in 0..(now + MAX_LOCKOUT)
        /\ old.count = StreakOf(k)
    BY SignInAssumption, SMT DEF SignInTypeOK, Kept, StreakOf, Remembered
  <1>2. _lockout_for(old.count + 1) \in 0..MAX_LOCKOUT
    BY <1>1, LockoutRange, SMT
  <1> QED BY <1>1, <1>2, SignInAssumption, SMT DEF Counted, SignInTypeOK

-----------------------------------------------------------------------------
(* Types *)

LEMMA PlaceTyped ==
  ASSUME NEW step \in Stages, NEW a \in Addresses \cup {NoAddress}, NEW u \in Users \cup {NoUser},
         NEW n \in Sizes, NEW clock \in 0..MaxTime
  PROVE  /\ Place(step, a, u, n, clock) \in Attempts
         /\ Place(step, a, u, n, clock).at = step
         /\ Place(step, a, u, n, clock).address = a
         /\ Place(step, a, u, n, clock).user = u
         /\ Place(step, a, u, n, clock).clock = clock
  BY SMT DEF Place, Attempts

LEMMA GoesTyped ==
  ASSUME TypeInv, NEW t \in Threads, now' = now,
         NEW step \in Stages, NEW a \in Addresses \cup {NoAddress}, NEW u \in Users \cup {NoUser},
         NEW n \in Sizes, NEW clock \in 0..now,
         step \in {"verify", "wrong", "right"} => a \in Addresses /\ u \in Users,
         Goes(t, Place(step, a, u, n, clock))
  PROVE  /\ attempt' \in [Threads -> Attempts] /\ Judged'
         /\ DOMAIN attempt' = Threads
         /\ \A x \in Threads : attempt'[x].at \in Stages /\ attempt'[x].clock \in 0..now'
  <1>1. clock \in 0..MaxTime
    BY SignInAssumption, SMT DEF TypeInv, SignInTypeOK
  <1>2. attempt' \in [Threads -> Attempts]
    BY <1>1, PlaceTyped, SMT DEF Goes, TypeInv
  <1>3. \A x \in Threads : attempt'[x] = IF x = t THEN Place(step, a, u, n, clock) ELSE attempt[x]
    BY SMT DEF Goes, TypeInv
  <1>4. ASSUME NEW x \in Threads
        PROVE  /\ attempt'[x].at \in Stages /\ attempt'[x].clock \in 0..now'
               /\ attempt'[x].at \in {"verify", "wrong", "right"} =>
                    attempt'[x].address \in Addresses /\ attempt'[x].user \in Users
    <2>1. CASE x = t
      BY <2>1, <1>1, <1>3, PlaceTyped, SMT
    <2>2. CASE x # t
      BY <2>2, <1>3, SMT DEF TypeInv, SignInTypeOK, Judged
    <2> QED BY <2>1, <2>2
  <1>5. Judged'
    BY <1>4 DEF Judged
  <1> QED BY <1>2, <1>4, <1>5

LEMMA EndsTyped ==
  ASSUME TypeInv, NEW t \in Threads, now' = now, Ends(t)
  PROVE  /\ attempt' \in [Threads -> Attempts] /\ Judged'
         /\ DOMAIN attempt' = Threads
         /\ \A x \in Threads : attempt'[x].at \in Stages /\ attempt'[x].clock \in 0..now'
  <1>1. "idle" \in Stages /\ 0 \in Sizes /\ 0 \in 0..now
    BY SMT DEF Stages, Sizes, TypeInv, SignInTypeOK
  <1>2. Goes(t, Place("idle", NoAddress, NoUser, 0, 0))
    BY DEF Ends, Idle
  <1>3. "idle" \notin {"verify", "wrong", "right"}
    BY SMT
  <1> QED BY <1>1, <1>2, <1>3, GoesTyped, Zenon

\* What the tables hold, apart from the threads.
TablesOK ==
  /\ now \in 0..MaxTime /\ given \in 0..MaxSessions
  /\ DOMAIN failures \subseteq Keys
  /\ \A k \in DOMAIN failures : /\ failures[k].count \in Nat \ {0}
                                /\ failures[k].seen \in 0..now
                                /\ failures[k].until \in 0..(failures[k].seen + MAX_LOCKOUT)
  /\ DOMAIN sessions \subseteq 1..given
  /\ \A x \in DOMAIN sessions : sessions[x] \in SESSION_TTL..(now + SESSION_TTL)
  /\ late \in [Keys -> Nat] /\ ended \subseteq 1..given

LEMMA InitTyped == Init => TypeInv
  <1> SUFFICES ASSUME Init PROVE TypeInv
    OBVIOUS
  <1>1. "idle" \in Stages /\ 0 \in Sizes /\ 0 \in 0..MaxTime
    BY SignInAssumption, SMT DEF Stages, Sizes
  <1>2. Idle \in Attempts /\ Idle.at = "idle" /\ Idle.clock = 0
    BY <1>1, PlaceTyped DEF Idle
  <1>3. TablesOK
    BY SignInAssumption, SMT DEF Init, TablesOK
  <1>4. attempt \in [Threads -> Attempts] /\ \A t \in Threads : attempt[t] = Idle
    BY <1>2, SMT DEF Init
  <1> QED BY <1>1, <1>2, <1>3, <1>4, SMT DEF TablesOK, TypeInv, SignInTypeOK, Judged

\* A step of one thread keeps the types when it keeps those of the tables.
LEMMA TypedTogether ==
  ASSUME TablesOK', attempt' \in [Threads -> Attempts], Judged', DOMAIN attempt' = Threads,
         \A x \in Threads : attempt'[x].at \in Stages /\ attempt'[x].clock \in 0..now'
  PROVE  TypeInv'
  BY DEF TablesOK, TypeInv, SignInTypeOK

LEMMA CheckTyped ==
  ASSUME TypeInv, NEW t \in Threads, NEW a \in Addresses, NEW u \in Users, Check(t, a, u)
  PROVE  TypeInv'
  <1>1. TablesOK'
    BY SMT DEF TypeInv, SignInTypeOK, TablesOK, Check, Only, Kept
  <1>2. CASE UNCHANGED attempt
    BY <1>1, <1>2, SMT DEF TypeInv, SignInTypeOK, TablesOK, Judged, Check
  <1>3. CASE Goes(t, Place("verify", a, u, 0, 0))
    <2>1. now' = now
      BY DEF Check
    <2>2. "verify" \in Stages /\ 0 \in Sizes /\ 0 \in 0..now
      BY SMT DEF Stages, Sizes, TypeInv, SignInTypeOK
    <2> QED BY <1>1, <1>3, <2>1, <2>2, GoesTyped, TypedTogether
  <1> QED BY <1>2, <1>3 DEF Check

LEMMA VerifyTyped ==
  ASSUME TypeInv, NEW t \in Threads, Verify(t)
  PROVE  TypeInv'
  <1>1. TablesOK'
    BY SMT DEF TypeInv, SignInTypeOK, TablesOK, Verify
  <1>2. PICK verdict \in {"wrong", "right"} :
          Goes(t, Place(verdict, attempt[t].address, attempt[t].user, 0, 0))
    BY DEF Verify
  <1>3. attempt[t].address \in Addresses /\ attempt[t].user \in Users /\ now' = now
    BY SMT DEF TypeInv, Judged, Verify, At
  <1>4. verdict \in Stages /\ 0 \in Sizes /\ 0 \in 0..now
    BY SMT DEF Stages, Sizes, TypeInv, SignInTypeOK
  <1> QED BY <1>1, <1>2, <1>3, <1>4, GoesTyped, TypedTogether

LEMMA RecordFailureTyped ==
  ASSUME TypeInv, NEW t \in Threads, RecordFailure(t)
  PROVE  TypeInv'
  <1> DEFINE keys == _keys(attempt[t].address, attempt[t].user)
  <1>1. keys \subseteq Keys
    BY KeysKnown, SMT DEF TypeInv, Judged, RecordFailure, At
  <1>2. /\ DOMAIN failures' = Kept(failures) \cup keys
        /\ \A k \in keys : failures'[k] = Counted(k)
        /\ \A k \in Kept(failures) \ keys : failures'[k] = failures[k]
    BY SMT DEF RecordFailure
  <1>3. DOMAIN failures' \subseteq Keys
    BY <1>1, <1>2, SMT DEF TypeInv, SignInTypeOK, Kept
  <1>4. ASSUME NEW k \in DOMAIN failures'
        PROVE  /\ failures'[k].count \in Nat \ {0}
               /\ failures'[k].seen \in 0..now
               /\ failures'[k].until \in 0..(failures'[k].seen + MAX_LOCKOUT)
    <2>1. CASE k \in keys
      BY <2>1, <1>1, <1>2, CountedTyped, SMT DEF TypeInv, SignInTypeOK
    <2>2. CASE k \notin keys
      BY <2>2, <1>2, SMT DEF TypeInv, SignInTypeOK, Kept
    <2> QED BY <2>1, <2>2
  <1>5. late' \in [Keys -> Nat]
    BY SMT DEF TypeInv, SignInTypeOK, RecordFailure
  <1>6. now' = now /\ given' = given /\ sessions' = sessions /\ ended' = ended
    BY DEF RecordFailure
  <1>7. TablesOK'
    BY <1>3, <1>4, <1>5, <1>6, SMT DEF TypeInv, SignInTypeOK, TablesOK
  <1> QED BY <1>6, <1>7, EndsTyped, TypedTogether DEF RecordFailure

LEMMA RecordSuccessTyped ==
  ASSUME TypeInv, NEW t \in Threads, RecordSuccess(t)
  PROVE  TypeInv'
  <1>1. TablesOK'
    BY SMT DEF TypeInv, SignInTypeOK, TablesOK, RecordSuccess, Only, Kept
  <1>2. "sweep" \in Stages /\ 0 \in Sizes /\ 0 \in 0..now
    BY SMT DEF Stages, Sizes, TypeInv, SignInTypeOK
  <1> QED BY <1>1, <1>2, GoesTyped, TypedTogether DEF RecordSuccess

LEMMA BeginSweepTyped ==
  ASSUME TypeInv, NEW t \in Threads, BeginSweep(t)
  PROVE  TypeInv'
  <1>1. TablesOK'
    BY SMT DEF TypeInv, SignInTypeOK, TablesOK, BeginSweep
  <1>2. Cardinality(DOMAIN sessions) \in Sizes
    <2>1. DOMAIN sessions \in SUBSET Tokens
      BY SignInAssumption, SMT DEF Tokens, TypeInv, SignInTypeOK
    <2> QED BY <2>1, Zenon DEF Sizes
  <1>3. "walk" \in Stages /\ now \in 0..now
    BY SMT DEF Stages, TypeInv, SignInTypeOK
  <1> QED BY <1>1, <1>2, <1>3, GoesTyped, TypedTogether DEF BeginSweep

LEMMA SweepRaisesTyped ==
  ASSUME TypeInv, NEW t \in Threads, SweepRaises(t)
  PROVE  TypeInv'
  <1>1. TablesOK'
    BY SMT DEF TypeInv, SignInTypeOK, TablesOK, SweepRaises
  <1> QED BY <1>1, EndsTyped, TypedTogether DEF SweepRaises

LEMMA PurgeTyped ==
  ASSUME TypeInv, NEW t \in Threads, Purge(t)
  PROVE  TypeInv'
  <1>1. TablesOK'
    BY SMT DEF TypeInv, SignInTypeOK, TablesOK, Purge, Only, Unexpired
  <1>2. "open" \in Stages /\ 0 \in Sizes /\ 0 \in 0..now
    BY SMT DEF Stages, Sizes, TypeInv, SignInTypeOK
  <1> QED BY <1>1, <1>2, GoesTyped, TypedTogether DEF Purge

LEMMA OpenTyped ==
  ASSUME TypeInv, NEW t \in Threads, Open(t)
  PROVE  TypeInv'
  <1>1. TablesOK'
    <2>1. /\ given' = given + 1 /\ given' \in 0..MaxSessions
          /\ DOMAIN sessions' = DOMAIN sessions \cup {given'}
          /\ \A x \in DOMAIN sessions' :
               sessions'[x] = IF x = given' THEN now + SESSION_TTL ELSE sessions[x]
      BY SignInAssumption, SMT DEF TypeInv, SignInTypeOK, Open
    <2>2. now' = now /\ failures' = failures /\ late' = late /\ ended' = ended
      BY DEF Open
    <2> QED BY <2>1, <2>2, SignInAssumption, SMT DEF TypeInv, SignInTypeOK, TablesOK
  <1> QED BY <1>1, EndsTyped, TypedTogether DEF Open

LEMMA OthersTyped ==
  ASSUME TypeInv, \/ \E x \in Tokens : Use(x) \/ Logout(x)
                  \/ Tick \/ Restart \/ UNCHANGED vars
  PROVE  TypeInv'
  <1>1. ASSUME NEW x \in Tokens, Use(x) \/ Logout(x) PROVE TypeInv'
    <2>1. TablesOK'
      <3>1. /\ DOMAIN sessions' \subseteq DOMAIN sessions
            /\ \A y \in DOMAIN sessions' : sessions'[y] = sessions[y]
        BY <1>1, SMT DEF Use, Logout, Only
      <3>2. /\ now' = now /\ given' = given /\ failures' = failures /\ late' = late
            /\ ended' = ended \/ (x \in 1..given /\ ended' = ended \cup {x})
        BY <1>1, SMT DEF Use, Logout
      <3>3. ended' \subseteq 1..given'
        <4>1. ended \subseteq 1..given
          BY DEF TypeInv, SignInTypeOK
        <4> QED BY <3>2, <4>1, Zenon
      <3>4. DOMAIN sessions' \subseteq 1..given'
        BY <3>1, <3>2, SMT DEF TypeInv, SignInTypeOK
      <3>5. \A y \in DOMAIN sessions' : sessions'[y] \in SESSION_TTL..(now' + SESSION_TTL)
        BY <3>1, <3>2, SMT DEF TypeInv, SignInTypeOK
      <3>6. \A k \in DOMAIN failures' : /\ failures'[k].count \in Nat \ {0}
                                        /\ failures'[k].seen \in 0..now'
                                        /\ failures'[k].until \in 0..(failures'[k].seen + MAX_LOCKOUT)
        BY <3>2, Zenon DEF TypeInv, SignInTypeOK
      <3>7. /\ now' \in 0..MaxTime /\ given' \in 0..MaxSessions
            /\ DOMAIN failures' \subseteq Keys /\ late' \in [Keys -> Nat]
        BY <3>2, Zenon DEF TypeInv, SignInTypeOK
      <3> QED BY <3>3, <3>4, <3>5, <3>6, <3>7, Zenon DEF TablesOK
    <2>2. now' = now /\ attempt' = attempt
      BY <1>1 DEF Use, Logout
    <2> QED BY <2>1, <2>2, SMT DEF TypeInv, SignInTypeOK, TablesOK, Judged
  <1>2. CASE Tick
    <2>1. TablesOK'
      BY <1>2, SignInAssumption, SMT DEF TypeInv, SignInTypeOK, TablesOK, Tick
    <2>2. now' = now + 1 /\ attempt' = attempt
      BY <1>2 DEF Tick
    <2> QED BY <2>1, <2>2, SMT DEF TypeInv, SignInTypeOK, TablesOK, Judged
  <1>3. CASE Restart
    <2>1. TablesOK'
      BY <1>3, SMT DEF TypeInv, SignInTypeOK, TablesOK, Restart
    <2>2. "idle" \in Stages /\ 0 \in Sizes /\ 0 \in 0..MaxTime /\ 0 \in 0..now /\ now' = now
      BY <1>3, SignInAssumption, SMT DEF Stages, Sizes, TypeInv, SignInTypeOK, Restart
    <2>3. Idle \in Attempts /\ Idle.at = "idle" /\ Idle.clock = 0
      BY <2>2, PlaceTyped DEF Idle
    <2>4. attempt' \in [Threads -> Attempts] /\ \A t \in Threads : attempt'[t] = Idle
      BY <1>3, <2>3, SMT DEF Restart
    <2> QED BY <2>1, <2>2, <2>3, <2>4, SMT DEF TablesOK, TypeInv, SignInTypeOK, Judged
  <1>4. CASE UNCHANGED vars
    BY <1>4, SMT DEF vars, TypeInv, SignInTypeOK, Judged
  <1> QED BY <1>1, <1>2, <1>3, <1>4

LEMMA StepTyped == TypeInv /\ [Next]_vars => TypeInv'
  <1> SUFFICES ASSUME TypeInv, [Next]_vars PROVE TypeInv'
    OBVIOUS
  <1>1. ASSUME NEW t \in Threads, Login(t) PROVE TypeInv'
    BY <1>1, CheckTyped, VerifyTyped, RecordFailureTyped, RecordSuccessTyped,
       BeginSweepTyped, SweepRaisesTyped, PurgeTyped, OpenTyped DEF Login
  <1> QED BY <1>1, OthersTyped DEF Next

LEMMA Typed == Spec => []TypeInv
  BY InitTyped, StepTyped, PTL DEF Spec

(* Every reachable state of the counters, the sessions and the sign-ins    *)
(* keeps its types; no counter bars longer than MAX_LOCKOUT.               *)
THEOREM TypeCorrect == Spec => []SignInTypeOK
  BY Typed, PTL DEF TypeInv

-----------------------------------------------------------------------------
(* The tables seen as countdowns *)

LEMMA LeftRange == ASSUME NEW n \in Int, now \in Nat PROVE Left(n) \in Nat
  BY SMT DEF Left

LEMMA OnlyIs ==
  ASSUME NEW f, NEW S PROVE DOMAIN Only(f, S) = S /\ \A x \in S : Only(f, S)[x] = f[x]
  BY DEF Only

LEMMA KeptRemembered ==
  ASSUME NEW k PROVE Remembered(k) <=> k \in Kept(failures)
  BY DEF Remembered, Kept

\* A counter that may be forgotten bars nobody any more.
LEMMA ForgottenBarsNot ==
  ASSUME TypeInv, NEW k \in Keys, ~Remembered(k)
  PROVE  WaitOf(k) = 0 /\ StreakOf(k) = 0 /\ MemoryOf(k) = 0
  BY SignInAssumption, SMT DEF TypeInv, SignInTypeOK, Remembered, WaitOf, StreakOf, MemoryOf, Left

\* Cleaning up a counter that may be forgotten changes nothing for its key,
\* nor does what happens to other keys.
LEMMA SameCounter ==
  ASSUME TypeInv, now' = now, NEW k \in Keys,
         k \in Kept(failures) => k \in DOMAIN failures' /\ failures'[k] = failures[k],
         k \notin Kept(failures) => k \notin DOMAIN failures'
  PROVE  StreakOf(k)' = StreakOf(k) /\ MemoryOf(k)' = MemoryOf(k) /\ WaitOf(k)' = WaitOf(k)
  <1>1. CASE Remembered(k)
    <2>1. k \in DOMAIN failures /\ k \in DOMAIN failures' /\ failures'[k] = failures[k] /\ Remembered(k)'
      BY <1>1, KeptRemembered, SMT DEF Remembered
    <2> QED BY <1>1, <2>1 DEF StreakOf, MemoryOf, WaitOf, Left
  <1>2. CASE ~Remembered(k)
    <2>1. k \notin DOMAIN failures'
      BY <1>2, KeptRemembered
    <2> QED BY <1>2, <2>1, ForgottenBarsNot, SMT DEF StreakOf, MemoryOf, WaitOf, Remembered
  <1> QED BY <1>1, <1>2

\* The counter of a key without an entry.
LEMMA NoCounter ==
  ASSUME NEW k, k \notin DOMAIN failures'
  PROVE  StreakOf(k)' = 0 /\ MemoryOf(k)' = 0 /\ WaitOf(k)' = 0
  BY DEF StreakOf, MemoryOf, WaitOf, Remembered

LEMMA BarredWaits ==
  ASSUME TypeInv, NEW a \in Addresses, NEW u \in Users, ~Barred(a, u), NEW k \in _keys(a, u)
  PROVE  WaitOf(k) = 0
  <1>1. k \in Keys
    BY KeysKnown
  <1>2. CASE Remembered(k)
    BY <1>1, <1>2, SMT DEF Barred, Kept, Remembered, WaitOf, Left, TypeInv, SignInTypeOK
  <1> QED BY <1>1, <1>2, ForgottenBarsNot

\* One more failure, counted.
LEMMA CountedView ==
  ASSUME TypeInv, NEW k \in Keys, now' = now, k \in DOMAIN failures', failures'[k] = Counted(k)
  PROVE  /\ StreakOf(k)' = StreakOf(k) + 1
         /\ MemoryOf(k)' = FORGET_AFTER + 1
         /\ WaitOf(k)' = IF _lockout_for(StreakOf(k) + 1) > 0
                         THEN _lockout_for(StreakOf(k) + 1) ELSE WaitOf(k)
  <1> DEFINE old == IF k \in Kept(failures) THEN failures[k] ELSE [count |-> 0, until |-> 0, seen |-> now]
             bar == _lockout_for(StreakOf(k) + 1)
  <1>1. /\ Counted(k).count = StreakOf(k) + 1 /\ Counted(k).seen = now
        /\ now \in Nat /\ FORGET_AFTER \in Nat
    BY CountedTyped, SignInAssumption, SMT DEF TypeInv, SignInTypeOK
  <1>2. Remembered(k)'
    BY <1>1, SMT DEF Remembered
  <1>3. /\ old.count = StreakOf(k) /\ StreakOf(k) \in Nat /\ old.until \in Nat
        /\ WaitOf(k) = Left(old.until - 1)
    <2>1. CASE Remembered(k)
      BY <2>1, KeptRemembered, SMT DEF StreakOf, WaitOf, Remembered, TypeInv, SignInTypeOK
    <2>2. CASE ~Remembered(k)
      BY <2>2, <1>1, KeptRemembered, ForgottenBarsNot, SMT DEF Left
    <2> QED BY <2>1, <2>2
  <1>4. bar \in Nat
    BY <1>3, LockoutRange, SignInAssumption, SMT
  <1>5. Counted(k).until = IF bar > 0 THEN now + bar ELSE old.until
    BY <1>3 DEF Counted
  <1>6. StreakOf(k)' = StreakOf(k) + 1 /\ MemoryOf(k)' = FORGET_AFTER + 1
    BY <1>1, <1>2, SMT DEF StreakOf, MemoryOf, Left
  <1>7. WaitOf(k)' = Left(Counted(k).until - 1)
    BY DEF WaitOf, Left
  <1>8. CASE bar > 0
    BY <1>1, <1>4, <1>5, <1>6, <1>7, <1>8, SMT DEF Left
  <1>9. CASE ~(bar > 0)
    BY <1>3, <1>5, <1>6, <1>7, <1>9
  <1> QED BY <1>8, <1>9

\* A session that is dropped after its time, or not at all, reads the same.
LEMMA SameSession ==
  ASSUME TypeInv, now' = now, NEW x,
         \/ x \in DOMAIN sessions /\ x \in DOMAIN sessions' /\ sessions'[x] = sessions[x]
         \/ x \notin DOMAIN sessions /\ x \notin DOMAIN sessions'
         \/ x \in DOMAIN sessions /\ sessions[x] < now /\ x \notin DOMAIN sessions'
  PROVE  LiveOf(x)' = LiveOf(x)
  BY SignInAssumption, SMT DEF LiveOf, Left, TypeInv, SignInTypeOK

LEMMA TryingView ==
  ASSUME TypeInv, NEW t \in Threads, NEW place, Goes(t, place)
  PROVE  \A y \in Threads : TryingOf(y)' =
           IF y # t THEN TryingOf(y)
           ELSE IF place.at = "idle" THEN <<>>
           ELSE IF place.at \in {"verify", "wrong", "right"} THEN <<place.address, place.user>>
           ELSE <<"right">>
  <1>1. \A y \in Threads : attempt'[y] = IF y = t THEN place ELSE attempt[y]
    BY SMT DEF Goes, TypeInv
  <1> QED BY <1>1, Zenon DEF TryingOf, At

LEMMA Different ==
  ASSUME NEW a, NEW u PROVE <<>> # <<a, u>> /\ <<"right">> # <<a, u>> /\ <<"right">> # <<>>
  OBVIOUS

-----------------------------------------------------------------------------
(* Every step is one of Access or shows nothing *)

SameCounters == \A k \in Keys : StreakOf(k)' = StreakOf(k) /\ MemoryOf(k)' = MemoryOf(k)
                                /\ WaitOf(k)' = WaitOf(k)
SameSessions == \A x \in Tokens : LiveOf(x)' = LiveOf(x)
SameTries    == \A t \in Threads : TryingOf(t)' = TryingOf(t)

LEMMA InitMaps == Init => Promise!Init
  <1> SUFFICES ASSUME Init PROVE Promise!Init
    OBVIOUS
  <1>1. \A k \in Keys : StreakOf(k) = 0 /\ MemoryOf(k) = 0 /\ WaitOf(k) = 0
    BY SMT DEF Init, StreakOf, MemoryOf, WaitOf, Remembered
  <1>2. \A x \in Tokens : LiveOf(x) = 0
    BY SMT DEF Init, LiveOf
  <1>3. Idle.at = "idle"
    BY DEF Idle, Place
  <1>4. \A t \in Threads : TryingOf(t) = <<>>
    BY <1>3, SMT DEF Init, TryingOf, At
  <1> QED BY <1>1, <1>2, <1>4, SMT DEF Init, Promise!Init, Promise!Zero, Promise!Nothing

LEMMA CountersUnchanged ==
  ASSUME SameCounters PROVE UNCHANGED Promise!Counters
  <1>1. [k \in Keys |-> StreakOf(k)]' = [k \in Keys |-> StreakOf(k)]
    BY DEF SameCounters
  <1>2. [k \in Keys |-> MemoryOf(k)]' = [k \in Keys |-> MemoryOf(k)]
    BY DEF SameCounters
  <1>3. [k \in Keys |-> WaitOf(k)]' = [k \in Keys |-> WaitOf(k)]
    BY DEF SameCounters
  <1> QED BY <1>1, <1>2, <1>3 DEF Promise!Counters

LEMMA SessionsUnchanged ==
  ASSUME SameSessions PROVE [x \in Tokens |-> LiveOf(x)]' = [x \in Tokens |-> LiveOf(x)]
  BY DEF SameSessions

LEMMA TriesUnchanged ==
  ASSUME SameTries PROVE [t \in Threads |-> TryingOf(t)]' = [t \in Threads |-> TryingOf(t)]
  BY DEF SameTries

LEMMA NothingShows ==
  ASSUME SameCounters, SameSessions, SameTries, ended' = ended
  PROVE  UNCHANGED Promise!avars
  BY CountersUnchanged, SessionsUnchanged, TriesUnchanged DEF Promise!avars, Promise!Counters

\* One thread is elsewhere.
LEMMA OneMoves ==
  ASSUME NEW t \in Threads, NEW s,
         \A y \in Threads : TryingOf(y)' = IF y = t THEN s ELSE TryingOf(y)
  PROVE  [y \in Threads |-> TryingOf(y)]' = [[y \in Threads |-> TryingOf(y)] EXCEPT ![t] = s]
  OBVIOUS

\* Only the thread moved.
LEMMA TablesSame ==
  ASSUME now' = now, failures' = failures, sessions' = sessions
  PROVE  SameCounters /\ SameSessions
  <1>1. SameCounters
    BY DEF SameCounters, StreakOf, MemoryOf, WaitOf, Remembered, Left
  <1>2. SameSessions
    BY DEF SameSessions, LiveOf, Left
  <1> QED BY <1>1, <1>2

\* Cleaning up the counters shows nothing.
LEMMA CleanupShowsNothing ==
  ASSUME TypeInv, now' = now, failures' = Only(failures, Kept(failures))
  PROVE  SameCounters
  <1>1. \A k \in Keys : /\ k \in Kept(failures) => k \in DOMAIN failures' /\ failures'[k] = failures[k]
                        /\ k \notin Kept(failures) => k \notin DOMAIN failures'
    BY OnlyIs
  <1> QED BY <1>1, SameCounter DEF SameCounters

LEMMA CheckMaps ==
  ASSUME TypeInv, NEW t \in Threads, NEW a \in Addresses, NEW u \in Users, Check(t, a, u)
  PROVE  Promise!Next \/ UNCHANGED Promise!avars
  <1>1. SameCounters
    BY CleanupShowsNothing DEF Check
  <1>2. SameSessions /\ ended' = ended
    BY DEF Check, SameSessions, LiveOf, Left
  <1>3. CASE UNCHANGED attempt
    <2>1. SameTries
      BY <1>3 DEF SameTries, TryingOf, At
    <2> QED BY <1>1, <1>2, <2>1, NothingShows
  <1>4. CASE ~Barred(a, u) /\ Goes(t, Place("verify", a, u, 0, 0))
    <2> DEFINE s == <<a, u>>
    <2>1. TryingOf(t) = <<>>
      BY DEF Check, TryingOf
    <2>2. \A y \in Threads : TryingOf(y)' = IF y = t THEN s ELSE TryingOf(y)
      BY <1>4, TryingView DEF Place
    <2>3. s \in Addresses \X Users /\ s[1] = a /\ s[2] = u
      OBVIOUS
    <2>4. \A k \in _keys(s[1], s[2]) : k \in Keys /\ WaitOf(k) = 0
      BY <1>4, <2>3, BarredWaits, KeysKnown
    <2> HIDE DEF s
    <2>5. Promise!Admit(t, s)
      <3>1. [y \in Threads |-> TryingOf(y)][t] = <<>>
        BY <2>1
      <3>2. \A k \in _keys(s[1], s[2]) : [j \in Keys |-> WaitOf(j)][k] = 0
        BY <2>4
      <3> QED BY <3>1, <3>2, <1>1, <1>2, <2>2, CountersUnchanged, SessionsUnchanged, OneMoves
              DEF Promise!Admit, Promise!Nothing
    <2>6. TryingOf(t)' # TryingOf(t)
      BY <2>1, <2>2, Different DEF s
    <2> QED BY <2>3, <2>5, <2>6, Zenon DEF Promise!Next
  <1> QED BY <1>3, <1>4 DEF Check

LEMMA VerifyMaps ==
  ASSUME TypeInv, NEW t \in Threads, Verify(t) PROVE UNCHANGED Promise!avars
  <1>1. SameCounters /\ SameSessions /\ ended' = ended
    BY TablesSame DEF Verify
  <1>2. PICK verdict \in {"wrong", "right"} :
          Goes(t, Place(verdict, attempt[t].address, attempt[t].user, 0, 0))
    BY DEF Verify
  <1>3. TryingOf(t) = <<attempt[t].address, attempt[t].user>>
    BY DEF Verify, TryingOf, At
  <1>4. SameTries
    BY <1>2, <1>3, TryingView DEF SameTries, Place
  <1> QED BY <1>1, <1>4, NothingShows

LEMMA BeginSweepMaps ==
  ASSUME TypeInv, NEW t \in Threads, BeginSweep(t) PROVE UNCHANGED Promise!avars
  <1>1. SameCounters /\ SameSessions /\ ended' = ended
    BY TablesSame DEF BeginSweep
  <1>2. TryingOf(t) = <<"right">>
    BY DEF BeginSweep, TryingOf, At
  <1>3. SameTries
    BY <1>2, TryingView DEF BeginSweep, SameTries, Place
  <1> QED BY <1>1, <1>3, NothingShows

\* The sweep drops only what had expired when it began.
LEMMA PurgeMaps ==
  ASSUME TypeInv, NEW t \in Threads, Purge(t) PROVE UNCHANGED Promise!avars
  <1>1. SameCounters /\ ended' = ended
    BY DEF Purge, SameCounters, StreakOf, MemoryOf, WaitOf, Remembered, Left
  <1>2. attempt[t].clock \in 0..now /\ now \in Nat /\ now' = now
    BY SMT DEF TypeInv, SignInTypeOK, Purge
  <1>3. /\ DOMAIN sessions' = Unexpired(t)
        /\ \A x \in DOMAIN sessions' : sessions'[x] = sessions[x]
    BY OnlyIs DEF Purge
  <1>4. ASSUME NEW x \in Tokens PROVE LiveOf(x)' = LiveOf(x)
    <2>1. CASE x \in DOMAIN sessions /\ x \notin Unexpired(t)
      <3>1. sessions[x] \in Int /\ sessions[x] < now
        BY <1>2, <2>1, SignInAssumption, SMT DEF Unexpired, TypeInv, SignInTypeOK
      <3> QED BY <1>2, <1>3, <2>1, <3>1, SameSession
    <2>2. CASE ~(x \in DOMAIN sessions /\ x \notin Unexpired(t))
      BY <1>2, <1>3, <2>2, SameSession DEF Unexpired
    <2> QED BY <2>1, <2>2
  <1>5. TryingOf(t) = <<"right">>
    BY DEF Purge, TryingOf, At
  <1>6. SameTries
    BY <1>5, TryingView DEF Purge, SameTries, Place
  <1> QED BY <1>1, <1>4, <1>6, NothingShows DEF SameSessions

LEMMA SweepRaisesMaps ==
  ASSUME TypeInv, NEW t \in Threads, SweepRaises(t) PROVE Promise!Next
  <1>1. SameCounters /\ SameSessions /\ ended' = ended
    BY TablesSame DEF SweepRaises
  <1>2. TryingOf(t) = <<"right">>
    BY DEF SweepRaises, TryingOf, At
  <1>3. \A y \in Threads : TryingOf(y)' = IF y = t THEN <<>> ELSE TryingOf(y)
    BY TryingView DEF SweepRaises, Ends, Idle, Place
  <1>4. [y \in Threads |-> TryingOf(y)][t] = <<"right">>
    BY <1>2
  <1>5. Promise!Open(t)
    BY <1>1, <1>3, <1>4, CountersUnchanged, SessionsUnchanged, OneMoves
       DEF Promise!Open, Promise!Nothing, Promise!Entry
  <1>6. TryingOf(t)' # TryingOf(t)
    BY <1>2, <1>3, Different
  <1> QED BY <1>5, <1>6, Zenon DEF Promise!Next

LEMMA OpenMaps ==
  ASSUME TypeInv, NEW t \in Threads, Open(t) PROVE Promise!Next
  <1>1. SameCounters /\ ended' = ended /\ now' = now
    BY DEF Open, SameCounters, StreakOf, MemoryOf, WaitOf, Remembered, Left
  <1>2. TryingOf(t) = <<"right">>
    BY DEF Open, TryingOf, At
  <1>3. \A y \in Threads : TryingOf(y)' = IF y = t THEN <<>> ELSE TryingOf(y)
    BY TryingView DEF Open, Ends, Idle, Place
  <1>4. [y \in Threads |-> TryingOf(y)][t] = <<"right">>
    BY <1>2
  <1>5. PICK new \in Tokens :
        /\ new \notin DOMAIN sessions
        /\ DOMAIN sessions' = DOMAIN sessions \cup {new}
        /\ sessions'[new] = now + SESSION_TTL
        /\ \A x \in DOMAIN sessions : sessions'[x] = sessions[x]
    BY SignInAssumption, SMT DEF Tokens, TypeInv, SignInTypeOK, Open
  <1>6. LiveOf(new) = 0 /\ LiveOf(new)' = SESSION_TTL + 1
    <2>1. LiveOf(new) = 0 /\ LiveOf(new)' = Left(now + SESSION_TTL)
      BY <1>1, <1>5, Zenon DEF LiveOf, Left
    <2>2. now \in Nat /\ SESSION_TTL \in Nat
      BY SignInAssumption, SMT DEF TypeInv, SignInTypeOK
    <2> QED BY <2>1, <2>2, SMT DEF Left
  <1>7. \A x \in Tokens : x # new => LiveOf(x)' = LiveOf(x)
    BY <1>1, <1>5, SMT DEF LiveOf, Left
  <1>8. /\ [x \in Tokens |-> LiveOf(x)][new] = 0
        /\ [x \in Tokens |-> LiveOf(x)]' =
             [[x \in Tokens |-> LiveOf(x)] EXCEPT ![new] = SESSION_TTL + 1]
    <2>1. [x \in Tokens |-> LiveOf(x)][new] = 0
      BY <1>5, <1>6
    <2>2. \A x \in Tokens : LiveOf(x)' = IF x = new THEN SESSION_TTL + 1 ELSE LiveOf(x)
      BY <1>6, <1>7
    <2> QED BY <2>1, <2>2
  <1>9. Promise!Open(t)
    BY <1>1, <1>3, <1>4, <1>5, <1>8, CountersUnchanged, OneMoves
       DEF Promise!Open, Promise!Nothing, Promise!Entry
  <1>10. TryingOf(t)' # TryingOf(t)
    BY <1>2, <1>3, Different
  <1> QED BY <1>9, <1>10, Zenon DEF Promise!Next

LEMMA RecordFailureMaps ==
  ASSUME TypeInv, NEW t \in Threads, RecordFailure(t) PROVE Promise!Next
  <1>1. PICK a \in Addresses, u \in Users : attempt[t].address = a /\ attempt[t].user = u
    BY DEF TypeInv, Judged, RecordFailure, At
  <1>2. PICK s \in Addresses \X Users : s = <<a, u>> /\ s[1] = a /\ s[2] = u
    <2>1. <<a, u>> \in Addresses \X Users /\ <<a, u>>[1] = a /\ <<a, u>>[2] = u
      OBVIOUS
    <2> QED BY <2>1, Zenon
  <1>3. now' = now /\ ended' = ended /\ SameSessions
    BY DEF RecordFailure, SameSessions, LiveOf, Left
  <1>4. TryingOf(t) = s
    BY <1>1, <1>2 DEF RecordFailure, TryingOf, At
  <1>5. \A y \in Threads : TryingOf(y)' = IF y = t THEN <<>> ELSE TryingOf(y)
    BY TryingView DEF RecordFailure, Ends, Idle, Place
  <1> DEFINE keys == _keys(s[1], s[2])
  <1>6. /\ DOMAIN failures' = Kept(failures) \cup keys
        /\ \A k \in keys : failures'[k] = Counted(k)
        /\ \A k \in Kept(failures) \ keys : failures'[k] = failures[k]
    BY <1>1, <1>2, SMT DEF RecordFailure
  <1>7. \A k \in Keys : k \in keys =>
          /\ StreakOf(k)' = StreakOf(k) + 1
          /\ MemoryOf(k)' = FORGET_AFTER + 1
          /\ WaitOf(k)' = IF _lockout_for(StreakOf(k) + 1) > 0
                          THEN _lockout_for(StreakOf(k) + 1) ELSE WaitOf(k)
    BY <1>3, <1>6, CountedView
  <1>8. \A k \in Keys : k \notin keys =>
          StreakOf(k)' = StreakOf(k) /\ MemoryOf(k)' = MemoryOf(k) /\ WaitOf(k)' = WaitOf(k)
    BY <1>3, <1>6, SameCounter
  <1> HIDE DEF keys
  <1> DEFINE streak == [k \in Keys |-> StreakOf(k)]
             memory == [k \in Keys |-> MemoryOf(k)]
             wait   == [k \in Keys |-> WaitOf(k)]
  <1>9. streak' = [k \in Keys |-> IF k \in keys THEN streak[k] + 1 ELSE streak[k]]
    BY <1>7, <1>8
  <1>10. memory' = [k \in Keys |-> IF k \in keys THEN FORGET_AFTER + 1 ELSE memory[k]]
    BY <1>7, <1>8
  <1>11. wait' = [k \in Keys |-> IF k \in keys /\ _lockout_for(streak[k] + 1) > 0
                                 THEN _lockout_for(streak[k] + 1) ELSE wait[k]]
    <2>1. \A k \in Keys : WaitOf(k)' =
            IF k \in keys /\ _lockout_for(StreakOf(k) + 1) > 0
            THEN _lockout_for(StreakOf(k) + 1) ELSE WaitOf(k)
      BY <1>7, <1>8
    <2> QED BY <2>1
  <1>12. [y \in Threads |-> TryingOf(y)][t] = s
    BY <1>4
  <1>13. Promise!Wrong(t, s)
    BY <1>3, <1>5, <1>9, <1>10, <1>11, <1>12, SessionsUnchanged, OneMoves
       DEF Promise!Wrong, Promise!Nothing, keys
  <1>14. TryingOf(t)' # TryingOf(t)
    BY <1>2, <1>4, <1>5, Different
  <1> QED BY <1>13, <1>14, Zenon DEF Promise!Next

LEMMA RecordSuccessMaps ==
  ASSUME TypeInv, NEW t \in Threads, RecordSuccess(t) PROVE Promise!Next
  <1>1. PICK a \in Addresses, u \in Users : attempt[t].address = a /\ attempt[t].user = u
    BY DEF TypeInv, Judged, RecordSuccess, At
  <1>2. PICK s \in Addresses \X Users : s = <<a, u>> /\ s[1] = a /\ s[2] = u
    <2>1. <<a, u>> \in Addresses \X Users /\ <<a, u>>[1] = a /\ <<a, u>>[2] = u
      OBVIOUS
    <2> QED BY <2>1, Zenon
  <1>3. now' = now /\ ended' = ended /\ SameSessions
    BY DEF RecordSuccess, SameSessions, LiveOf, Left
  <1>4. TryingOf(t) = s
    BY <1>1, <1>2 DEF RecordSuccess, TryingOf, At
  <1>5. \A y \in Threads : TryingOf(y)' = IF y = t THEN <<"right">> ELSE TryingOf(y)
    BY TryingView DEF RecordSuccess, Place
  <1> DEFINE keys == _keys(s[1], s[2])
  <1>6. /\ DOMAIN failures' = Kept(failures) \ keys
        /\ \A k \in Kept(failures) \ keys : failures'[k] = failures[k]
    BY <1>1, <1>2, OnlyIs DEF RecordSuccess
  <1>7. \A k \in Keys : k \in keys => StreakOf(k)' = 0 /\ MemoryOf(k)' = 0 /\ WaitOf(k)' = 0
    BY <1>6, NoCounter
  <1>8. \A k \in Keys : k \notin keys =>
          StreakOf(k)' = StreakOf(k) /\ MemoryOf(k)' = MemoryOf(k) /\ WaitOf(k)' = WaitOf(k)
    BY <1>3, <1>6, SameCounter
  <1> HIDE DEF keys
  <1> DEFINE streak == [k \in Keys |-> StreakOf(k)]
             memory == [k \in Keys |-> MemoryOf(k)]
             wait   == [k \in Keys |-> WaitOf(k)]
  <1>9. streak' = [k \in Keys |-> IF k \in keys THEN 0 ELSE streak[k]]
    BY <1>7, <1>8
  <1>10. memory' = [k \in Keys |-> IF k \in keys THEN 0 ELSE memory[k]]
    BY <1>7, <1>8
  <1>11. wait' = [k \in Keys |-> IF k \in keys THEN 0 ELSE wait[k]]
    BY <1>7, <1>8
  <1>12. [y \in Threads |-> TryingOf(y)][t] = s
    BY <1>4
  <1>13. Promise!Right(t, s)
    BY <1>3, <1>5, <1>9, <1>10, <1>11, <1>12, SessionsUnchanged, OneMoves
       DEF Promise!Right, Promise!Entry, keys
  <1>14. TryingOf(t)' # TryingOf(t)
    BY <1>2, <1>4, <1>5, Different
  <1> QED BY <1>13, <1>14, Zenon DEF Promise!Next

\* A request drops a session whose time is over: nobody could use it.
LEMMA UseMaps ==
  ASSUME TypeInv, NEW x \in Tokens, Use(x) PROVE UNCHANGED Promise!avars
  <1>1. SameCounters /\ SameTries /\ ended' = ended /\ now' = now
    BY DEF Use, SameCounters, SameTries, StreakOf, MemoryOf, WaitOf, Remembered, Left, TryingOf, At
  <1>2. /\ DOMAIN sessions' = DOMAIN sessions \ {x} /\ sessions[x] < now /\ x \in DOMAIN sessions
        /\ \A y \in DOMAIN sessions \ {x} : sessions'[y] = sessions[y]
    BY OnlyIs DEF Use, Outlived
  <1>3. \A y \in Tokens : LiveOf(y)' = LiveOf(y)
    BY <1>1, <1>2, SameSession
  <1> QED BY <1>1, <1>3, NothingShows DEF SameSessions

LEMMA LogoutMaps ==
  ASSUME TypeInv, NEW x \in Tokens, Logout(x) PROVE Promise!Next
  <1>1. /\ SameCounters /\ SameTries /\ ended' = ended \cup {x} /\ now' = now
    BY DEF Logout, SameCounters, SameTries, StreakOf, MemoryOf, WaitOf, Remembered, Left, TryingOf, At
  <1>2. /\ DOMAIN sessions' = DOMAIN sessions \ {x}
        /\ \A y \in DOMAIN sessions \ {x} : sessions'[y] = sessions[y]
    BY OnlyIs DEF Logout
  <1>3. \A y \in Tokens : LiveOf(y)' = IF y = x THEN 0 ELSE LiveOf(y)
    BY <1>1, <1>2 DEF LiveOf, Left
  <1>4. [y \in Tokens |-> LiveOf(y)]' = [[y \in Tokens |-> LiveOf(y)] EXCEPT ![x] = 0]
    BY <1>3
  <1>5. Promise!Logout(x)
    BY <1>1, <1>4, CountersUnchanged, TriesUnchanged DEF Promise!Logout
  <1> QED BY <1>5 DEF Promise!Next

LEMMA LeftLess ==
  ASSUME NEW n \in Int, now \in Nat, now' = now + 1
  PROVE  Left(n)' = IF Left(n) = 0 THEN 0 ELSE Left(n) - 1
  BY SMT DEF Left

LEMMA TickMaps ==
  ASSUME TypeInv, Tick PROVE Promise!Next
  <1>1. /\ now \in Nat /\ now' = now + 1 /\ ended' = ended
        /\ failures' = failures /\ sessions' = sessions /\ SameTries
    BY SMT DEF TypeInv, SignInTypeOK, Tick, SameTries, TryingOf, At
  <1>2. ASSUME NEW k \in Keys
        PROVE  /\ WaitOf(k)' = IF WaitOf(k) = 0 THEN 0 ELSE WaitOf(k) - 1
               /\ MemoryOf(k)' = IF MemoryOf(k) = 0 THEN 0 ELSE MemoryOf(k) - 1
               /\ StreakOf(k)' = IF MemoryOf(k) <= 1 THEN 0 ELSE StreakOf(k)
    <2>1. CASE k \in DOMAIN failures
      <3>1. /\ failures[k].until - 1 \in Int /\ failures[k].seen + FORGET_AFTER \in Int
        BY <2>1, SignInAssumption, SMT DEF TypeInv, SignInTypeOK
      <3>2. WaitOf(k)' = IF WaitOf(k) = 0 THEN 0 ELSE WaitOf(k) - 1
        BY <1>1, <2>1, <3>1, LeftLess DEF WaitOf
      <3>3. /\ MemoryOf(k) = Left(failures[k].seen + FORGET_AFTER)
            /\ MemoryOf(k)' = Left(failures[k].seen + FORGET_AFTER)'
        BY <1>1, <2>1, <3>1, SMT DEF MemoryOf, Remembered, Left
      <3>4. StreakOf(k)' = IF MemoryOf(k) <= 1 THEN 0 ELSE StreakOf(k)
        BY <1>1, <2>1, <3>1, SMT DEF MemoryOf, StreakOf, Remembered, Left
      <3> QED BY <1>1, <3>1, <3>2, <3>3, <3>4, LeftLess
    <2>2. CASE k \notin DOMAIN failures
      BY <1>1, <2>2, SMT DEF WaitOf, MemoryOf, StreakOf, Remembered
    <2> QED BY <2>1, <2>2
  <1>3. ASSUME NEW x \in Tokens PROVE LiveOf(x)' = IF LiveOf(x) = 0 THEN 0 ELSE LiveOf(x) - 1
    <2>1. CASE x \in DOMAIN sessions
      <3>1. sessions[x] \in Int
        BY <2>1, SignInAssumption, SMT DEF TypeInv, SignInTypeOK
      <3> QED BY <1>1, <2>1, <3>1, LeftLess DEF LiveOf
    <2>2. CASE x \notin DOMAIN sessions
      BY <1>1, <2>2, SMT DEF LiveOf
    <2> QED BY <2>1, <2>2
  <1> DEFINE streak == [k \in Keys |-> StreakOf(k)]
             memory == [k \in Keys |-> MemoryOf(k)]
             wait   == [k \in Keys |-> WaitOf(k)]
             live   == [x \in Tokens |-> LiveOf(x)]
  <1>4. wait' = Promise!Less(wait)
    BY <1>2 DEF Promise!Less
  <1>5. memory' = Promise!Less(memory)
    BY <1>2 DEF Promise!Less
  <1>6. live' = Promise!Less(live)
    BY <1>3 DEF Promise!Less
  <1>7. streak' = [k \in Keys |-> IF memory[k] <= 1 THEN 0 ELSE streak[k]]
    BY <1>2
  <1>8. Promise!Pass
    BY <1>1, <1>4, <1>5, <1>6, <1>7, TriesUnchanged DEF Promise!Pass
  <1> QED BY <1>8 DEF Promise!Next

LEMMA RestartMaps ==
  ASSUME Restart PROVE Promise!Next
  <1>1. \A k \in Keys : StreakOf(k)' = 0 /\ MemoryOf(k)' = 0 /\ WaitOf(k)' = 0
    BY NoCounter, SMT DEF Restart
  <1>2. \A x \in Tokens : LiveOf(x)' = 0
    BY SMT DEF Restart, LiveOf
  <1>3. Idle.at = "idle"
    BY DEF Idle, Place
  <1>4. \A t \in Threads : TryingOf(t)' = <<>>
    BY <1>3, SMT DEF Restart, TryingOf, At
  <1>5. ended' = ended
    BY DEF Restart
  <1>6. Promise!Restart
    BY <1>1, <1>2, <1>4, <1>5 DEF Promise!Restart, Promise!Zero, Promise!Nothing
  <1> QED BY <1>6 DEF Promise!Next

LEMMA StepMaps == TypeInv /\ [Next]_vars => Promise!Next \/ UNCHANGED Promise!avars
  <1> SUFFICES ASSUME TypeInv, [Next]_vars PROVE Promise!Next \/ UNCHANGED Promise!avars
    OBVIOUS
  <1>1. ASSUME NEW t \in Threads, Login(t) PROVE Promise!Next \/ UNCHANGED Promise!avars
    BY <1>1, CheckMaps, VerifyMaps, RecordFailureMaps, RecordSuccessMaps,
       BeginSweepMaps, SweepRaisesMaps, PurgeMaps, OpenMaps DEF Login
  <1>2. ASSUME NEW x \in Tokens, Use(x) \/ Logout(x)
        PROVE  Promise!Next \/ UNCHANGED Promise!avars
    BY <1>2, UseMaps, LogoutMaps
  <1>3. CASE Tick \/ Restart
    BY <1>3, TickMaps, RestartMaps
  <1>4. CASE UNCHANGED vars
    <2>1. now' = now /\ failures' = failures /\ sessions' = sessions /\ attempt' = attempt /\ ended' = ended
      BY <1>4 DEF vars
    <2>2. SameCounters /\ SameSessions /\ SameTries
      BY <2>1, TablesSame DEF SameTries, TryingOf, At
    <2> QED BY <2>1, <2>2, NothingShows
  <1> QED BY <1>1, <1>2, <1>3, <1>4 DEF Next

(* The counters and the session table of the code, for any number of       *)
(* threads, addresses, accounts and sessions and any times (a failure is   *)
(* remembered at least as long as the longest lockout), do what Access     *)
(* promises.                                                               *)
THEOREM AccessImplemented == Spec => ImplementsAccess
  BY Typed, InitMaps, StepMaps, PTL DEF Spec, ImplementsAccess, Promise!Spec

-----------------------------------------------------------------------------
(* The attempts that had passed the check *)

\* The threads whose verdict may still be counted for k.
Pending(k) == {t \in Threads : /\ attempt[t].at \in {"verify", "wrong", "right"}
                               /\ k \in _keys(attempt[t].address, attempt[t].user)}

\* While k is barred nobody new comes in, so the verdicts counted meanwhile
\* and those to come are those of the threads that were in already, without
\* the one whose verdict barred it.
Overrun(k) == /\ late[k] < Cardinality(Threads)
              /\ WaitOf(k) # 0 => late[k] + Cardinality(Pending(k)) < Cardinality(Threads)

OverrunInv == \A k \in Keys : Overrun(k)

LEMMA PendingFinite ==
  ASSUME NEW k
  PROVE  IsFiniteSet(Pending(k)) /\ Cardinality(Pending(k)) \in Nat
         /\ Cardinality(Pending(k)) <= Cardinality(Threads) /\ Cardinality(Threads) \in Nat \ {0}
  <1>1. Pending(k) \in SUBSET Threads
    BY DEF Pending
  <1>2. Cardinality(Threads) \in Nat \ {0}
    BY SignInAssumption, FS_CardinalityType, FS_EmptySet
  <1> QED BY <1>1, <1>2, SignInAssumption, FS_Subset, FS_CardinalityType

\* No verdict on k is counted and nobody new is in.
LEMMA Fewer ==
  ASSUME TypeInv, OverrunInv, NEW k \in Keys, late'[k] = late[k],
         WaitOf(k)' # 0 => WaitOf(k) # 0 /\ Pending(k)' \subseteq Pending(k)
  PROVE  Overrun(k)'
  <1>1. late[k] \in Nat /\ Overrun(k)
    BY DEF TypeInv, SignInTypeOK, OverrunInv
  <1>2. CASE WaitOf(k)' = 0
    BY <1>1, <1>2 DEF Overrun
  <1>3. CASE WaitOf(k)' # 0
    <2>1. WaitOf(k) # 0 /\ Pending(k)' \in SUBSET Pending(k)
      BY <1>3
    <2> DEFINE P == Cardinality(Pending(k))'
    <2>2. P <= Cardinality(Pending(k)) /\ P \in Nat
      BY <2>1, PendingFinite, FS_Subset, FS_CardinalityType
    <2>3. late[k] + Cardinality(Pending(k)) < Cardinality(Threads)
      BY <1>1, <2>1 DEF Overrun
    <2> HIDE DEF P
    <2>4. late[k] + P < Cardinality(Threads)
      BY <1>1, <2>2, <2>3, PendingFinite, SMT
    <2> QED BY <1>1, <2>4 DEF Overrun, P
  <1> QED BY <1>2, <1>3

\* A thread that is in for nobody any more.
LEMMA PendingLoses ==
  ASSUME TypeInv, NEW t \in Threads, NEW place, Goes(t, place), NEW k,
         place.at \notin {"verify", "wrong", "right"}
  PROVE  Pending(k)' = Pending(k) \ {t}
  <1>1. \A y \in Threads : attempt'[y] = IF y = t THEN place ELSE attempt[y]
    BY SMT DEF Goes, TypeInv
  <1> QED BY <1>1, Zenon DEF Pending

LEMMA OverrunInit == Init => OverrunInv
  <1> SUFFICES ASSUME Init, NEW k \in Keys PROVE Overrun(k)
    BY DEF OverrunInv
  <1>1. late[k] = 0 /\ WaitOf(k) = 0
    BY SMT DEF Init, WaitOf
  <1> QED BY <1>1, PendingFinite, SMT DEF Overrun

LEMMA OverrunFailure ==
  ASSUME TypeInv, OverrunInv, NEW t \in Threads, RecordFailure(t), NEW k \in Keys
  PROVE  Overrun(k)'
  <1> DEFINE keys == _keys(attempt[t].address, attempt[t].user)
  <1>1. Pending(k)' = Pending(k) \ {t} /\ now' = now
    <2>1. Idle.at \notin {"verify", "wrong", "right"}
      BY SMT DEF Idle, Place
    <2> QED BY <2>1, PendingLoses DEF RecordFailure, Ends
  <1>2. /\ DOMAIN failures' = Kept(failures) \cup keys
        /\ \A j \in Kept(failures) \ keys : failures'[j] = failures[j]
    BY SMT DEF RecordFailure
  <1>3. late[k] \in Nat /\ Overrun(k)
    BY DEF TypeInv, SignInTypeOK, OverrunInv
  <1>4. CASE k \notin keys
    <2>1. late'[k] = late[k]
      BY <1>4, SMT DEF RecordFailure
    <2>2. WaitOf(k)' = WaitOf(k)
      BY <1>1, <1>2, <1>4, SameCounter
    <2> QED BY <1>1, <2>1, <2>2, Fewer
  <1>5. CASE k \in keys
    <2> DEFINE barred == k \in Kept(failures) /\ failures[k].until > now
    <2>1. t \in Pending(k)
      BY <1>5 DEF Pending, RecordFailure, At
    <2> DEFINE P == Cardinality(Pending(k))
               Q == Cardinality(Pending(k))'
               N == Cardinality(Threads)
    <2>2. Q = P - 1 /\ P \in Nat \ {0} /\ Q \in Nat /\ P <= N /\ N \in Nat
      <3>1. Q = P - 1
        BY <1>1, <2>1, PendingFinite, FS_RemoveElement
      <3>2. P # 0
        BY <2>1, PendingFinite, FS_EmptySet
      <3> QED BY <3>1, <3>2, PendingFinite, SMT
    <2>3. late'[k] = IF barred THEN late[k] + 1 ELSE 0
      BY <1>5, SMT DEF RecordFailure
    <2>4. CASE barred
      <3>1. WaitOf(k) # 0
        BY <2>4, SMT DEF WaitOf, Left, Kept, TypeInv, SignInTypeOK
      <3>2. late[k] + P < N
        BY <1>3, <3>1 DEF Overrun
      <3> HIDE DEF P, Q, N
      <3>3. late'[k] < N /\ late'[k] + Q < N
        BY <1>3, <2>2, <2>3, <2>4, <3>2, SMT
      <3> QED BY <3>3 DEF Overrun, Q, N
    <2>5. CASE ~barred
      <3> HIDE DEF P, Q, N
      <3>1. late'[k] < N /\ late'[k] + Q < N
        BY <2>2, <2>3, <2>5, SMT
      <3> QED BY <3>1 DEF Overrun, Q, N
    <2> QED BY <2>4, <2>5
  <1> QED BY <1>4, <1>5

\* Whoever is let in finds none of his keys barred.
LEMMA OverrunCheck ==
  ASSUME TypeInv, OverrunInv, NEW t \in Threads, NEW a \in Addresses, NEW u \in Users,
         Check(t, a, u), NEW k \in Keys
  PROVE  Overrun(k)'
  <1>1. WaitOf(k)' = WaitOf(k) /\ late'[k] = late[k]
    BY CleanupShowsNothing DEF Check, SameCounters
  <1>2. CASE UNCHANGED attempt
    BY <1>1, <1>2, Fewer DEF Pending
  <1>3. CASE ~Barred(a, u) /\ Goes(t, Place("verify", a, u, 0, 0))
    <2>1. CASE k \in _keys(a, u)
      BY <1>1, <1>3, <2>1, BarredWaits, Fewer
    <2>2. CASE k \notin _keys(a, u)
      <3>1. \A y \in Threads : attempt'[y] = IF y = t THEN Place("verify", a, u, 0, 0) ELSE attempt[y]
        BY <1>3, SMT DEF Goes, TypeInv
      <3>2. Pending(k)' \subseteq Pending(k)
        BY <2>2, <3>1, SMT DEF Pending, Place
      <3> QED BY <1>1, <3>2, Fewer
    <2> QED BY <2>1, <2>2
  <1> QED BY <1>2, <1>3 DEF Check

LEMMA OverrunLogin ==
  ASSUME TypeInv, OverrunInv, NEW t \in Threads, Login(t), NEW k \in Keys
  PROVE  Overrun(k)'
  <1>1. CASE Verify(t)
    <2>1. WaitOf(k)' = WaitOf(k) /\ late'[k] = late[k]
      BY <1>1, TablesSame DEF Verify, SameCounters
    <2>2. PICK verdict \in {"wrong", "right"} :
            Goes(t, Place(verdict, attempt[t].address, attempt[t].user, 0, 0))
      BY <1>1 DEF Verify
    <2>3. \A y \in Threads : attempt'[y] =
            IF y = t THEN Place(verdict, attempt[t].address, attempt[t].user, 0, 0) ELSE attempt[y]
      BY <2>2, SMT DEF Goes, TypeInv
    <2>4. Pending(k)' \subseteq Pending(k)
      BY <1>1, <2>3, SMT DEF Pending, Place, Verify, At
    <2> QED BY <2>1, <2>4, Fewer
  <1>2. CASE RecordSuccess(t)
    <2> DEFINE keys == _keys(attempt[t].address, attempt[t].user)
    <2>1. Pending(k)' = Pending(k) \ {t} /\ now' = now /\ late' = late
      <3>1. Place("sweep", NoAddress, NoUser, 0, 0).at \notin {"verify", "wrong", "right"}
        BY SMT DEF Place
      <3> QED BY <1>2, <3>1, PendingLoses DEF RecordSuccess
    <2>2. /\ DOMAIN failures' = Kept(failures) \ keys
          /\ \A j \in Kept(failures) \ keys : failures'[j] = failures[j]
      BY <1>2, OnlyIs DEF RecordSuccess
    <2>3. CASE k \in keys
      BY <2>1, <2>2, <2>3, NoCounter, Fewer
    <2>4. CASE k \notin keys
      BY <2>1, <2>2, <2>4, SameCounter, Fewer
    <2> QED BY <2>3, <2>4
  <1>3. CASE BeginSweep(t) \/ SweepRaises(t) \/ Purge(t) \/ Open(t)
    <2>1. WaitOf(k)' = WaitOf(k) /\ late'[k] = late[k]
      BY <1>3 DEF BeginSweep, SweepRaises, Purge, Open, WaitOf, Left
    <2>2. PICK place : Goes(t, place) /\ place.at \notin {"verify", "wrong", "right"}
      <3>1. CASE BeginSweep(t)
        <4>1. Place("walk", NoAddress, NoUser, Cardinality(DOMAIN sessions), now).at
                \notin {"verify", "wrong", "right"}
          BY SMT DEF Place
        <4> QED BY <3>1, <4>1 DEF BeginSweep
      <3>2. CASE Purge(t)
        <4>1. Place("open", NoAddress, NoUser, 0, 0).at \notin {"verify", "wrong", "right"}
          BY SMT DEF Place
        <4> QED BY <3>2, <4>1 DEF Purge
      <3>3. CASE SweepRaises(t) \/ Open(t)
        <4>1. Idle.at \notin {"verify", "wrong", "right"}
          BY SMT DEF Idle, Place
        <4> QED BY <3>3, <4>1 DEF SweepRaises, Open, Ends
      <3> QED BY <1>3, <3>1, <3>2, <3>3
    <2>3. Pending(k)' = Pending(k) \ {t}
      BY <2>2, PendingLoses
    <2> QED BY <2>1, <2>3, Fewer
  <1> QED BY <1>1, <1>2, <1>3, OverrunCheck, OverrunFailure DEF Login

LEMMA OverrunStep == TypeInv /\ OverrunInv /\ [Next]_vars => OverrunInv'
  <1> SUFFICES ASSUME TypeInv, OverrunInv, [Next]_vars, NEW k \in Keys PROVE Overrun(k)'
    BY DEF OverrunInv
  <1>1. ASSUME NEW x \in Tokens, Use(x) \/ Logout(x) PROVE Overrun(k)'
    <2>1. WaitOf(k)' = WaitOf(k) /\ late'[k] = late[k] /\ Pending(k)' = Pending(k)
      BY <1>1 DEF Use, Logout, WaitOf, Left, Pending
    <2> QED BY <2>1, Fewer
  <1>2. CASE Tick
    <2>1. /\ now \in Nat /\ now' = now + 1 /\ failures' = failures
          /\ late' = late /\ Pending(k)' = Pending(k)
      BY <1>2, SMT DEF TypeInv, SignInTypeOK, Tick, Pending
    <2>2. WaitOf(k)' # 0 => WaitOf(k) # 0
      BY <2>1, SMT DEF WaitOf, Left, TypeInv, SignInTypeOK
    <2> QED BY <2>1, <2>2, Fewer
  <1>3. CASE Restart
    <2>1. WaitOf(k)' = 0 /\ late'[k] = 0
      BY <1>3, NoCounter, SMT DEF Restart
    <2> QED BY <2>1, PendingFinite, SMT DEF Overrun
  <1>4. CASE UNCHANGED vars
    <2>1. WaitOf(k)' = WaitOf(k) /\ late'[k] = late[k] /\ Pending(k)' = Pending(k)
      BY <1>4 DEF vars, WaitOf, Left, Pending
    <2> QED BY <2>1, Fewer
  <1> QED BY <1>1, <1>2, <1>3, <1>4, OverrunLogin DEF Next

(* For any number of worker threads: fewer verdicts than threads fall on a *)
(* key after it was barred (auth.py, login: retry_after comes before PAM,  *)
(* record_failure after it, and the lock is held in neither interval).     *)
THEOREM OverrunBounded == Spec => []OverrunBound
  <1>1. OverrunInv => OverrunBound
    BY DEF OverrunInv, Overrun, OverrunBound
  <1> QED BY <1>1, Typed, OverrunInit, OverrunStep, PTL DEF Spec
=============================================================================
