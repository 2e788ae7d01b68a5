------------------------------- MODULE Access -------------------------------
(***************************************************************************)
(* What signing in promises, with countdowns instead of time stamps and    *)
(* with nothing left to clean up.  A guess is admitted while nobody counts *)
(* against it; a wrong one is counted for the account and for the address, *)
(* and too many of them bar both for a while; what nobody adds to is       *)
(* forgotten; a right one may open a session, which lasts its time and     *)
(* ends before it only by a logout or a restart.                           *)
(***************************************************************************)
EXTENDS Integers

CONSTANTS
  Threads, Subjects,    \* who tries, and as whom: an address and a name
  Keys, KeysOf(_),      \* what failures are counted for
  Lockout(_),           \* how long the n-th failure bars
  ForgetAfter, SessionTTL,
  Tokens

VARIABLES
  streak,   \* failures counted for a key
  wait,     \* how long it is still barred
  memory,   \* how long its failures are still remembered
  trying,   \* what each thread was admitted for: Nothing, a subject, Entry
  live,     \* what is left of each session
  ended     \* the sessions their users ended

avars == <<streak, wait, memory, trying, live, ended>>

Nothing == <<>>
Entry   == <<"right">>

Zero == [k \in Keys |-> 0]

Less(f) == [x \in DOMAIN f |-> IF f[x] = 0 THEN 0 ELSE f[x] - 1]

Init ==
  /\ streak = Zero /\ wait = Zero /\ memory = Zero
  /\ trying = [t \in Threads |-> Nothing]
  /\ live = [x \in Tokens |-> 0] /\ ended = {}

Counters == <<streak, wait, memory>>

Admit(t, s) ==
  /\ trying[t] = Nothing
  /\ \A k \in KeysOf(s) : wait[k] = 0
  /\ trying' = [trying EXCEPT ![t] = s]
  /\ UNCHANGED <<Counters, live, ended>>

Wrong(t, s) ==
  /\ trying[t] = s
  /\ trying' = [trying EXCEPT ![t] = Nothing]
  /\ streak' = [k \in Keys |-> IF k \in KeysOf(s) THEN streak[k] + 1 ELSE streak[k]]
  /\ memory' = [k \in Keys |-> IF k \in KeysOf(s) THEN ForgetAfter + 1 ELSE memory[k]]
  /\ wait' = [k \in Keys |-> IF k \in KeysOf(s) /\ Lockout(streak[k] + 1) > 0
                             THEN Lockout(streak[k] + 1) ELSE wait[k]]
  /\ UNCHANGED <<live, ended>>

Right(t, s) ==
  /\ trying[t] = s
  /\ trying' = [trying EXCEPT ![t] = Entry]
  /\ streak' = [k \in Keys |-> IF k \in KeysOf(s) THEN 0 ELSE streak[k]]
  /\ memory' = [k \in Keys |-> IF k \in KeysOf(s) THEN 0 ELSE memory[k]]
  /\ wait' = [k \in Keys |-> IF k \in KeysOf(s) THEN 0 ELSE wait[k]]
  /\ UNCHANGED <<live, ended>>

\* The request may also end with an error.
Open(t) ==
  /\ trying[t] = Entry
  /\ trying' = [trying EXCEPT ![t] = Nothing]
  /\ \/ \E x \in Tokens : live[x] = 0 /\ live' = [live EXCEPT ![x] = SessionTTL + 1]
     \/ UNCHANGED live
  /\ UNCHANGED <<Counters, ended>>

Logout(x) ==
  /\ live' = [live EXCEPT ![x] = 0]
  /\ ended' = ended \cup {x}
  /\ UNCHANGED <<Counters, trying>>

Pass ==
  /\ wait' = Less(wait) /\ memory' = Less(memory) /\ live' = Less(live)
  /\ streak' = [k \in Keys |-> IF memory[k] <= 1 THEN 0 ELSE streak[k]]
  /\ UNCHANGED <<trying, ended>>

Restart ==
  /\ streak' = Zero /\ wait' = Zero /\ memory' = Zero
  /\ trying' = [t \in Threads |-> Nothing]
  /\ live' = [x \in Tokens |-> 0]
  /\ UNCHANGED ended

Next ==
  \/ \E t \in Threads :
       /\ trying'[t] # trying[t]
       /\ Open(t) \/ \E s \in Subjects : Admit(t, s) \/ Wrong(t, s) \/ Right(t, s)
  \/ \E x \in Tokens : Logout(x)
  \/ Pass
  \/ Restart

Spec == Init /\ [][Next]_avars
=============================================================================
