SPECIFICATION Spec
CONSTANTS
  Threads = {t1, t2}
  Addresses = {a1}
  Users = {u1, u2}
  NoAddress = noaddress
  NoUser = nouser
  FREE_ATTEMPTS = 1
  FIRST_LOCKOUT = 1
  MAX_LOCKOUT = 2
  FORGET_AFTER = 2
  SESSION_TTL = 1
  MaxTime = 3
  MaxSessions = 2
SYMMETRY Anyone
INVARIANTS SignInTypeOK OverrunBound
PROPERTIES ImplementsAccess
