------------------------------ MODULE MCSignIn ------------------------------
(* Small instances of SignIn for TLC.                                      *)
EXTENDS SignIn, TLC

Anyone == Permutations(Threads) \cup Permutations(Users)
=============================================================================
