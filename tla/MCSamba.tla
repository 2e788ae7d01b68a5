------------------------------ MODULE MCSamba ------------------------------
(* Small instances of SambaAdmin for TLC.                                  *)
EXTENDS SambaAdmin, TLC

LOCAL None == [a \in Accounts |-> "no"]
LOCAL Form(name, path, security, access) ==
  [name |-> name, path |-> path, security |-> security, exported |-> TRUE, access |-> access]

\* The worker threads are alike.
Threads == Permutations(Clients)

LowerCase == [docs |-> "docs"]

\* A share that is private and granted to nobody, or moved to another directory
\* with write access for one user.
OneShare   == {Form("docs", "/docs", "private", None),
               Form("docs", "/new", "secure", [None EXCEPT !["ann"] = "write"])}

\* What the page of one account sends about it.
GrantForms == {<<>>, [docs |-> "no"], [docs |-> "write"]}
=============================================================================
