---------------------------- MODULE MCKeyMgmtTx ----------------------------
(* Two clients on one backend.  Each may call init_keys under a name of    *)
(* its own (so that two inits race), add a second key, delete the first,   *)
(* create a user group on it and derive a key chain: each pair of these    *)
(* conflicts when the two interleave, and derive_key_chain rewrites the    *)
(* list on every call, so one client can keep committing for ever.  Two    *)
(* names, two passphrases, one user group, two key values, two retries.    *)
EXTENDS KeyMgmtTx, TLC

CONSTANTS c1, c2, p1, p2, gEveryone, gRoot, gUser, noEntry, noName

MCClients == {c1, c2}
MCNames == 1..2
MCPassphrases == {p1, p2}
MCGroups == {gEveryone, gRoot, gUser}
MCKeyVals == 1..2

MCRequests ==
  { [op |-> "init", p |-> p1, name |-> 1],
    [op |-> "init", p |-> p2, name |-> 2],
    [op |-> "add", old |-> p1, new |-> p2, name |-> 2],
    [op |-> "del", name |-> 1],
    [op |-> "create", p |-> p1, names |-> {gUser}],
    [op |-> "derive", p |-> p2] }

(* Clients are interchangeable.                                            *)
MCSymmetry == Permutations(MCClients)
=============================================================================
