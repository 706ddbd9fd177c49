----------------------------- MODULE MCKeyMgmt -----------------------------
(* Model-checking instance of KeyMgmt: three entry names (so that deleting *)
(* and disassociating can leave two others), two passphrases (so that two  *)
(* entries may share one), one group besides the built-ins and two key     *)
(* values (so that a second key for a group can appear).                   *)
EXTENDS KeyMgmt, TLC

CONSTANTS p1, p2, gEveryone, gRoot, gUser, noEntry, noName

MCNames == 1..3
MCPassphrases == {p1, p2}
MCGroups == {gEveryone, gRoot, gUser}
MCKeyVals == 1..2

(* Passphrases are compared only for equality.                             *)
MCSymmetry == Permutations(MCPassphrases)
=============================================================================
