------------------------------ MODULE KeyMgmt ------------------------------
(***************************************************************************)
(* The key-management operations of src/server/keymgmt.rs, each one        *)
(* transaction that commits atomically.  This is what the operations       *)
(* promise when the storage serialises transactions: every mutating        *)
(* operation applies its edit closure to the current KDF list, or fails    *)
(* and leaves the list as it was.  KeyMgmtTx refines this module with the  *)
(* clients, the retry loop of do_tx and the storage's version check.       *)
(* Failing calls are stutters, so only the successful ones are actions.    *)
(***************************************************************************)
EXTENDS KdfList

VARIABLES
  listExists,   \* whether the directory DIRID_KEYS holds a KDF list
  keys          \* the KDF list's entries

vars == <<listExists, keys>>

Init ==
  /\ listExists = FALSE
  /\ keys = EmptyKeys

(* init_keys: only when no list exists (else KdfListAlreadyExists).        *)
DoInitKeys(p, name, ke, kr) ==
  /\ ~listExists
  /\ listExists' = TRUE
  /\ keys' = InitKeys(p, name, ke, kr)

(* Every other mutating operation goes through edit_kdflist, which fails   *)
(* with KdfListNotExists when there is no list.                            *)
Edit(ok, new) ==
  /\ listExists
  /\ ok
  /\ keys' = new
  /\ UNCHANGED listExists

DoAddKey(old, new, name) ==
  Edit(AddKeyOk(keys, old, new, name), AddKey(keys, old, new, name))

DoDelKey(name) == Edit(DelKeyOk(keys, name), DelKey(keys, name))

DoChangeKey(old, new, name, allow) ==
  Edit(ChangeKeyOk(keys, old, new, name, allow), ChangeKey(keys, old, new, name))

DoDeriveKeyChain(p) == Edit(DeriveKeyChainOk(keys, p), DeriveKeyChain(keys, p))

DoCreateGroup(p, names, k) ==
  Edit(CreateGroupOk(keys, p, names), CreateGroup(keys, p, names, k))

DoAssocGroup(src, dst, names) ==
  Edit(AssocGroupOk(keys, src, dst, names), AssocGroup(keys, src, dst, names))

(* Mutant: disassoc_group without the refusal of `everyone`.              *)
DoDisassocGroupAnyGroup(key, names) ==
  Edit(DisassocGroupOk(keys, key, names), DisassocGroup(keys, key, names))

DoDisassocGroup(key, names) ==
  /\ Everyone \notin names                      \* CannotDisassocGroup
  /\ Edit(DisassocGroupOk(keys, key, names), DisassocGroup(keys, key, names))

DoDestroyGroup(names) ==
  /\ Everyone \notin names /\ Root \notin names  \* CannotDestroyGroup
  /\ Edit(DestroyGroupOk(keys, names), DestroyGroup(keys, names))

Next ==
  \/ \E p \in Passphrases, n \in Names, ke, kr \in KeyVals : DoInitKeys(p, n, ke, kr)
  \/ \E old, new \in Passphrases, n \in Names : DoAddKey(old, new, n)
  \/ \E n \in Names : DoDelKey(n)
  \/ \E old, new \in Passphrases, n \in Names \cup {NoName}, allow \in BOOLEAN :
       DoChangeKey(old, new, n, allow)
  \/ \E p \in Passphrases : DoDeriveKeyChain(p)
  \/ \E p \in Passphrases, names \in SUBSET Groups, k \in KeyVals :
       DoCreateGroup(p, names, k)
  \/ \E src, dst \in Passphrases, names \in SUBSET Groups :
       DoAssocGroup(src, dst, names)
  \/ \E n \in Names, names \in SUBSET Groups : DoDisassocGroup(n, names)
  \/ \E names \in SUBSET Groups : DoDestroyGroup(names)

Spec == Init /\ [][Next]_vars

-----------------------------------------------------------------------------
TypeOK ==
  /\ listExists \in BOOLEAN
  /\ keys \in KeyMap

(* No lockout (spec 8.9; del_key, disassoc_group, destroy_group and        *)
(* change_key): once the list exists it is never emptied, and the built-in *)
(* groups are always carried by some entry, so their keys stay derivable.  *)
NoLockout ==
  listExists => /\ Present(keys) # {}
                /\ {Everyone, Root} \subseteq CarriedIn(keys)

(* Every entry carries `everyone` (init_keys, add_key and change_key copy  *)
(* groups; disassoc_group and destroy_group refuse `everyone`).            *)
EveryoneOnEveryEntry == EveryoneOnAll(keys)

(* Cross-entry consistency (spec 8.8): any two entries carrying a group    *)
(* unwrap the same internal key for it, whatever mix of add_key,           *)
(* change_key (also via another passphrase), create_group and assoc_group  *)
(* produced them.                                                          *)
KeyConsistency == ConsistentKeys(keys)

(* Key stability: no step replaces the internal key of a group that stays  *)
(* carried.  Data encrypted under a group key stays readable through every *)
(* passphrase change, re-association and deletion.                         *)
KeyStable ==
  \A n, m \in Names, g \in Groups :
    keys[n] # NoEntry /\ Carries(keys[n], g) /\
    keys'[m] # NoEntry /\ Carries(keys'[m], g) =>
      keys'[m].groups[g] = keys[n].groups[g]

KeyStability == [][KeyStable]_vars

(* change_key rebuilds the entry's chain over the entry's own groups      *)
(* (keymgmt.rs:219-223), also when the chain was derived through another  *)
(* entry's passphrase: a step that changes an entry's passphrase leaves   *)
(* the entry carrying exactly the groups it carried, so the other         *)
(* passphrase's groups are not granted to it and none of its own is lost. *)
GroupsKept ==
  \A n \in Present(keys) \cap Present(keys') :
    keys'[n].pass # keys[n].pass =>
      GroupNames(keys'[n].groups) = GroupNames(keys[n].groups)

ChangeKeyKeepsGroups == [][GroupsKept]_vars

-----------------------------------------------------------------------------
(* Spec section 3, invariant 3: `everyone` and `root` are present on every *)
(* entry.  disassoc_group refuses only `everyone` (keymgmt.rs:325-330), so *)
(* `root` can be removed from an entry that another entry backs up.        *)
RootOnEveryEntry ==
  \A n \in Present(keys) : Carries(keys[n], Root)

(* Spec 8.7, key-derivation soundness: the passphrase an entry was created *)
(* from derives that entry's chain.  add_key accepts a new passphrase that *)
(* an entry already has, and try_derive_key returns the first match only.  *)
DerivationSound ==
  \A n \in Present(keys) : DerivedChain(keys, keys[n].pass) = keys[n].groups
=============================================================================
