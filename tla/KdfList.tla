------------------------------ MODULE KdfList ------------------------------
(***************************************************************************)
(* The KDF list (src/server/crypt.rs, KdfList and KdfEntry) and the edit   *)
(* closures that the key-management operations of src/server/keymgmt.rs   *)
(* apply to it inside a storage transaction.                               *)
(*                                                                         *)
(* Data abstraction.  A passphrase is a model value; an entry "matches" a  *)
(* passphrase iff it was created from it (scrypt and the SHA-3 check are   *)
(* taken to be collision free).  The salt, hash and per-group XOR wraps of *)
(* an entry are represented by what they unwrap to: the entry's key chain, *)
(* a function from group to internal key, NoKey where the entry does not   *)
(* carry the group.  Internal keys are compared only within one group, so  *)
(* a small set of key values stands for the random 32-byte keys.  The     *)
(* `created` timestamp is left out; `updated` and `used` are kept as       *)
(* whether they are Some.  Entry names are naturals, ordered as the        *)
(* BTreeMap orders its String keys.                                        *)
(*                                                                         *)
(* Each edit is a pair of operators: XxxOk(ks, ...) is the conjunction of  *)
(* the closure's early returns (FALSE = the closure returns an error and   *)
(* the transaction is aborted), Xxx(ks, ...) the edited map.  The iterators *)
(* of group names are sets: a repeated name only turns a success into an  *)
(* error, which leaves the list unchanged.                                 *)
(***************************************************************************)
EXTENDS Naturals

CONSTANTS
  Names,        \* names of KDF entries (keys of the BTreeMap)
  Passphrases,  \* passphrases a user may type
  Groups,       \* group names
  Everyone,     \* GROUP_EVERYONE
  Root,         \* GROUP_ROOT
  KeyVals,      \* values of internal keys
  NoEntry,      \* sentinel: no entry under this name
  NoName        \* the `None` of change_key's `name: Option<&str>`

ASSUME NamesAssumption ==
  /\ Names \subseteq Nat
  \* BTreeMap iteration: every non-empty set of names has a least element
  /\ \A S \in SUBSET Names : S # {} => \E n \in S : \A m \in S : n <= m

ASSUME GroupsAssumption ==
  /\ Everyone \in Groups
  /\ Root \in Groups
  /\ Everyone # Root

ASSUME KeyValsAssumption == KeyVals \subseteq Nat \ {0}

ASSUME NoNameAssumption == NoName \notin Names

NoKey == 0

(* KeyChain: group name -> internal key, NoKey where absent.               *)
Chain == [Groups -> KeyVals \cup {NoKey}]

(* KdfEntry, without the created timestamp.                                *)
Entry == [pass : Passphrases, groups : Chain, updated : BOOLEAN, used : BOOLEAN]

ASSUME NoEntryAssumption == NoEntry \notin Entry

(* KdfList.keys: BTreeMap<String, KdfEntry>.                               *)
KeyMap == [Names -> Entry \cup {NoEntry}]

EmptyKeys == [n \in Names |-> NoEntry]

Present(ks) == {n \in Names : ks[n] # NoEntry}

Carries(e, g) == e.groups[g] # NoKey

GroupNames(c) == {g \in Groups : c[g] # NoKey}

(* The entries that try_derive_key_single accepts the passphrase for.      *)
Matches(ks, p) == {n \in Present(ks) : ks[n].pass = p}

(* The least name of a set: the first one BTreeMap iteration meets.        *)
FirstOf(S) == CHOOSE n \in S : \A m \in S : n <= m

(* try_derive_key: the chain of the first matching entry.                  *)
DerivedChain(ks, p) == ks[FirstOf(Matches(ks, p))].groups

(* create_key: a fresh entry wrapping `chain` under passphrase p.          *)
create_key(p, chain, updated, used) ==
  [pass |-> p, groups |-> chain, updated |-> updated, used |-> used]

(* KeyChain::generate_new: the built-in groups with fresh keys.            *)
NewKeyChain(ke, kr) ==
  [g \in Groups |-> IF g = Everyone THEN ke ELSE IF g = Root THEN kr ELSE NoKey]

(* Chain c with the groups of `names` set to k[g] (k a chain or a key).    *)
WithGroups(c, names, k) == [g \in Groups |-> IF g \in names THEN k[g] ELSE c[g]]

WithoutGroups(c, names) == [g \in Groups |-> IF g \in names THEN NoKey ELSE c[g]]

(* The groups some entry of ks carries.                                    *)
CarriedIn(ks) == {g \in Groups : \E n \in Present(ks) : Carries(ks[n], g)}

(* Every entry of ks carries `everyone`.                                   *)
EveryoneOnAll(ks) == \A n \in Present(ks) : Carries(ks[n], Everyone)

(* Any two entries of ks carrying a group wrap the same key for it.        *)
ConsistentKeys(ks) ==
  \A n, m \in Present(ks), g \in Groups :
    Carries(ks[n], g) /\ Carries(ks[m], g) => ks[n].groups[g] = ks[m].groups[g]

-----------------------------------------------------------------------------
(* init_keys: a list holding one entry `name` for the new chain.           *)
InitKeys(p, name, ke, kr) ==
  [EmptyKeys EXCEPT ![name] = create_key(p, NewKeyChain(ke, kr), FALSE, FALSE)]

(* add_key                                                                 *)
AddKeyOk(ks, old, new, name) ==
  /\ Matches(ks, old) # {}          \* else PassphraseNotInKdfList
  /\ ks[name] = NoEntry             \* else KeyNameAlreadyInUse

AddKey(ks, old, new, name) ==
  [ks EXCEPT ![name] = create_key(new, DerivedChain(ks, old), FALSE, FALSE)]

(* del_key                                                                 *)
DelKey(ks, name) == [ks EXCEPT ![name] = NoEntry]

(* Mutant: del_key without the last-key-in-group refusal.                 *)
DelKeyOkNoGroupCheck(ks, name) ==
  /\ ks[name] # NoEntry
  /\ Present(ks) \ {name} # {}

DelKeyOk(ks, name) ==
  /\ ks[name] # NoEntry                                \* KeyNotInKdfList
  /\ Present(ks) \ {name} # {}                         \* WouldRemoveLastKdfEntry
  /\ \A g \in GroupNames(ks[name].groups) :            \* WouldDisassocLastKey...
       \E m \in Present(ks) \ {name} : Carries(ks[m], g)

(* change_key                                                              *)
RealName(ks, name) ==
  IF name # NoName THEN name ELSE CHOOSE n \in Present(ks) : TRUE

ChangeKeyChain(ks, old, real) ==
  IF ks[real].pass = old THEN ks[real].groups
  ELSE DerivedChain(DelKey(ks, real), old)

ChangeKeyOk(ks, old, new, name, allow) ==
  LET real == RealName(ks, name)
      chain == ChangeKeyChain(ks, old, real)
  IN /\ name # NoName \/ \E n \in Names : Present(ks) = {n}  \* AnonChange...
     /\ ks[real] # NoEntry                                  \* KeyNotInKdfList
     /\ \/ ks[real].pass = old
        \/ Matches(DelKey(ks, real), old) # {} /\ allow      \* ...Mismatch
     /\ \A g \in GroupNames(ks[real].groups) : chain[g] # NoKey \* KeyNotInGroup

(* Mutant: the new chain is the whole derived chain, not its restriction  *)
(* to the entry's own groups.                                              *)
ChangeKeyWholeChain(ks, old, new, name) ==
  LET real == RealName(ks, name)
  IN [ks EXCEPT ![real] =
        create_key(new, ChangeKeyChain(ks, old, real), TRUE, ks[real].used)]

ChangeKey(ks, old, new, name) ==
  LET real == RealName(ks, name)
      chain == ChangeKeyChain(ks, old, real)
  IN [ks EXCEPT ![real] =
        create_key(new, [g \in Groups |-> IF Carries(ks[real], g)
                                          THEN chain[g] ELSE NoKey],
                   TRUE, ks[real].used)]

(* derive_key_chain: marks the first matching entry used.                  *)
DeriveKeyChainOk(ks, p) == Matches(ks, p) # {}

DeriveKeyChain(ks, p) == [ks EXCEPT ![FirstOf(Matches(ks, p))].used = TRUE]

(* create_group: fresh key k for each name, on the first matching entry.   *)
(* Mutants: create_group looking for the names only in the matched        *)
(* entry's own chain, or not at all.                                       *)
CreateGroupOkOwnChain(ks, p, names) ==
  /\ Matches(ks, p) # {}
  /\ \A g \in names : ~Carries(ks[FirstOf(Matches(ks, p))], g)

CreateGroupOkNoCheck(ks, p, names) == Matches(ks, p) # {}

CreateGroupOk(ks, p, names) ==
  /\ \A g \in names : \A n \in Present(ks) : ~Carries(ks[n], g)
  /\ Matches(ks, p) # {}

CreateGroup(ks, p, names, k) ==
  LET e == FirstOf(Matches(ks, p))
  IN [ks EXCEPT ![e].groups = WithGroups(@, names, [g \in Groups |-> k])]

(* assoc_group: copy the named keys of src's chain onto dst's entry.       *)
AssocGroupOk(ks, src, dst, names) ==
  /\ Matches(ks, src) # {}
  /\ Matches(ks, dst) # {}
  /\ \A g \in names :
       /\ ~Carries(ks[FirstOf(Matches(ks, dst))], g)   \* KeyAlreadyInGroup
       /\ DerivedChain(ks, src)[g] # NoKey             \* KeyNotInGroup

AssocGroup(ks, src, dst, names) ==
  LET d == FirstOf(Matches(ks, dst))
  IN [ks EXCEPT ![d].groups = WithGroups(@, names, DerivedChain(ks, src))]

(* disassoc_group, after the refusal of `everyone` outside the tx.         *)
DisassocGroup(ks, key, names) ==
  [ks EXCEPT ![key].groups = WithoutGroups(@, names)]

DisassocGroupOk(ks, key, names) ==
  /\ ks[key] # NoEntry                                 \* KeyNotInKdfList
  /\ \A g \in names : Carries(ks[key], g)              \* KeyNotInGroup
  /\ \A g \in names :                                  \* WouldDisassocLast...
       \E n \in Present(ks) : Carries(DisassocGroup(ks, key, names)[n], g)

(* destroy_group, after the refusal of the built-ins outside the tx.       *)
DestroyGroupOk(ks, names) ==
  \A g \in names : \E n \in Present(ks) : Carries(ks[n], g)

DestroyGroup(ks, names) ==
  [n \in Names |-> IF ks[n] = NoEntry THEN NoEntry
                   ELSE [ks[n] EXCEPT !.groups = WithoutGroups(@, names)]]
=============================================================================
