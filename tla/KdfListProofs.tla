--------------------------- MODULE KdfListProofs ---------------------------
(***************************************************************************)
(* Lemmas about the KDF list operators of KdfList, for every value of the  *)
(* constants: first-match derivation, and that each edit closure maps a    *)
(* well-typed list to a well-typed list.  KeyMgmtProofs and                *)
(* KeyMgmtTxProofs cite them.                                              *)
(***************************************************************************)
EXTENDS KdfList, TLAPS

(* The first matching entry is one of the matches (BTreeMap iteration     *)
(* meets a least name).                                                    *)
LEMMA FirstOfIn ==
  ASSUME NEW S \in SUBSET Names, S # {}
  PROVE  FirstOf(S) \in S
BY NamesAssumption DEF FirstOf

(* A present name holds an entry.                                          *)
LEMMA PresentEntry ==
  ASSUME NEW ks \in KeyMap, NEW n \in Present(ks)
  PROVE  ks[n] \in Entry /\ n \in Names
BY DEF KeyMap, Present

(* The chain derived from a matching passphrase is a chain of an entry.    *)
LEMMA DerivedChainType ==
  ASSUME NEW ks \in KeyMap, NEW p, Matches(ks, p) # {}
  PROVE  /\ FirstOf(Matches(ks, p)) \in Present(ks)
         /\ ks[FirstOf(Matches(ks, p))].pass = p
         /\ DerivedChain(ks, p) = ks[FirstOf(Matches(ks, p))].groups
         /\ DerivedChain(ks, p) \in Chain
<1>1. FirstOf(Matches(ks, p)) \in Matches(ks, p)
  BY FirstOfIn DEF Matches, Present
<1>2. QED
  BY <1>1, PresentEntry DEF Matches, DerivedChain, Entry

LEMMA DelKeyType ==
  ASSUME NEW ks \in KeyMap, NEW name \in Names
  PROVE  /\ DelKey(ks, name) \in KeyMap
         /\ Present(DelKey(ks, name)) = Present(ks) \ {name}
         /\ \A n \in Present(ks) \ {name} : DelKey(ks, name)[n] = ks[n]
BY NoEntryAssumption DEF DelKey, KeyMap, Present

-----------------------------------------------------------------------------
(* Each edit maps a well-typed list to a well-typed list.                  *)

LEMMA InitKeysType ==
  ASSUME NEW p \in Passphrases, NEW name \in Names, NEW ke \in KeyVals,
         NEW kr \in KeyVals
  PROVE  InitKeys(p, name, ke, kr) \in KeyMap
BY DEF InitKeys, EmptyKeys, KeyMap, create_key, Entry, NewKeyChain, Chain

LEMMA AddKeyType ==
  ASSUME NEW ks \in KeyMap, NEW old, NEW new \in Passphrases,
         NEW name \in Names, AddKeyOk(ks, old, new, name)
  PROVE  AddKey(ks, old, new, name) \in KeyMap
BY DerivedChainType DEF AddKeyOk, AddKey, KeyMap, create_key, Entry

LEMMA ChangeKeyType ==
  ASSUME NEW ks \in KeyMap, NEW old, NEW new \in Passphrases,
         NEW name \in Names \cup {NoName}, NEW allow \in BOOLEAN,
         ChangeKeyOk(ks, old, new, name, allow)
  PROVE  ChangeKey(ks, old, new, name) \in KeyMap
<1> DEFINE real == RealName(ks, name)
           chain == ChangeKeyChain(ks, old, real)
<1>1. real \in Present(ks)
  <2>1. CASE name # NoName
    BY <2>1 DEF RealName, ChangeKeyOk, Present
  <2>2. CASE name = NoName
    BY <2>2 DEF RealName, ChangeKeyOk, Present
  <2>3. QED  BY <2>1, <2>2
<1>2. ks[real] \in Entry
  BY <1>1, PresentEntry
<1>3. chain \in Chain
  <2>1. CASE ks[real].pass = old
    BY <1>2, <2>1 DEF ChangeKeyChain, Entry
  <2>2. CASE ks[real].pass # old
    <3>1. Matches(DelKey(ks, real), old) # {}
      BY <2>2 DEF ChangeKeyOk
    <3>2. QED
      BY <1>1, <2>2, <3>1, DelKeyType, DerivedChainType DEF ChangeKeyChain, Present
  <2>3. QED  BY <2>1, <2>2
<1>4. [g \in Groups |-> IF Carries(ks[real], g) THEN chain[g] ELSE NoKey] \in Chain
  BY <1>3 DEF Chain, NoKey
<1>5. QED
  BY <1>1, <1>2, <1>4 DEF ChangeKey, KeyMap, create_key, Entry, Present

LEMMA DeriveKeyChainType ==
  ASSUME NEW ks \in KeyMap, NEW p, DeriveKeyChainOk(ks, p)
  PROVE  DeriveKeyChain(ks, p) \in KeyMap
<1>1. ks[FirstOf(Matches(ks, p))] \in Entry
  BY DerivedChainType, PresentEntry DEF DeriveKeyChainOk
<1>2. QED
  BY <1>1, DerivedChainType DEF DeriveKeyChainOk, DeriveKeyChain, KeyMap, Entry, Present

LEMMA CreateGroupType ==
  ASSUME NEW ks \in KeyMap, NEW p, NEW names \in SUBSET Groups,
         NEW k \in KeyVals, CreateGroupOk(ks, p, names)
  PROVE  CreateGroup(ks, p, names, k) \in KeyMap
<1>1. ks[FirstOf(Matches(ks, p))] \in Entry
  BY DerivedChainType, PresentEntry DEF CreateGroupOk
<1>2. QED
  BY <1>1, DerivedChainType DEF CreateGroupOk, CreateGroup, WithGroups, KeyMap,
     Entry, Chain, Present

LEMMA AssocGroupType ==
  ASSUME NEW ks \in KeyMap, NEW src, NEW dst, NEW names \in SUBSET Groups,
         AssocGroupOk(ks, src, dst, names)
  PROVE  AssocGroup(ks, src, dst, names) \in KeyMap
<1>1. ks[FirstOf(Matches(ks, dst))] \in Entry
  BY DerivedChainType, PresentEntry DEF AssocGroupOk
<1>2. DerivedChain(ks, src) \in Chain
  BY DerivedChainType DEF AssocGroupOk
<1>3. QED
  BY <1>1, <1>2, DerivedChainType DEF AssocGroupOk, AssocGroup, WithGroups, KeyMap,
     Entry, Chain, Present

LEMMA DisassocGroupType ==
  ASSUME NEW ks \in KeyMap, NEW key \in Names, NEW names \in SUBSET Groups,
         DisassocGroupOk(ks, key, names)
  PROVE  DisassocGroup(ks, key, names) \in KeyMap
<1>1. ks[key] \in Entry
  BY PresentEntry DEF DisassocGroupOk, Present
<1>2. QED
  BY <1>1 DEF DisassocGroup, WithoutGroups, KeyMap, Entry, Chain, NoKey

LEMMA DestroyGroupType ==
  ASSUME NEW ks \in KeyMap, NEW names \in SUBSET Groups
  PROVE  DestroyGroup(ks, names) \in KeyMap
BY DEF DestroyGroup, WithoutGroups, KeyMap, Entry, Chain, NoKey
=============================================================================
