--------------------------- MODULE KeyMgmtProofs ---------------------------
(***************************************************************************)
(* Proofs about KeyMgmt for every value of the constants: the type         *)
(* invariant, and the no-lockout, `everyone`-on-every-entry and            *)
(* cross-entry key-consistency invariants.                                 *)
(***************************************************************************)
EXTENDS KeyMgmt, KdfListProofs

-----------------------------------------------------------------------------
(* The conditions under which an edited list is safe.                      *)

(* The safety invariant of a list that exists.                             *)
SafeKeys(ks) ==
  /\ Present(ks) # {}
  /\ EveryoneOnAll(ks)
  /\ Root \in CarriedIn(ks)
  /\ ConsistentKeys(ks)

(* Every key carried in `new` is the key some entry of `ks` carried for    *)
(* the same group: the edit copied keys and invented none.                 *)
KeysFromOld(ks, new) ==
  \A n \in Present(new), g \in Groups :
    Carries(new[n], g) =>
      \E w \in Present(ks) : Carries(ks[w], g) /\ ks[w].groups[g] = new[n].groups[g]

(* Every group an entry carries in `ks` it still carries in `new`.         *)
Grows(ks, new) ==
  /\ Present(new) = Present(ks)
  /\ \A n \in Present(ks), g \in Groups : Carries(ks[n], g) => Carries(new[n], g)

(* No group key carried in `ks` is replaced by another one in `new`.      *)
StableKeys(ks, new) ==
  \A n \in Present(ks), m \in Present(new), g \in Groups :
    Carries(ks[n], g) /\ Carries(new[m], g) => new[m].groups[g] = ks[n].groups[g]

LEMMA StableFromOld ==
  ASSUME NEW ks \in KeyMap, NEW new \in KeyMap, ConsistentKeys(ks),
         KeysFromOld(ks, new)
  PROVE  StableKeys(ks, new)
<1> SUFFICES ASSUME NEW n \in Present(ks), NEW m \in Present(new), NEW g \in Groups,
                    Carries(ks[n], g), Carries(new[m], g)
             PROVE  new[m].groups[g] = ks[n].groups[g]
  BY DEF StableKeys
<1>1. PICK w \in Present(ks) : Carries(ks[w], g) /\ ks[w].groups[g] = new[m].groups[g]
  BY DEF KeysFromOld
<1>2. QED
  BY <1>1 DEF ConsistentKeys

LEMMA ConsistentFromOld ==
  ASSUME NEW ks \in KeyMap, NEW new \in KeyMap, ConsistentKeys(ks),
         KeysFromOld(ks, new)
  PROVE  ConsistentKeys(new)
<1> SUFFICES ASSUME NEW n \in Present(new), NEW m \in Present(new), NEW g \in Groups,
                    Carries(new[n], g), Carries(new[m], g)
             PROVE  new[n].groups[g] = new[m].groups[g]
  BY DEF ConsistentKeys
<1>1. PICK w1 \in Present(ks) : Carries(ks[w1], g) /\ ks[w1].groups[g] = new[n].groups[g]
  BY DEF KeysFromOld
<1>2. PICK w2 \in Present(ks) : Carries(ks[w2], g) /\ ks[w2].groups[g] = new[m].groups[g]
  BY DEF KeysFromOld
<1>3. QED
  BY <1>1, <1>2 DEF ConsistentKeys

LEMMA SafeFromGrowth ==
  ASSUME NEW ks \in KeyMap, NEW new \in KeyMap, SafeKeys(ks), Grows(ks, new),
         KeysFromOld(ks, new)
  PROVE  SafeKeys(new)
<1>1. Present(new) # {}
  BY DEF SafeKeys, Grows
<1>2. EveryoneOnAll(new)
  BY GroupsAssumption DEF SafeKeys, Grows, EveryoneOnAll
<1>3. Root \in CarriedIn(new)
  BY GroupsAssumption DEF SafeKeys, Grows, CarriedIn
<1>4. ConsistentKeys(new)
  BY ConsistentFromOld DEF SafeKeys
<1>5. QED
  BY <1>1, <1>2, <1>3, <1>4 DEF SafeKeys

-----------------------------------------------------------------------------
(* Each successful edit of a safe list yields a safe list, and every key  *)
(* the edited list carries is one the old list carried for that group,    *)
(* except for the fresh keys of create_group.                             *)

LEMMA InitKeysSafe ==
  ASSUME NEW p \in Passphrases, NEW name \in Names, NEW ke \in KeyVals,
         NEW kr \in KeyVals
  PROVE  SafeKeys(InitKeys(p, name, ke, kr))
<1> DEFINE X == InitKeys(p, name, ke, kr)
<1>0. create_key(p, NewKeyChain(ke, kr), FALSE, FALSE) \in Entry
  BY KeyValsAssumption DEF create_key, Entry, NewKeyChain, Chain, NoKey
<1>1. X \in KeyMap /\ Present(X) = {name}
  BY <1>0, NoEntryAssumption DEF InitKeys, EmptyKeys, Present, KeyMap
<1>2. X[name].groups = NewKeyChain(ke, kr)
  BY DEF InitKeys, EmptyKeys, create_key
<1>3. Carries(X[name], Everyone) /\ Carries(X[name], Root)
  BY <1>2, GroupsAssumption, KeyValsAssumption DEF NewKeyChain, Carries, NoKey
<1>4. QED
  BY <1>1, <1>3, GroupsAssumption DEF SafeKeys, EveryoneOnAll, CarriedIn, ConsistentKeys

LEMMA AddKeySafe ==
  ASSUME NEW ks \in KeyMap, SafeKeys(ks), NEW old, NEW new \in Passphrases,
         NEW name \in Names, AddKeyOk(ks, old, new, name)
  PROVE  /\ SafeKeys(AddKey(ks, old, new, name))
         /\ KeysFromOld(ks, AddKey(ks, old, new, name))
<1> DEFINE f == FirstOf(Matches(ks, old))
           E == create_key(new, ks[f].groups, FALSE, FALSE)
           X == AddKey(ks, old, new, name)
<1>1. f \in Present(ks) /\ ks[f] \in Entry
  BY DerivedChainType, PresentEntry DEF AddKeyOk
<1>2. E \in Entry
  BY <1>1 DEF create_key, Entry
<1>3. X = [ks EXCEPT ![name] = E]
  BY DEF AddKey, DerivedChain
<1>4. /\ X \in KeyMap
      /\ Present(X) = Present(ks) \cup {name}
      /\ X[name] = E
      /\ \A n \in Names \ {name} : X[n] = ks[n]
  BY <1>2, <1>3, NoEntryAssumption DEF KeyMap, Present
<1>5. name \notin Present(ks)
  BY DEF AddKeyOk, Present
<1>6. KeysFromOld(ks, X)
  <2> SUFFICES ASSUME NEW n \in Present(X), NEW g \in Groups, Carries(X[n], g)
               PROVE  \E w \in Present(ks) : Carries(ks[w], g) /\ ks[w].groups[g] = X[n].groups[g]
    BY DEF KeysFromOld
  <2>1. CASE n = name
    BY <1>1, <1>4, <2>1 DEF create_key, Carries
  <2>2. CASE n # name
    BY <1>4, <2>2 DEF Present
  <2>3. QED  BY <2>1, <2>2
<1>7. Grows(ks, X) => SafeKeys(X)
  BY <1>4, <1>6, SafeFromGrowth
<1>8. SafeKeys(X)
  <2>1. Present(X) # {}
    BY <1>4
  <2>2. EveryoneOnAll(X)
    <3> SUFFICES ASSUME NEW n \in Present(X) PROVE Carries(X[n], Everyone)
      BY DEF EveryoneOnAll
    <3>1. CASE n = name
      BY <1>1, <1>4, <3>1 DEF SafeKeys, EveryoneOnAll, create_key, Carries
    <3>2. CASE n # name
      BY <1>4, <3>2 DEF SafeKeys, EveryoneOnAll, Present
    <3>3. QED  BY <3>1, <3>2
  <2>3. Root \in CarriedIn(X)
    <3>1. PICK w \in Present(ks) : Carries(ks[w], Root)
      BY DEF SafeKeys, CarriedIn
    <3>2. w # name /\ w \in Present(X) /\ X[w] = ks[w]
      BY <1>4, <1>5, <3>1 DEF Present
    <3>3. QED  BY <3>1, <3>2, GroupsAssumption DEF CarriedIn
  <2>4. ConsistentKeys(X)
    BY <1>4, <1>6, ConsistentFromOld DEF SafeKeys
  <2>5. QED  BY <2>1, <2>2, <2>3, <2>4 DEF SafeKeys
<1>9. QED  BY <1>6, <1>8

LEMMA DelKeySafe ==
  ASSUME NEW ks \in KeyMap, SafeKeys(ks), NEW name \in Names, DelKeyOk(ks, name)
  PROVE  /\ SafeKeys(DelKey(ks, name))
         /\ KeysFromOld(ks, DelKey(ks, name))
<1> DEFINE X == DelKey(ks, name)
<1>1. /\ X \in KeyMap
      /\ Present(X) = Present(ks) \ {name}
      /\ \A n \in Present(ks) \ {name} : X[n] = ks[n]
  BY DelKeyType
<1>2. KeysFromOld(ks, X)
  BY <1>1 DEF KeysFromOld
<1>3. Present(X) # {}
  BY <1>1 DEF DelKeyOk
<1>4. EveryoneOnAll(X)
  BY <1>1 DEF SafeKeys, EveryoneOnAll
<1>5. Root \in CarriedIn(X)
  <2>1. PICK w \in Present(ks) : Carries(ks[w], Root)
    BY DEF SafeKeys, CarriedIn
  <2>2. CASE w # name
    BY <1>1, <2>1, <2>2, GroupsAssumption DEF CarriedIn
  <2>3. CASE w = name
    <3>1. Root \in GroupNames(ks[name].groups)
      BY <2>1, <2>3, GroupsAssumption DEF GroupNames, Carries
    <3>2. PICK m \in Present(ks) \ {name} : Carries(ks[m], Root)
      BY <3>1 DEF DelKeyOk
    <3>3. QED  BY <1>1, <3>2, GroupsAssumption DEF CarriedIn
  <2>4. QED  BY <2>2, <2>3
<1>6. ConsistentKeys(X)
  BY <1>1, <1>2, ConsistentFromOld DEF SafeKeys
<1>7. QED  BY <1>2, <1>3, <1>4, <1>5, <1>6 DEF SafeKeys

LEMMA ChangeKeySafe ==
  ASSUME NEW ks \in KeyMap, SafeKeys(ks), NEW old, NEW new \in Passphrases,
         NEW name \in Names \cup {NoName}, NEW allow \in BOOLEAN,
         ChangeKeyOk(ks, old, new, name, allow)
  PROVE  /\ SafeKeys(ChangeKey(ks, old, new, name))
         /\ KeysFromOld(ks, ChangeKey(ks, old, new, name))
<1> DEFINE real == RealName(ks, name)
           chain == ChangeKeyChain(ks, old, real)
           nc == [g \in Groups |-> IF Carries(ks[real], g) THEN chain[g] ELSE NoKey]
           E == create_key(new, nc, TRUE, ks[real].used)
           X == ChangeKey(ks, old, new, name)
<1>1. real \in Present(ks)
  <2>1. CASE name # NoName
    BY <2>1 DEF RealName, ChangeKeyOk, Present
  <2>2. CASE name = NoName
    BY <2>2 DEF RealName, ChangeKeyOk, Present
  <2>3. QED  BY <2>1, <2>2
<1>2. ks[real] \in Entry
  BY <1>1, PresentEntry
(* Every key of the new chain is a key some entry carried for its group.  *)
<1>3. \A g \in Groups : chain[g] # NoKey =>
        \E w \in Present(ks) : Carries(ks[w], g) /\ ks[w].groups[g] = chain[g]
  <2>1. CASE ks[real].pass = old
    BY <1>1, <2>1 DEF ChangeKeyChain, Carries
  <2>2. CASE ks[real].pass # old
    <3>1. Matches(DelKey(ks, real), old) # {}
      BY <2>2 DEF ChangeKeyOk
    <3>2. DelKey(ks, real) \in KeyMap
      BY <1>1, DelKeyType DEF Present
    <3> DEFINE f == FirstOf(Matches(DelKey(ks, real), old))
    <3>3. f \in Present(DelKey(ks, real)) /\ chain = DelKey(ks, real)[f].groups
      BY <2>2, <3>1, <3>2, DerivedChainType DEF ChangeKeyChain
    <3>4. f \in Present(ks) /\ DelKey(ks, real)[f] = ks[f]
      BY <1>1, <3>3, DelKeyType DEF Present
    <3>5. QED  BY <3>3, <3>4 DEF Carries
  <2>3. QED  BY <2>1, <2>2
<1>4. \A g \in Groups : Carries(ks[real], g) => chain[g] # NoKey
  BY DEF ChangeKeyOk, GroupNames, Carries
<1>5. nc \in Chain
  <2>1. chain \in Chain
    <3>1. CASE ks[real].pass = old
      BY <1>2, <3>1 DEF ChangeKeyChain, Entry
    <3>2. CASE ks[real].pass # old
      <4>1. Matches(DelKey(ks, real), old) # {}
        BY <3>2 DEF ChangeKeyOk
      <4>2. QED
        BY <1>1, <3>2, <4>1, DelKeyType, DerivedChainType DEF ChangeKeyChain, Present
    <3>3. QED  BY <3>1, <3>2
  <2>2. QED  BY <2>1 DEF Chain, NoKey
<1>6. E \in Entry
  BY <1>2, <1>5 DEF create_key, Entry
<1>7. X = [ks EXCEPT ![real] = E]
  BY DEF ChangeKey
<1>8. /\ X \in KeyMap
      /\ Present(X) = Present(ks)
      /\ X[real] = E
      /\ \A n \in Names \ {real} : X[n] = ks[n]
  BY <1>1, <1>6, <1>7, NoEntryAssumption DEF KeyMap, Present
<1>9. KeysFromOld(ks, X)
  <2> SUFFICES ASSUME NEW n \in Present(X), NEW g \in Groups, Carries(X[n], g)
               PROVE  \E w \in Present(ks) : Carries(ks[w], g) /\ ks[w].groups[g] = X[n].groups[g]
    BY DEF KeysFromOld
  <2>1. CASE n = real
    <3>1. X[n].groups[g] = nc[g] /\ nc[g] # NoKey
      BY <1>8, <2>1 DEF create_key, Carries
    <3>2. chain[g] # NoKey /\ nc[g] = chain[g]
      BY <3>1
    <3>3. QED  BY <1>3, <3>1, <3>2
  <2>2. CASE n # real
    BY <1>8, <2>2 DEF Present
  <2>3. QED  BY <2>1, <2>2
<1>10. Grows(ks, X)
  <2> SUFFICES ASSUME NEW n \in Present(ks), NEW g \in Groups, Carries(ks[n], g)
               PROVE  Carries(X[n], g)
    BY <1>8 DEF Grows
  <2>1. CASE n = real
    BY <1>4, <1>8, <2>1 DEF create_key, Carries
  <2>2. CASE n # real
    BY <1>8, <2>2 DEF Present
  <2>3. QED  BY <2>1, <2>2
<1>11. QED
  BY <1>8, <1>9, <1>10, SafeFromGrowth

LEMMA DeriveKeyChainSafe ==
  ASSUME NEW ks \in KeyMap, SafeKeys(ks), NEW p, DeriveKeyChainOk(ks, p)
  PROVE  /\ SafeKeys(DeriveKeyChain(ks, p))
         /\ KeysFromOld(ks, DeriveKeyChain(ks, p))
<1> DEFINE f == FirstOf(Matches(ks, p))
           X == DeriveKeyChain(ks, p)
<1>1. f \in Present(ks) /\ ks[f] \in Entry
  BY DerivedChainType, PresentEntry DEF DeriveKeyChainOk
<1>2. /\ X \in KeyMap
      /\ Present(X) = Present(ks)
      /\ \A n \in Present(ks) : X[n].groups = ks[n].groups
  BY <1>1, NoEntryAssumption DEF DeriveKeyChain, KeyMap, Present, Entry
<1>3. KeysFromOld(ks, X) /\ Grows(ks, X)
  BY <1>2 DEF KeysFromOld, Grows, Carries
<1>4. QED  BY <1>2, <1>3, SafeFromGrowth

LEMMA AssocGroupSafe ==
  ASSUME NEW ks \in KeyMap, SafeKeys(ks), NEW src, NEW dst,
         NEW names \in SUBSET Groups, AssocGroupOk(ks, src, dst, names)
  PROVE  /\ SafeKeys(AssocGroup(ks, src, dst, names))
         /\ KeysFromOld(ks, AssocGroup(ks, src, dst, names))
<1> DEFINE d == FirstOf(Matches(ks, dst))
           sc == DerivedChain(ks, src)
           f == FirstOf(Matches(ks, src))
           X == AssocGroup(ks, src, dst, names)
<1>1. d \in Present(ks) /\ ks[d] \in Entry
  BY DerivedChainType, PresentEntry DEF AssocGroupOk
<1>2. f \in Present(ks) /\ sc = ks[f].groups /\ sc \in Chain
  BY DerivedChainType DEF AssocGroupOk
<1>3. /\ X \in KeyMap
      /\ Present(X) = Present(ks)
      /\ X[d].groups = WithGroups(ks[d].groups, names, sc)
      /\ \A n \in Names \ {d} : X[n] = ks[n]
  <2>1. X \in KeyMap
    BY AssocGroupType
  <2>2. X = [ks EXCEPT ![d] = [ks[d] EXCEPT !.groups = WithGroups(ks[d].groups, names, sc)]]
    BY DEF AssocGroup
  <2>3. [ks[d] EXCEPT !.groups = WithGroups(ks[d].groups, names, sc)] \in Entry
    BY <1>1, <1>2 DEF Entry, WithGroups, Chain
  <2>4. QED
    BY <1>1, <2>1, <2>2, <2>3, NoEntryAssumption DEF KeyMap, Present
<1>4. \A g \in names : sc[g] # NoKey
  BY DEF AssocGroupOk
<1>5. KeysFromOld(ks, X)
  <2> SUFFICES ASSUME NEW n \in Present(X), NEW g \in Groups, Carries(X[n], g)
               PROVE  \E w \in Present(ks) : Carries(ks[w], g) /\ ks[w].groups[g] = X[n].groups[g]
    BY DEF KeysFromOld
  <2>1. CASE n = d /\ g \in names
    BY <1>2, <1>3, <1>4, <2>1 DEF WithGroups, Carries
  <2>2. CASE n = d /\ g \notin names
    BY <1>1, <1>3, <2>2 DEF WithGroups, Carries
  <2>3. CASE n # d
    BY <1>3, <2>3 DEF Present
  <2>4. QED  BY <2>1, <2>2, <2>3
<1>6. Grows(ks, X)
  <2> SUFFICES ASSUME NEW n \in Present(ks), NEW g \in Groups, Carries(ks[n], g)
               PROVE  Carries(X[n], g)
    BY <1>3 DEF Grows
  <2>1. CASE n = d /\ g \in names
    BY <1>3, <1>4, <2>1 DEF WithGroups, Carries
  <2>2. CASE n = d /\ g \notin names
    BY <1>3, <2>2 DEF WithGroups, Carries
  <2>3. CASE n # d
    BY <1>3, <2>3 DEF Present
  <2>4. QED  BY <2>1, <2>2, <2>3
<1>7. QED  BY <1>3, <1>5, <1>6, SafeFromGrowth

LEMMA CreateGroupSafe ==
  ASSUME NEW ks \in KeyMap, SafeKeys(ks), NEW p, NEW names \in SUBSET Groups,
         NEW k \in KeyVals, CreateGroupOk(ks, p, names)
  PROVE  /\ SafeKeys(CreateGroup(ks, p, names, k))
         /\ StableKeys(ks, CreateGroup(ks, p, names, k))
<1> DEFINE e == FirstOf(Matches(ks, p))
           X == CreateGroup(ks, p, names, k)
<1>1. e \in Present(ks) /\ ks[e] \in Entry
  BY DerivedChainType, PresentEntry DEF CreateGroupOk
<1>2. /\ X \in KeyMap
      /\ Present(X) = Present(ks)
      /\ \A g \in Groups : X[e].groups[g] = IF g \in names THEN k ELSE ks[e].groups[g]
      /\ \A n \in Names \ {e} : X[n] = ks[n]
  <2>1. X \in KeyMap
    BY CreateGroupType
  <2>2. [ks[e] EXCEPT !.groups = WithGroups(ks[e].groups, names, [g \in Groups |-> k])] \in Entry
    BY <1>1, KeyValsAssumption DEF Entry, WithGroups, Chain
  <2>3. QED
    BY <1>1, <2>1, <2>2, NoEntryAssumption DEF CreateGroup, WithGroups, KeyMap, Present
(* Outside `names` nothing changed; inside, only e carries the group.     *)
<1>3. \A n \in Present(ks), g \in Groups \ names : X[n].groups[g] = ks[n].groups[g]
  BY <1>2 DEF Present
<1>4. \A n \in Present(ks), g \in names : Carries(X[n], g) => n = e
  BY <1>2 DEF CreateGroupOk, Carries, Present
<1>5. Grows(ks, X)
  BY <1>2, KeyValsAssumption DEF Grows, Carries, NoKey, Present
<1>6. Present(X) # {} /\ EveryoneOnAll(X) /\ Root \in CarriedIn(X)
  <2>1. Present(X) # {}
    BY <1>2 DEF SafeKeys
  <2>2. EveryoneOnAll(X)
    BY <1>2, <1>5, GroupsAssumption DEF SafeKeys, Grows, EveryoneOnAll
  <2>3. Root \in CarriedIn(X)
    BY <1>2, <1>5 DEF SafeKeys, Grows, CarriedIn
  <2>4. QED  BY <2>1, <2>2, <2>3
<1>7. ConsistentKeys(X)
  <2> SUFFICES ASSUME NEW n \in Present(X), NEW m \in Present(X), NEW g \in Groups,
                      Carries(X[n], g), Carries(X[m], g)
               PROVE  X[n].groups[g] = X[m].groups[g]
    BY DEF ConsistentKeys
  <2>1. CASE g \in names
    BY <1>2, <1>4, <2>1
  <2>2. CASE g \notin names
    BY <1>2, <1>3, <2>2 DEF SafeKeys, ConsistentKeys, Carries
  <2>3. QED  BY <2>1, <2>2
<1>8. StableKeys(ks, X)
  <2> SUFFICES ASSUME NEW n \in Present(ks), NEW m \in Present(X), NEW g \in Groups,
                      Carries(ks[n], g), Carries(X[m], g)
               PROVE  X[m].groups[g] = ks[n].groups[g]
    BY DEF StableKeys
  <2>1. g \notin names
    BY DEF CreateGroupOk
  <2>2. m \in Present(ks) /\ X[m].groups[g] = ks[m].groups[g]
    BY <1>2, <1>3, <2>1
  <2>3. QED
    BY <2>2 DEF SafeKeys, ConsistentKeys, Carries
<1>9. QED  BY <1>6, <1>7, <1>8 DEF SafeKeys

LEMMA DisassocGroupSafe ==
  ASSUME NEW ks \in KeyMap, SafeKeys(ks), NEW key \in Names,
         NEW names \in SUBSET Groups, Everyone \notin names,
         DisassocGroupOk(ks, key, names)
  PROVE  /\ SafeKeys(DisassocGroup(ks, key, names))
         /\ KeysFromOld(ks, DisassocGroup(ks, key, names))
<1> DEFINE X == DisassocGroup(ks, key, names)
<1>1. key \in Present(ks) /\ ks[key] \in Entry
  BY PresentEntry DEF DisassocGroupOk, Present
<1>2. /\ X \in KeyMap
      /\ Present(X) = Present(ks)
      /\ \A g \in Groups : X[key].groups[g] = IF g \in names THEN NoKey ELSE ks[key].groups[g]
      /\ \A n \in Names \ {key} : X[n] = ks[n]
  <2>1. X \in KeyMap
    BY DisassocGroupType
  <2>2. [ks[key] EXCEPT !.groups = WithoutGroups(ks[key].groups, names)] \in Entry
    BY <1>1 DEF Entry, WithoutGroups, Chain, NoKey
  <2>3. QED
    BY <1>1, <2>1, <2>2, NoEntryAssumption DEF DisassocGroup, WithoutGroups, KeyMap, Present
(* Every group an entry carries after the edit it carried before, with the *)
(* same key.                                                               *)
<1>3. \A n \in Present(ks), g \in Groups :
        Carries(X[n], g) => Carries(ks[n], g) /\ X[n].groups[g] = ks[n].groups[g]
  BY <1>2 DEF Carries, NoKey, Present
<1>4. KeysFromOld(ks, X)
  BY <1>2, <1>3 DEF KeysFromOld
<1>5. ConsistentKeys(X)
  BY <1>2, <1>4, ConsistentFromOld DEF SafeKeys
<1>6. EveryoneOnAll(X)
  BY <1>2, GroupsAssumption DEF SafeKeys, EveryoneOnAll, Carries, Present
<1>7. Root \in CarriedIn(X)
  <2>1. CASE Root \in names
    BY <1>2, <2>1, GroupsAssumption DEF DisassocGroupOk, CarriedIn
  <2>2. CASE Root \notin names
    BY <1>2, <2>2, GroupsAssumption DEF SafeKeys, CarriedIn, Carries, Present
  <2>3. QED  BY <2>1, <2>2
<1>8. QED  BY <1>2, <1>4, <1>5, <1>6, <1>7 DEF SafeKeys

LEMMA DestroyGroupSafe ==
  ASSUME NEW ks \in KeyMap, SafeKeys(ks), NEW names \in SUBSET Groups,
         Everyone \notin names, Root \notin names
  PROVE  /\ SafeKeys(DestroyGroup(ks, names))
         /\ KeysFromOld(ks, DestroyGroup(ks, names))
<1> DEFINE X == DestroyGroup(ks, names)
<1>1. /\ X \in KeyMap
      /\ Present(X) = Present(ks)
      /\ \A n \in Present(ks), g \in Groups :
           X[n].groups[g] = IF g \in names THEN NoKey ELSE ks[n].groups[g]
  <2>1. X \in KeyMap
    BY DestroyGroupType
  <2>2. \A n \in Present(ks) : ks[n] \in Entry
    BY PresentEntry
  <2>3. \A n \in Present(ks) :
          /\ X[n] = [ks[n] EXCEPT !.groups = WithoutGroups(ks[n].groups, names)]
          /\ X[n] \in Entry
    <3> SUFFICES ASSUME NEW n \in Present(ks)
                 PROVE  /\ X[n] = [ks[n] EXCEPT !.groups = WithoutGroups(ks[n].groups, names)]
                        /\ X[n] \in Entry
      OBVIOUS
    <3>1. X[n] = [ks[n] EXCEPT !.groups = WithoutGroups(ks[n].groups, names)]
      BY DEF DestroyGroup, Present
    <3>2. WithoutGroups(ks[n].groups, names) \in Chain
      BY <2>2 DEF WithoutGroups, Entry, Chain, NoKey
    <3>3. QED
      BY <2>2, <3>1, <3>2 DEF Entry
  <2>4. Present(X) = Present(ks)
    BY <2>3, NoEntryAssumption DEF DestroyGroup, Present
  <2>5. ASSUME NEW n \in Present(ks), NEW g \in Groups
        PROVE  X[n].groups[g] = IF g \in names THEN NoKey ELSE ks[n].groups[g]
    <3>1. ks[n] \in Entry
      BY <2>2
    <3>2. X[n].groups = WithoutGroups(ks[n].groups, names)
      BY <2>3, <3>1 DEF Entry
    <3>3. QED  BY <3>2 DEF WithoutGroups
  <2>6. QED
    BY <2>1, <2>4, <2>5
<1>2. KeysFromOld(ks, X)
  BY <1>1 DEF KeysFromOld, Carries, NoKey
<1>3. EveryoneOnAll(X) /\ Root \in CarriedIn(X)
  BY <1>1, GroupsAssumption DEF SafeKeys, EveryoneOnAll, CarriedIn, Carries
<1>4. ConsistentKeys(X)
  BY <1>1, <1>2, ConsistentFromOld DEF SafeKeys
<1>5. QED  BY <1>1, <1>2, <1>3, <1>4 DEF SafeKeys

-----------------------------------------------------------------------------
(* The type invariant.                                                     *)
THEOREM TypeCorrect == Spec => []TypeOK
<1>1. Init => TypeOK
  BY DEF Init, TypeOK, EmptyKeys, KeyMap
<1>2. TypeOK /\ [Next]_vars => TypeOK'
  <2> SUFFICES ASSUME TypeOK, [Next]_vars PROVE TypeOK'
    OBVIOUS
  <2> USE DEF TypeOK
  <2>1. ASSUME NEW p \in Passphrases, NEW n \in Names, NEW ke \in KeyVals,
               NEW kr \in KeyVals, DoInitKeys(p, n, ke, kr)
        PROVE  TypeOK'
    BY <2>1, InitKeysType DEF DoInitKeys
  <2>2. ASSUME NEW old \in Passphrases, NEW new \in Passphrases, NEW n \in Names,
               DoAddKey(old, new, n)
        PROVE  TypeOK'
    BY <2>2, AddKeyType DEF DoAddKey, Edit
  <2>3. ASSUME NEW n \in Names, DoDelKey(n)
        PROVE  TypeOK'
    BY <2>3, DelKeyType DEF DoDelKey, Edit
  <2>4. ASSUME NEW old \in Passphrases, NEW new \in Passphrases,
               NEW n \in Names \cup {NoName}, NEW allow \in BOOLEAN,
               DoChangeKey(old, new, n, allow)
        PROVE  TypeOK'
    BY <2>4, ChangeKeyType DEF DoChangeKey, Edit
  <2>5. ASSUME NEW p \in Passphrases, DoDeriveKeyChain(p)
        PROVE  TypeOK'
    BY <2>5, DeriveKeyChainType DEF DoDeriveKeyChain, Edit
  <2>6. ASSUME NEW p \in Passphrases, NEW names \in SUBSET Groups,
               NEW k \in KeyVals, DoCreateGroup(p, names, k)
        PROVE  TypeOK'
    BY <2>6, CreateGroupType DEF DoCreateGroup, Edit
  <2>7. ASSUME NEW src \in Passphrases, NEW dst \in Passphrases,
               NEW names \in SUBSET Groups, DoAssocGroup(src, dst, names)
        PROVE  TypeOK'
    BY <2>7, AssocGroupType DEF DoAssocGroup, Edit
  <2>8. ASSUME NEW n \in Names, NEW names \in SUBSET Groups,
               DoDisassocGroup(n, names)
        PROVE  TypeOK'
    BY <2>8, DisassocGroupType DEF DoDisassocGroup, Edit
  <2>9. ASSUME NEW names \in SUBSET Groups, DoDestroyGroup(names)
        PROVE  TypeOK'
    BY <2>9, DestroyGroupType DEF DoDestroyGroup, Edit
  <2>10. CASE UNCHANGED vars
    BY <2>10 DEF vars
  <2>11. QED
    BY <2>1, <2>2, <2>3, <2>4, <2>5, <2>6, <2>7, <2>8, <2>9, <2>10 DEF Next
<1>3. QED
  BY <1>1, <1>2, PTL DEF Spec

-----------------------------------------------------------------------------
(* The inductive invariant: the type, a safe list once it exists, and no   *)
(* entries before init_keys.  NoLockout, EveryoneOnEveryEntry and          *)
(* KeyConsistency are not inductive on their own: del_key and              *)
(* disassoc_group keep `root` only because consistency ties the copies of  *)
(* a group's key together, and change_key via another passphrase keeps    *)
(* consistency only because the entry it copies from is consistent with   *)
(* the rest.                                                               *)
IInv ==
  /\ TypeOK
  /\ listExists => SafeKeys(keys)
  /\ ~listExists => keys = EmptyKeys

(* Every successful edit preserves the inductive invariant.               *)
THEOREM SafetyInductive == Spec => []IInv
<1>1. Init => IInv
  BY DEF Init, IInv, TypeOK, EmptyKeys, KeyMap
<1>2. IInv /\ [Next]_vars => IInv'
  <2> SUFFICES ASSUME IInv, [Next]_vars PROVE IInv'
    OBVIOUS
  <2> USE DEF IInv
  <2>1. ASSUME NEW p \in Passphrases, NEW n \in Names, NEW ke \in KeyVals,
               NEW kr \in KeyVals, DoInitKeys(p, n, ke, kr)
        PROVE  IInv'
    BY <2>1, InitKeysType, InitKeysSafe DEF DoInitKeys, TypeOK
  <2>2. ASSUME NEW old \in Passphrases, NEW new \in Passphrases, NEW n \in Names,
               DoAddKey(old, new, n)
        PROVE  IInv'
    BY <2>2, AddKeyType, AddKeySafe DEF DoAddKey, Edit, TypeOK
  <2>3. ASSUME NEW n \in Names, DoDelKey(n)
        PROVE  IInv'
    BY <2>3, DelKeyType, DelKeySafe DEF DoDelKey, Edit, TypeOK
  <2>4. ASSUME NEW old \in Passphrases, NEW new \in Passphrases,
               NEW n \in Names \cup {NoName}, NEW allow \in BOOLEAN,
               DoChangeKey(old, new, n, allow)
        PROVE  IInv'
    BY <2>4, ChangeKeyType, ChangeKeySafe DEF DoChangeKey, Edit, TypeOK
  <2>5. ASSUME NEW p \in Passphrases, DoDeriveKeyChain(p)
        PROVE  IInv'
    BY <2>5, DeriveKeyChainType, DeriveKeyChainSafe DEF DoDeriveKeyChain, Edit, TypeOK
  <2>6. ASSUME NEW p \in Passphrases, NEW names \in SUBSET Groups,
               NEW k \in KeyVals, DoCreateGroup(p, names, k)
        PROVE  IInv'
    BY <2>6, CreateGroupType, CreateGroupSafe DEF DoCreateGroup, Edit, TypeOK
  <2>7. ASSUME NEW src \in Passphrases, NEW dst \in Passphrases,
               NEW names \in SUBSET Groups, DoAssocGroup(src, dst, names)
        PROVE  IInv'
    BY <2>7, AssocGroupType, AssocGroupSafe DEF DoAssocGroup, Edit, TypeOK
  <2>8. ASSUME NEW n \in Names, NEW names \in SUBSET Groups,
               DoDisassocGroup(n, names)
        PROVE  IInv'
    BY <2>8, DisassocGroupType, DisassocGroupSafe DEF DoDisassocGroup, Edit, TypeOK
  <2>9. ASSUME NEW names \in SUBSET Groups, DoDestroyGroup(names)
        PROVE  IInv'
    BY <2>9, DestroyGroupType, DestroyGroupSafe DEF DoDestroyGroup, Edit, TypeOK
  <2>10. CASE UNCHANGED vars
    BY <2>10 DEF vars, TypeOK
  <2>11. QED
    BY <2>1, <2>2, <2>3, <2>4, <2>5, <2>6, <2>7, <2>8, <2>9, <2>10 DEF Next
<1>3. QED
  BY <1>1, <1>2, PTL DEF Spec

(* No lockout, `everyone` on every entry and cross-entry key consistency  *)
(* hold in every reachable state, for every set of names, passphrases,     *)
(* groups and key values.                                                  *)
THEOREM SafetyInvariants ==
  Spec => [](NoLockout /\ EveryoneOnEveryEntry /\ KeyConsistency)
<1>1. IInv => NoLockout /\ EveryoneOnEveryEntry /\ KeyConsistency
  BY GroupsAssumption
  DEF IInv, SafeKeys, NoLockout, EveryoneOnEveryEntry, KeyConsistency, CarriedIn,
      EveryoneOnAll, ConsistentKeys, Present, EmptyKeys
<1>2. QED
  BY <1>1, SafetyInductive, PTL

(* Key stability: no step of the key-management operations replaces the   *)
(* internal key of a group by another key while the group stays carried.  *)
THEOREM KeyStabilityHolds == Spec => KeyStability
<1>1. IInv /\ [Next]_vars => [KeyStable]_vars
  <2> SUFFICES ASSUME IInv, [Next]_vars PROVE KeyStable
    OBVIOUS
  <2> USE DEF IInv, TypeOK
  <2>0. SUFFICES StableKeys(keys, keys')
    BY DEF StableKeys, KeyStable, Present
  <2>1. ASSUME NEW p \in Passphrases, NEW n \in Names, NEW ke \in KeyVals,
               NEW kr \in KeyVals, DoInitKeys(p, n, ke, kr)
        PROVE  StableKeys(keys, keys')
    BY <2>1 DEF DoInitKeys, StableKeys, EmptyKeys, Present
  <2>2. ASSUME NEW old \in Passphrases, NEW new \in Passphrases, NEW n \in Names,
               DoAddKey(old, new, n)
        PROVE  StableKeys(keys, keys')
    BY <2>2, AddKeyType, AddKeySafe, StableFromOld DEF DoAddKey, Edit, SafeKeys
  <2>3. ASSUME NEW n \in Names, DoDelKey(n)
        PROVE  StableKeys(keys, keys')
    BY <2>3, DelKeyType, DelKeySafe, StableFromOld DEF DoDelKey, Edit, SafeKeys
  <2>4. ASSUME NEW old \in Passphrases, NEW new \in Passphrases,
               NEW n \in Names \cup {NoName}, NEW allow \in BOOLEAN,
               DoChangeKey(old, new, n, allow)
        PROVE  StableKeys(keys, keys')
    BY <2>4, ChangeKeyType, ChangeKeySafe, StableFromOld DEF DoChangeKey, Edit, SafeKeys
  <2>5. ASSUME NEW p \in Passphrases, DoDeriveKeyChain(p)
        PROVE  StableKeys(keys, keys')
    BY <2>5, DeriveKeyChainType, DeriveKeyChainSafe, StableFromOld
    DEF DoDeriveKeyChain, Edit, SafeKeys
  <2>6. ASSUME NEW p \in Passphrases, NEW names \in SUBSET Groups,
               NEW k \in KeyVals, DoCreateGroup(p, names, k)
        PROVE  StableKeys(keys, keys')
    BY <2>6, CreateGroupSafe DEF DoCreateGroup, Edit
  <2>7. ASSUME NEW src \in Passphrases, NEW dst \in Passphrases,
               NEW names \in SUBSET Groups, DoAssocGroup(src, dst, names)
        PROVE  StableKeys(keys, keys')
    BY <2>7, AssocGroupType, AssocGroupSafe, StableFromOld DEF DoAssocGroup, Edit, SafeKeys
  <2>8. ASSUME NEW n \in Names, NEW names \in SUBSET Groups,
               DoDisassocGroup(n, names)
        PROVE  StableKeys(keys, keys')
    BY <2>8, DisassocGroupType, DisassocGroupSafe, StableFromOld
    DEF DoDisassocGroup, Edit, SafeKeys
  <2>9. ASSUME NEW names \in SUBSET Groups, DoDestroyGroup(names)
        PROVE  StableKeys(keys, keys')
    BY <2>9, DestroyGroupType, DestroyGroupSafe, StableFromOld
    DEF DoDestroyGroup, Edit, SafeKeys
  <2>10. CASE UNCHANGED vars
    <3>1. CASE listExists
      BY <2>10, <3>1 DEF vars, SafeKeys, ConsistentKeys, StableKeys
    <3>2. CASE ~listExists
      BY <2>10, <3>2 DEF vars, StableKeys, EmptyKeys, Present
    <3>3. QED  BY <3>1, <3>2
  <2>11. QED
    BY <2>1, <2>2, <2>3, <2>4, <2>5, <2>6, <2>7, <2>8, <2>9, <2>10 DEF Next
<1>2. QED
  BY <1>1, SafetyInductive, PTL DEF KeyStability, Spec

(* Every entry carries `everyone` in every reachable state: add_key,       *)
(* change_key and init_keys copy or create it, disassoc_group and          *)
(* destroy_group refuse it.                                                *)
THEOREM EveryoneOnEveryEntryHolds == Spec => []EveryoneOnEveryEntry
BY SafetyInvariants, PTL

(* Any two entries carrying a group wrap the same key for it (spec 8.8),   *)
(* in every reachable state.                                               *)
THEOREM KeyConsistencyHolds == Spec => []KeyConsistency
BY SafetyInvariants, PTL

-----------------------------------------------------------------------------
(* An edit that gives no entry present before and after a new passphrase.  *)
PassKept(ks, new) ==
  \A n \in Present(ks) \cap Present(new) : new[n].pass = ks[n].pass

(* Every edit other than change_key keeps the passphrase of each entry it  *)
(* leaves present.                                                        *)
LEMMA GroupsKeptFromPass ==
  ASSUME PassKept(keys, keys')
  PROVE  GroupsKept
BY DEF PassKept, GroupsKept

(* change_key gives the entry `real` a new passphrase over exactly the     *)
(* groups it carried, and leaves every other entry as it was.              *)
LEMMA ChangeKeyGroups ==
  ASSUME NEW ks \in KeyMap, NEW old, NEW new \in Passphrases,
         NEW name \in Names \cup {NoName}, NEW allow \in BOOLEAN,
         ChangeKeyOk(ks, old, new, name, allow)
  PROVE  \A n \in Present(ks) \cap Present(ChangeKey(ks, old, new, name)) :
           GroupNames(ChangeKey(ks, old, new, name)[n].groups) = GroupNames(ks[n].groups)
<1> DEFINE real == RealName(ks, name)
           chain == ChangeKeyChain(ks, old, real)
           nc == [g \in Groups |-> IF Carries(ks[real], g) THEN chain[g] ELSE NoKey]
           X == ChangeKey(ks, old, new, name)
<1>1. real \in Names /\ ks[real] # NoEntry
  <2>1. CASE name # NoName
    BY <2>1 DEF RealName, ChangeKeyOk
  <2>2. CASE name = NoName
    BY <2>2 DEF RealName, ChangeKeyOk, Present
  <2>3. QED  BY <2>1, <2>2
<1>2. \A g \in Groups : Carries(ks[real], g) => chain[g] # NoKey
  BY DEF ChangeKeyOk, GroupNames, Carries
<1>3. X = [ks EXCEPT ![real] = create_key(new, nc, TRUE, ks[real].used)]
  BY DEF ChangeKey
<1>4. X[real].groups = nc /\ \A n \in Names \ {real} : X[n] = ks[n]
  BY <1>1, <1>3 DEF KeyMap, create_key
<1>5. GroupNames(nc) = GroupNames(ks[real].groups)
  BY <1>2 DEF GroupNames, Carries
<1>6. QED
  <2> SUFFICES ASSUME NEW n \in Present(ks) \cap Present(X)
               PROVE  GroupNames(X[n].groups) = GroupNames(ks[n].groups)
    OBVIOUS
  <2>1. CASE n = real
    BY <1>4, <1>5, <2>1
  <2>2. CASE n # real
    BY <1>4, <2>2 DEF Present
  <2>3. QED  BY <2>1, <2>2

(* change_key never grants an entry the groups of the passphrase it was    *)
(* derived through, nor drops one of its own: every step that changes an   *)
(* entry's passphrase keeps the set of groups the entry carries.           *)
THEOREM ChangeKeyKeepsGroupsHolds == Spec => ChangeKeyKeepsGroups
<1>1. IInv /\ [Next]_vars => [GroupsKept]_vars
  <2> SUFFICES ASSUME IInv, [Next]_vars PROVE GroupsKept
    OBVIOUS
  <2> USE DEF IInv, TypeOK
  <2>1. ASSUME NEW p \in Passphrases, NEW n \in Names, NEW ke \in KeyVals,
               NEW kr \in KeyVals, DoInitKeys(p, n, ke, kr)
        PROVE  GroupsKept
    BY <2>1 DEF DoInitKeys, GroupsKept, EmptyKeys, Present
  <2>2. ASSUME NEW old \in Passphrases, NEW new \in Passphrases, NEW n \in Names,
               DoAddKey(old, new, n)
        PROVE  GroupsKept
    <3>1. PassKept(keys, keys')
      BY <2>2 DEF DoAddKey, Edit, AddKeyOk, AddKey, PassKept, Present, KeyMap
    <3>2. QED  BY <3>1, GroupsKeptFromPass
  <2>3. ASSUME NEW n \in Names, DoDelKey(n)
        PROVE  GroupsKept
    <3>1. PassKept(keys, keys')
      BY <2>3 DEF DoDelKey, Edit, DelKey, PassKept, Present, KeyMap
    <3>2. QED  BY <3>1, GroupsKeptFromPass
  <2>4. ASSUME NEW old \in Passphrases, NEW new \in Passphrases,
               NEW n \in Names \cup {NoName}, NEW allow \in BOOLEAN,
               DoChangeKey(old, new, n, allow)
        PROVE  GroupsKept
    BY <2>4, ChangeKeyGroups DEF DoChangeKey, Edit, GroupsKept
  <2>5. ASSUME NEW p \in Passphrases, DoDeriveKeyChain(p)
        PROVE  GroupsKept
    <3>1. PassKept(keys, keys')
      BY <2>5 DEF DoDeriveKeyChain, Edit, DeriveKeyChain, PassKept, Present, KeyMap
    <3>2. QED  BY <3>1, GroupsKeptFromPass
  <2>6. ASSUME NEW p \in Passphrases, NEW names \in SUBSET Groups,
               NEW k \in KeyVals, DoCreateGroup(p, names, k)
        PROVE  GroupsKept
    <3>1. PassKept(keys, keys')
      BY <2>6 DEF DoCreateGroup, Edit, CreateGroup, PassKept, Present, KeyMap
    <3>2. QED  BY <3>1, GroupsKeptFromPass
  <2>7. ASSUME NEW src \in Passphrases, NEW dst \in Passphrases,
               NEW names \in SUBSET Groups, DoAssocGroup(src, dst, names)
        PROVE  GroupsKept
    <3>1. PassKept(keys, keys')
      BY <2>7 DEF DoAssocGroup, Edit, AssocGroup, PassKept, Present, KeyMap
    <3>2. QED  BY <3>1, GroupsKeptFromPass
  <2>8. ASSUME NEW n \in Names, NEW names \in SUBSET Groups,
               DoDisassocGroup(n, names)
        PROVE  GroupsKept
    <3>1. PassKept(keys, keys')
      BY <2>8 DEF DoDisassocGroup, Edit, DisassocGroup, PassKept, Present, KeyMap
    <3>2. QED  BY <3>1, GroupsKeptFromPass
  <2>9. ASSUME NEW names \in SUBSET Groups, DoDestroyGroup(names)
        PROVE  GroupsKept
    <3>1. PassKept(keys, keys')
      BY <2>9 DEF DoDestroyGroup, Edit, DestroyGroup, PassKept, Present, KeyMap
    <3>2. QED  BY <3>1, GroupsKeptFromPass
  <2>10. CASE UNCHANGED vars
    BY <2>10 DEF vars, GroupsKept
  <2>11. QED
    BY <2>1, <2>2, <2>3, <2>4, <2>5, <2>6, <2>7, <2>8, <2>9, <2>10 DEF Next
<1>2. QED
  BY <1>1, SafetyInductive, PTL DEF ChangeKeyKeepsGroups, Spec

=============================================================================
