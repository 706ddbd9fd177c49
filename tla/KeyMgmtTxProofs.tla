-------------------------- MODULE KeyMgmtTxProofs --------------------------
(***************************************************************************)
(* Proofs about the transaction layer KeyMgmtTx for every set of clients,  *)
(* every retry bound and every set of requests: its type invariant, that   *)
(* it implements the atomic KeyMgmt specification, and that do_tx gives up *)
(* only under contention.  CallsReturn (liveness) stays with TLC.          *)
(***************************************************************************)
EXTENDS KeyMgmtTx, KdfListProofs

(* The type invariant with the two facts about a client inside do_tx that *)
(* keep it inductive: in the body or at commit the loop has an attempt     *)
(* left, and at commit put_kdflist has staged a list.                      *)
TypeInv ==
  /\ TypeOK
  /\ \A c \in Clients :
       /\ pc[c] \in {"body", "commit"} => tries[c] < MaxRetries
       /\ pc[c] = "commit" => staged[c] \in KeyMap

(* What a client at commit that is not stale has staged: the edit of its   *)
(* request applied to the committed list, whose guards hold on that list   *)
(* (for init_keys: the new list, and no list exists).                      *)
Ready(c) ==
  LET r == req[c] IN
  IF r.op = "init"
    THEN /\ ~dirExists
         /\ \E ke, kr \in KeyVals : staged[c] = InitKeys(r.p, r.name, ke, kr)
    ELSE /\ dirExists
         /\ EditOk(r, dirKeys)
         /\ \E k \in KeyVals : staged[c] = Edited(r, dirKeys, k)

(* What the refinement needs of one client: a running request passed its  *)
(* pre-checks, and an unstale commit is Ready.  It is the version check    *)
(* that keeps the second conjunct true: any commit of another client makes *)
(* the snapshot stale.                                                     *)
ClientRefInv(c) ==
  /\ pc[c] # "idle" => PreCheckOk(req[c])
  /\ pc[c] = "commit" /\ ~stale[c] => Ready(c)

(* The invariant the refinement rests on: also, no list means the empty   *)
(* list, which is what KeyMgmt's Init and init_keys expect.                *)
RefInv ==
  /\ TypeInv
  /\ ~dirExists => dirKeys = EmptyKeys
  /\ \A c \in Clients : ClientRefInv(c)

(* The counting behind RetriesMeanContention: every conflict a client met  *)
(* is matched by a distinct commit of another client during its call, and  *)
(* a stale snapshot at commit by one more.                                 *)
ClientRetriesInv(c) ==
  /\ pc[c] \in {"start", "body"} => tries[c] <= replaced[c]
  /\ pc[c] = "commit" =>
       tries[c] + (IF stale[c] THEN 1 ELSE 0) <= replaced[c]
  /\ outcome[c] = "retries" => replaced[c] >= MaxRetries

RetriesInv ==
  /\ TypeInv
  /\ \A c \in Clients : ClientRetriesInv(c)

-----------------------------------------------------------------------------
(* The fields of a request of each kind.                                   *)
LEMMA RequestKinds ==
  ASSUME NEW r \in AllRequests
  PROVE  \/ r.op = "init" /\ r.p \in Passphrases /\ r.name \in Names
         \/ r.op = "add" /\ r.old \in Passphrases /\ r.new \in Passphrases
            /\ r.name \in Names
         \/ r.op = "del" /\ r.name \in Names
         \/ r.op = "change" /\ r.old \in Passphrases /\ r.new \in Passphrases
            /\ r.name \in Names \cup {NoName} /\ r.allow \in BOOLEAN
         \/ r.op = "derive" /\ r.p \in Passphrases
         \/ r.op = "create" /\ r.p \in Passphrases /\ r.names \in SUBSET Groups
         \/ r.op = "assoc" /\ r.src \in Passphrases /\ r.dst \in Passphrases
            /\ r.names \in SUBSET Groups
         \/ r.op = "disassoc" /\ r.key \in Names /\ r.names \in SUBSET Groups
         \/ r.op = "destroy" /\ r.names \in SUBSET Groups
BY DEF AllRequests

(* The edit of a request whose guards hold is a well-typed list.           *)
LEMMA EditedType ==
  ASSUME NEW r \in AllRequests, NEW ks \in KeyMap, NEW k \in KeyVals,
         r.op # "init", EditOk(r, ks)
  PROVE  Edited(r, ks, k) \in KeyMap
<1>1. CASE r.op = "add"
  <2>1. /\ EditOk(r, ks) = AddKeyOk(ks, r.old, r.new, r.name)
        /\ Edited(r, ks, k) = AddKey(ks, r.old, r.new, r.name)
    BY <1>1, Zenon DEF EditOk, Edited
  <2>2. QED
    BY <1>1, <2>1, RequestKinds, AddKeyType
<1>2. CASE r.op = "del"
  <2>1. /\ EditOk(r, ks) = DelKeyOk(ks, r.name)
        /\ Edited(r, ks, k) = DelKey(ks, r.name)
    BY <1>2, Zenon DEF EditOk, Edited
  <2>2. QED
    BY <1>2, <2>1, RequestKinds, DelKeyType
<1>3. CASE r.op = "change"
  <2>1. /\ EditOk(r, ks) = ChangeKeyOk(ks, r.old, r.new, r.name, r.allow)
        /\ Edited(r, ks, k) = ChangeKey(ks, r.old, r.new, r.name)
    BY <1>3, Zenon DEF EditOk, Edited
  <2>2. QED
    BY <1>3, <2>1, RequestKinds, ChangeKeyType
<1>4. CASE r.op = "derive"
  <2>1. /\ EditOk(r, ks) = DeriveKeyChainOk(ks, r.p)
        /\ Edited(r, ks, k) = DeriveKeyChain(ks, r.p)
    BY <1>4, Zenon DEF EditOk, Edited
  <2>2. QED
    BY <1>4, <2>1, RequestKinds, DeriveKeyChainType
<1>5. CASE r.op = "create"
  <2>1. /\ EditOk(r, ks) = CreateGroupOk(ks, r.p, r.names)
        /\ Edited(r, ks, k) = CreateGroup(ks, r.p, r.names, k)
    BY <1>5, Zenon DEF EditOk, Edited
  <2>2. QED
    BY <1>5, <2>1, RequestKinds, CreateGroupType
<1>6. CASE r.op = "assoc"
  <2>1. /\ EditOk(r, ks) = AssocGroupOk(ks, r.src, r.dst, r.names)
        /\ Edited(r, ks, k) = AssocGroup(ks, r.src, r.dst, r.names)
    BY <1>6, Zenon DEF EditOk, Edited
  <2>2. QED
    BY <1>6, <2>1, RequestKinds, AssocGroupType
<1>7. CASE r.op = "disassoc"
  <2>1. /\ EditOk(r, ks) = DisassocGroupOk(ks, r.key, r.names)
        /\ Edited(r, ks, k) = DisassocGroup(ks, r.key, r.names)
    BY <1>7, Zenon DEF EditOk, Edited
  <2>2. QED
    BY <1>7, <2>1, RequestKinds, DisassocGroupType
<1>8. CASE r.op = "destroy"
  <2>1. /\ EditOk(r, ks) = DestroyGroupOk(ks, r.names)
        /\ Edited(r, ks, k) = DestroyGroup(ks, r.names)
    BY <1>8, Zenon DEF EditOk, Edited
  <2>2. QED
    BY <1>8, <2>1, RequestKinds, DestroyGroupType
<1>9. QED
  BY <1>1, <1>2, <1>3, <1>4, <1>5, <1>6, <1>7, <1>8, RequestKinds

-----------------------------------------------------------------------------
(* The initial state satisfies TypeInv.                                    *)
LEMMA InitTypeInv == Init => TypeInv
<1> SUFFICES ASSUME Init PROVE TypeInv
  OBVIOUS
<1>1. (CHOOSE r \in Requests : TRUE) \in Requests
  BY RequestsAssumption
<1>2. EmptyKeys \in KeyMap
  BY DEF EmptyKeys, KeyMap
<1>3. TypeOK
  <2>1. dirExists \in BOOLEAN /\ dirKeys \in KeyMap
    BY <1>2 DEF Init
  <2>2. pc \in [Clients -> {"idle", "start", "body", "commit"}]
    BY DEF Init
  <2>3. req \in [Clients -> Requests]
    BY <1>1 DEF Init
  <2>4. tries \in [Clients -> 0..MaxRetries] /\ replaced \in [Clients -> 0..MaxRetries]
    BY MaxRetriesAssumption DEF Init
  <2>5. staged \in [Clients -> KeyMap \cup {NoWrite}]
    BY DEF Init
  <2>6. stale \in [Clients -> BOOLEAN]
    BY DEF Init
  <2>7. outcome \in [Clients -> {"none", "ok", "err", "retries"}]
    BY DEF Init
  <2>8. QED
    BY <2>1, <2>2, <2>3, <2>4, <2>5, <2>6, <2>7 DEF TypeOK
<1>4. QED
  BY <1>3 DEF Init, TypeInv

(* Every step preserves TypeInv.                                           *)
LEMMA NextTypeInv == TypeInv /\ [Next]_vars => TypeInv'
<1> SUFFICES ASSUME TypeInv, [Next]_vars PROVE TypeInv'
  OBVIOUS
<1> USE MaxRetriesAssumption DEF TypeInv, TypeOK
<1>1. ASSUME NEW c \in Clients, NEW r \in Requests, Call(c, r)
      PROVE  TypeInv'
  BY <1>1 DEF Call, Return
<1>2. ASSUME NEW c \in Clients, StartTx(c)
      PROVE  TypeInv'
  BY <1>2 DEF StartTx, Return
<1>3. ASSUME NEW c \in Clients, TooManyTxRetries(c)
      PROVE  TypeInv'
  BY <1>3 DEF TooManyTxRetries, Return
<1>4. ASSUME NEW c \in Clients, RunClosure(c)
      PROVE  TypeInv'
  <2> DEFINE r == req[c]
  <2>1. r \in AllRequests
    BY RequestsAssumption
  <2>2. PICK ke \in KeyVals, kr \in KeyVals :
          IF r.op = "init"
            THEN staged' = [staged EXCEPT ![c] = InitKeys(r.p, r.name, ke, kr)]
            ELSE /\ EditOk(r, dirKeys)
                 /\ staged' = [staged EXCEPT ![c] = Edited(r, dirKeys, ke)]
    BY <1>4 DEF RunClosure
  <2>3. staged'[c] \in KeyMap
    <3>1. CASE r.op = "init"
      BY <2>1, <2>2, <3>1, RequestKinds, InitKeysType
    <3>2. CASE r.op # "init"
      BY <2>1, <2>2, <3>2, EditedType
    <3>3. QED  BY <3>1, <3>2
  <2>4. QED
    BY <1>4, <2>2, <2>3 DEF RunClosure
<1>5. ASSUME NEW c \in Clients, ClosureError(c)
      PROVE  TypeInv'
  BY <1>5 DEF ClosureError, Return
<1>6. ASSUME NEW c \in Clients, CommitOk(c)
      PROVE  TypeInv'
  BY <1>6 DEF CommitOk, Install, Return
<1>7. ASSUME NEW c \in Clients, CommitConflict(c)
      PROVE  TypeInv'
  BY <1>7 DEF CommitConflict
<1>8. ASSUME NEW c \in Clients, CommitError(c)
      PROVE  TypeInv'
  <2>1. CASE ~stale[c] /\ Install(c)
    BY <1>8, <2>1 DEF CommitError, Install, Return
  <2>2. CASE UNCHANGED <<dirExists, dirKeys, stale, replaced>>
    BY <1>8, <2>2 DEF CommitError, Return
  <2>3. QED  BY <1>8, <2>1, <2>2 DEF CommitError
<1>9. CASE UNCHANGED vars
  BY <1>9 DEF vars
<1>10. QED
  BY <1>1, <1>2, <1>3, <1>4, <1>5, <1>6, <1>7, <1>8, <1>9 DEF Next, Step

(* TypeInv holds in every reachable state.                                 *)
THEOREM TypeInvariant == Spec => []TypeInv
BY InitTypeInv, NextTypeInv, PTL DEF Spec

(* Every reachable state of the concurrent transaction layer is well       *)
(* typed: in particular a commit installs a list, never the empty staging  *)
(* slot, and the retry counter stays within do_tx's bound.                 *)
THEOREM TypeCorrect == Spec => []TypeOK
BY TypeInvariant, PTL DEF TypeInv

-----------------------------------------------------------------------------
(* The KdfList operators seen through the instance KM are the ones this  *)
(* module uses: KeyMgmt and KeyMgmtTx edit the list with the same code.   *)
LEMMA KMSameEdits ==
  ASSUME NEW ks, NEW p, NEW q, NEW x, NEW b, NEW S, NEW ke, NEW kr
  PROVE  /\ KM!InitKeys(p, x, ke, kr) = InitKeys(p, x, ke, kr)
         /\ KM!AddKeyOk(ks, p, q, x) = AddKeyOk(ks, p, q, x)
         /\ KM!AddKey(ks, p, q, x) = AddKey(ks, p, q, x)
         /\ KM!DelKeyOk(ks, x) = DelKeyOk(ks, x)
         /\ KM!DelKey(ks, x) = DelKey(ks, x)
         /\ KM!ChangeKeyOk(ks, p, q, x, b) = ChangeKeyOk(ks, p, q, x, b)
         /\ KM!ChangeKey(ks, p, q, x) = ChangeKey(ks, p, q, x)
         /\ KM!DeriveKeyChainOk(ks, p) = DeriveKeyChainOk(ks, p)
         /\ KM!DeriveKeyChain(ks, p) = DeriveKeyChain(ks, p)
         /\ KM!CreateGroupOk(ks, p, S) = CreateGroupOk(ks, p, S)
         /\ KM!CreateGroup(ks, p, S, ke) = CreateGroup(ks, p, S, ke)
         /\ KM!AssocGroupOk(ks, p, q, S) = AssocGroupOk(ks, p, q, S)
         /\ KM!AssocGroup(ks, p, q, S) = AssocGroup(ks, p, q, S)
         /\ KM!DisassocGroupOk(ks, x, S) = DisassocGroupOk(ks, x, S)
         /\ KM!DisassocGroup(ks, x, S) = DisassocGroup(ks, x, S)
         /\ KM!DestroyGroupOk(ks, S) = DestroyGroupOk(ks, S)
         /\ KM!DestroyGroup(ks, S) = DestroyGroup(ks, S)
<1> USE DEF KM!Present, Present, KM!Carries, Carries,
            KM!GroupNames, GroupNames, KM!Matches, Matches,
            KM!FirstOf, FirstOf, KM!DerivedChain, DerivedChain,
            KM!create_key, create_key, KM!NewKeyChain, NewKeyChain,
            KM!WithGroups, WithGroups, KM!WithoutGroups, WithoutGroups,
            KM!DelKey, DelKey, KM!RealName, RealName,
            KM!ChangeKeyChain, ChangeKeyChain, KM!NoKey, NoKey,
            KM!EmptyKeys, EmptyKeys
<1>1. KM!InitKeys(p, x, ke, kr) = InitKeys(p, x, ke, kr)
  BY DEF KM!InitKeys, InitKeys
<1>2. KM!AddKeyOk(ks, p, q, x) = AddKeyOk(ks, p, q, x)
  BY DEF KM!AddKeyOk, AddKeyOk
<1>3. KM!AddKey(ks, p, q, x) = AddKey(ks, p, q, x)
  BY DEF KM!AddKey, AddKey
<1>4. KM!DelKeyOk(ks, x) = DelKeyOk(ks, x)
  BY DEF KM!DelKeyOk, DelKeyOk
<1>5. KM!DelKey(ks, x) = DelKey(ks, x)
  BY DEF KM!DelKey, DelKey
<1>6. KM!ChangeKeyOk(ks, p, q, x, b) = ChangeKeyOk(ks, p, q, x, b)
  BY DEF KM!ChangeKeyOk, ChangeKeyOk
<1>7. KM!ChangeKey(ks, p, q, x) = ChangeKey(ks, p, q, x)
  BY DEF KM!ChangeKey, ChangeKey
<1>8. KM!DeriveKeyChainOk(ks, p) = DeriveKeyChainOk(ks, p)
  BY DEF KM!DeriveKeyChainOk, DeriveKeyChainOk
<1>9. KM!DeriveKeyChain(ks, p) = DeriveKeyChain(ks, p)
  BY DEF KM!DeriveKeyChain, DeriveKeyChain
<1>10. KM!CreateGroupOk(ks, p, S) = CreateGroupOk(ks, p, S)
  BY DEF KM!CreateGroupOk, CreateGroupOk
<1>11. KM!CreateGroup(ks, p, S, ke) = CreateGroup(ks, p, S, ke)
  BY DEF KM!CreateGroup, CreateGroup
<1>12. KM!AssocGroupOk(ks, p, q, S) = AssocGroupOk(ks, p, q, S)
  BY DEF KM!AssocGroupOk, AssocGroupOk
<1>13. KM!AssocGroup(ks, p, q, S) = AssocGroup(ks, p, q, S)
  BY DEF KM!AssocGroup, AssocGroup
<1>14. KM!DisassocGroup(ks, x, S) = DisassocGroup(ks, x, S)
  BY DEF KM!DisassocGroup, DisassocGroup
<1>15. KM!DisassocGroupOk(ks, x, S) = DisassocGroupOk(ks, x, S)
  BY <1>14 DEF KM!DisassocGroupOk, DisassocGroupOk
<1>16. KM!DestroyGroupOk(ks, S) = DestroyGroupOk(ks, S)
  BY DEF KM!DestroyGroupOk, DestroyGroupOk
<1>17. KM!DestroyGroup(ks, S) = DestroyGroup(ks, S)
  BY DEF KM!DestroyGroup, DestroyGroup
<1>18. QED
  BY <1>1, <1>2, <1>3, <1>4, <1>5, <1>6, <1>7, <1>8, <1>9, <1>10, <1>11, <1>12, <1>13, <1>14, <1>15, <1>16, <1>17

(* An install of an edit whose guards hold on the committed list, by a     *)
(* request that passed its pre-checks, is a step of the atomic KeyMgmt:    *)
(* the operation edit_kdflist would have performed on that list.           *)
LEMMA EditIsKMStep ==
  ASSUME NEW r \in AllRequests, NEW k \in KeyVals, r.op # "init",
         PreCheckOk(r), dirExists, EditOk(r, dirKeys),
         dirExists' = TRUE, dirKeys' = Edited(r, dirKeys, k)
  PROVE  KM!Next
<1>1. CASE r.op = "add"
  <2>1. /\ EditOk(r, dirKeys) = AddKeyOk(dirKeys, r.old, r.new, r.name)
        /\ Edited(r, dirKeys, k) = AddKey(dirKeys, r.old, r.new, r.name)
    BY <1>1, Zenon DEF EditOk, Edited
  <2>2. KM!DoAddKey(r.old, r.new, r.name)
    BY <1>1, <2>1, KMSameEdits DEF KM!DoAddKey, KM!Edit, PreCheckOk
  <2>3. QED
    BY <1>1, <2>2, RequestKinds DEF KM!Next
<1>2. CASE r.op = "del"
  <2>1. /\ EditOk(r, dirKeys) = DelKeyOk(dirKeys, r.name)
        /\ Edited(r, dirKeys, k) = DelKey(dirKeys, r.name)
    BY <1>2, Zenon DEF EditOk, Edited
  <2>2. KM!DoDelKey(r.name)
    BY <1>2, <2>1, KMSameEdits DEF KM!DoDelKey, KM!Edit, PreCheckOk
  <2>3. QED
    BY <1>2, <2>2, RequestKinds DEF KM!Next
<1>3. CASE r.op = "change"
  <2>1. /\ EditOk(r, dirKeys) = ChangeKeyOk(dirKeys, r.old, r.new, r.name, r.allow)
        /\ Edited(r, dirKeys, k) = ChangeKey(dirKeys, r.old, r.new, r.name)
    BY <1>3, Zenon DEF EditOk, Edited
  <2>2. KM!DoChangeKey(r.old, r.new, r.name, r.allow)
    BY <1>3, <2>1, KMSameEdits DEF KM!DoChangeKey, KM!Edit, PreCheckOk
  <2>3. QED
    BY <1>3, <2>2, RequestKinds DEF KM!Next
<1>4. CASE r.op = "derive"
  <2>1. /\ EditOk(r, dirKeys) = DeriveKeyChainOk(dirKeys, r.p)
        /\ Edited(r, dirKeys, k) = DeriveKeyChain(dirKeys, r.p)
    BY <1>4, Zenon DEF EditOk, Edited
  <2>2. KM!DoDeriveKeyChain(r.p)
    BY <1>4, <2>1, KMSameEdits DEF KM!DoDeriveKeyChain, KM!Edit, PreCheckOk
  <2>3. QED
    BY <1>4, <2>2, RequestKinds DEF KM!Next
<1>5. CASE r.op = "create"
  <2>1. /\ EditOk(r, dirKeys) = CreateGroupOk(dirKeys, r.p, r.names)
        /\ Edited(r, dirKeys, k) = CreateGroup(dirKeys, r.p, r.names, k)
    BY <1>5, Zenon DEF EditOk, Edited
  <2>2. KM!DoCreateGroup(r.p, r.names, k)
    BY <1>5, <2>1, KMSameEdits DEF KM!DoCreateGroup, KM!Edit, PreCheckOk
  <2>3. QED
    BY <1>5, <2>2, RequestKinds DEF KM!Next
<1>6. CASE r.op = "assoc"
  <2>1. /\ EditOk(r, dirKeys) = AssocGroupOk(dirKeys, r.src, r.dst, r.names)
        /\ Edited(r, dirKeys, k) = AssocGroup(dirKeys, r.src, r.dst, r.names)
    BY <1>6, Zenon DEF EditOk, Edited
  <2>2. KM!DoAssocGroup(r.src, r.dst, r.names)
    BY <1>6, <2>1, KMSameEdits DEF KM!DoAssocGroup, KM!Edit, PreCheckOk
  <2>3. QED
    BY <1>6, <2>2, RequestKinds DEF KM!Next
<1>7. CASE r.op = "disassoc"
  <2>1. /\ EditOk(r, dirKeys) = DisassocGroupOk(dirKeys, r.key, r.names)
        /\ Edited(r, dirKeys, k) = DisassocGroup(dirKeys, r.key, r.names)
    BY <1>7, Zenon DEF EditOk, Edited
  <2>2. KM!DoDisassocGroup(r.key, r.names)
    BY <1>7, <2>1, KMSameEdits DEF KM!DoDisassocGroup, KM!Edit, PreCheckOk
  <2>3. QED
    BY <1>7, <2>2, RequestKinds DEF KM!Next
<1>8. CASE r.op = "destroy"
  <2>1. /\ EditOk(r, dirKeys) = DestroyGroupOk(dirKeys, r.names)
        /\ Edited(r, dirKeys, k) = DestroyGroup(dirKeys, r.names)
    BY <1>8, Zenon DEF EditOk, Edited
  <2>2. KM!DoDestroyGroup(r.names)
    BY <1>8, <2>1, KMSameEdits DEF KM!DoDestroyGroup, KM!Edit, PreCheckOk
  <2>3. QED
    BY <1>8, <2>2, RequestKinds DEF KM!Next
<1>9. QED
  BY <1>1, <1>2, <1>3, <1>4, <1>5, <1>6, <1>7, <1>8, RequestKinds


-----------------------------------------------------------------------------
(* A step that leaves a client's slots and the committed list alone keeps  *)
(* what RefInv says of that client.                                        *)
LEMMA ClientFrame ==
  ASSUME NEW d \in Clients, ClientRefInv(d),
         pc'[d] = pc[d], req'[d] = req[d], staged'[d] = staged[d],
         stale'[d] = stale[d], dirExists' = dirExists, dirKeys' = dirKeys
  PROVE  ClientRefInv(d)'
BY DEF ClientRefInv, Ready

(* The initial state satisfies RefInv.                                     *)
LEMMA InitRefInv == Init => RefInv
<1> SUFFICES ASSUME Init PROVE RefInv
  OBVIOUS
<1>1. TypeInv
  BY InitTypeInv
<1>2. \A c \in Clients : ClientRefInv(c)
  BY DEF Init, ClientRefInv
<1>3. QED
  BY <1>1, <1>2 DEF Init, RefInv


(* Every step preserves RefInv.                                            *)
LEMMA NextRefInv == RefInv /\ [Next]_vars => RefInv'
<1> SUFFICES ASSUME RefInv, [Next]_vars PROVE RefInv'
  OBVIOUS
<1>0. TypeInv'
  BY NextTypeInv DEF RefInv
<1> USE DEF RefInv, TypeInv, TypeOK
<1>1. ASSUME NEW c \in Clients, NEW r \in Requests, Call(c, r)
      PROVE  RefInv'
  <2>1. ClientRefInv(c)'
    BY <1>1, RequestsAssumption DEF Call, Return, ClientRefInv
  <2>2. ASSUME NEW d \in Clients, d # c PROVE ClientRefInv(d)'
    BY <1>1, <2>2, ClientFrame DEF Call, Return
  <2>3. QED
    BY <1>0, <1>1, <2>1, <2>2 DEF Call
<1>2. ASSUME NEW c \in Clients, StartTx(c)
      PROVE  RefInv'
  <2>1. ClientRefInv(c)'
    BY <1>2 DEF StartTx, Return, ClientRefInv
  <2>2. ASSUME NEW d \in Clients, d # c PROVE ClientRefInv(d)'
    BY <1>2, <2>2, ClientFrame DEF StartTx, Return
  <2>3. QED
    BY <1>0, <1>2, <2>1, <2>2 DEF StartTx
<1>3. ASSUME NEW c \in Clients, TooManyTxRetries(c)
      PROVE  RefInv'
  <2>1. ClientRefInv(c)'
    BY <1>3 DEF TooManyTxRetries, Return, ClientRefInv
  <2>2. ASSUME NEW d \in Clients, d # c PROVE ClientRefInv(d)'
    BY <1>3, <2>2, ClientFrame DEF TooManyTxRetries, Return
  <2>3. QED
    BY <1>0, <1>3, <2>1, <2>2 DEF TooManyTxRetries
<1>4. ASSUME NEW c \in Clients, RunClosure(c)
      PROVE  RefInv'
  <2> DEFINE r == req[c]
  <2>1. PICK ke \in KeyVals, kr \in KeyVals :
          IF r.op = "init"
            THEN /\ ~dirExists
                 /\ staged' = [staged EXCEPT ![c] = InitKeys(r.p, r.name, ke, kr)]
            ELSE /\ dirExists
                 /\ EditOk(r, dirKeys)
                 /\ staged' = [staged EXCEPT ![c] = Edited(r, dirKeys, ke)]
    BY <1>4 DEF RunClosure
  <2>2. Ready(c)'
    <3>1. CASE r.op = "init"
      BY <1>4, <2>1, <3>1 DEF RunClosure, Ready
    <3>2. CASE r.op # "init"
      BY <1>4, <2>1, <3>2 DEF RunClosure, Ready
    <3>3. QED  BY <3>1, <3>2
  <2>3. ClientRefInv(c)'
    BY <1>4, <2>2 DEF RunClosure, ClientRefInv
  <2>4. ASSUME NEW d \in Clients, d # c PROVE ClientRefInv(d)'
    BY <1>4, <2>1, <2>4, ClientFrame DEF RunClosure
  <2>5. QED
    BY <1>0, <1>4, <2>3, <2>4 DEF RunClosure
<1>5. ASSUME NEW c \in Clients, ClosureError(c)
      PROVE  RefInv'
  <2>1. ClientRefInv(c)'
    BY <1>5 DEF ClosureError, Return, ClientRefInv
  <2>2. ASSUME NEW d \in Clients, d # c PROVE ClientRefInv(d)'
    BY <1>5, <2>2, ClientFrame DEF ClosureError, Return
  <2>3. QED
    BY <1>0, <1>5, <2>1, <2>2 DEF ClosureError
(* An install: c returns, and every other client is now stale.            *)
<1>6. ASSUME NEW c \in Clients, Install(c), Return(c, "ok") \/ Return(c, "err"),
             UNCHANGED req
      PROVE  RefInv'
  <2>1. ClientRefInv(c)'
    BY <1>6 DEF Return, ClientRefInv
  <2>2. ASSUME NEW d \in Clients, d # c PROVE ClientRefInv(d)'
    BY <1>6, <2>2 DEF Install, Return, ClientRefInv
  <2>3. QED
    BY <1>0, <1>6, <2>1, <2>2 DEF Install
<1>7. ASSUME NEW c \in Clients, CommitOk(c)
      PROVE  RefInv'
  BY <1>6, <1>7 DEF CommitOk
<1>8. ASSUME NEW c \in Clients, CommitConflict(c)
      PROVE  RefInv'
  <2>1. ClientRefInv(c)'
    BY <1>8 DEF CommitConflict, ClientRefInv
  <2>2. ASSUME NEW d \in Clients, d # c PROVE ClientRefInv(d)'
    BY <1>8, <2>2, ClientFrame DEF CommitConflict
  <2>3. QED
    BY <1>0, <1>8, <2>1, <2>2 DEF CommitConflict
<1>9. ASSUME NEW c \in Clients, CommitError(c)
      PROVE  RefInv'
  <2>1. CASE ~stale[c] /\ Install(c)
    BY <1>6, <1>9, <2>1 DEF CommitError
  <2>2. CASE UNCHANGED <<dirExists, dirKeys, stale, replaced>>
    <3>1. ClientRefInv(c)'
      BY <1>9, <2>2 DEF CommitError, Return, ClientRefInv
    <3>2. ASSUME NEW d \in Clients, d # c PROVE ClientRefInv(d)'
      BY <1>9, <2>2, <3>2, ClientFrame DEF CommitError, Return
    <3>3. QED
      BY <1>0, <2>2, <3>1, <3>2
  <2>3. QED  BY <1>9, <2>1, <2>2 DEF CommitError
<1>10. CASE UNCHANGED vars
  <2>1. ASSUME NEW d \in Clients PROVE ClientRefInv(d)'
    BY <1>10, ClientFrame DEF vars
  <2>2. QED
    BY <1>0, <1>10, <2>1 DEF vars
<1>11. QED
  BY <1>1, <1>2, <1>3, <1>4, <1>5, <1>7, <1>8, <1>9, <1>10 DEF Next, Step

(* RefInv holds in every reachable state.                                  *)
THEOREM RefInvariant == Spec => []RefInv
BY InitRefInv, NextRefInv, PTL DEF Spec


-----------------------------------------------------------------------------
(* The install of an unstale commit is a step of KeyMgmt: the backend     *)
(* applies exactly the operation the client's closure performed on the    *)
(* list it read, because no other commit came in between.                 *)
LEMMA InstallIsKMStep ==
  ASSUME RefInv, NEW c \in Clients, pc[c] = "commit", ~stale[c], Install(c)
  PROVE  KM!Next
<1> DEFINE r == req[c]
<1>1. r \in AllRequests /\ PreCheckOk(r) /\ Ready(c)
  BY RequestsAssumption DEF RefInv, TypeInv, TypeOK, ClientRefInv
<1>2. CASE r.op = "init"
  <2>1. PICK ke \in KeyVals, kr \in KeyVals :
          /\ ~dirExists
          /\ staged[c] = InitKeys(r.p, r.name, ke, kr)
    BY <1>1, <1>2 DEF Ready
  <2>2. KM!DoInitKeys(r.p, r.name, ke, kr)
    BY <2>1, KMSameEdits DEF Install, KM!DoInitKeys
  <2>3. QED
    BY <1>1, <1>2, <2>2, RequestKinds DEF KM!Next
<1>3. CASE r.op # "init"
  <2>1. PICK k \in KeyVals :
          /\ dirExists
          /\ EditOk(r, dirKeys)
          /\ staged[c] = Edited(r, dirKeys, k)
    BY <1>1, <1>3 DEF Ready
  <2>2. QED
    BY <1>1, <1>3, <2>1, EditIsKMStep DEF Install
<1>4. QED
  BY <1>2, <1>3

(* Every step of KeyMgmtTx is a step of KeyMgmt or leaves the list alone. *)
LEMMA NextRefines ==
  RefInv /\ [Next]_vars => [KM!Next]_<<dirExists, dirKeys>>
<1> SUFFICES ASSUME RefInv, [Next]_vars
             PROVE  [KM!Next]_<<dirExists, dirKeys>>
  OBVIOUS
<1>1. ASSUME NEW c \in Clients, CommitOk(c) PROVE KM!Next
  BY <1>1, InstallIsKMStep DEF CommitOk
<1>2. ASSUME NEW c \in Clients, CommitError(c), ~stale[c] /\ Install(c)
      PROVE  KM!Next
  BY <1>2, InstallIsKMStep DEF CommitError
<1>3. ASSUME NEW c \in Clients,
             \/ \E r \in Requests : Call(c, r)
             \/ StartTx(c) \/ TooManyTxRetries(c) \/ RunClosure(c)
             \/ ClosureError(c) \/ CommitConflict(c)
             \/ CommitError(c) /\ UNCHANGED <<dirExists, dirKeys, stale, replaced>>
      PROVE  UNCHANGED <<dirExists, dirKeys>>
  BY <1>3 DEF Call, StartTx, TooManyTxRetries, RunClosure, ClosureError,
              CommitConflict
<1>4. CASE UNCHANGED vars
  BY <1>4 DEF vars
<1>5. QED
  BY <1>1, <1>2, <1>3, <1>4 DEF Next, Step, CommitError

(* KeyMgmtTx implements KeyMgmt under the mapping of the committed list   *)
(* to KeyMgmt's list: the clients of do_tx, however they interleave, with  *)
(* their retries, lost commits and storage errors, only ever change the    *)
(* KDF list by one whole operation of keymgmt.rs at a time, each applied   *)
(* to the list as it then is.                                              *)
THEOREM Refinement == Spec => ImplementsKeyMgmt
<1>1. Init => KM!Init
  BY DEF Init, KM!Init, KM!EmptyKeys, EmptyKeys
<1>2. QED
  BY <1>1, RefInvariant, NextRefines, PTL DEF Spec, ImplementsKeyMgmt, KM!Spec, KM!vars


-----------------------------------------------------------------------------
(* A step that leaves a client's slots alone keeps its retry count.       *)
LEMMA RetriesFrame ==
  ASSUME NEW d \in Clients, ClientRetriesInv(d),
         pc'[d] = pc[d], tries'[d] = tries[d], stale'[d] = stale[d],
         outcome'[d] = outcome[d], replaced'[d] = replaced[d]
  PROVE  ClientRetriesInv(d)'
BY DEF ClientRetriesInv

(* An install by c counts, for every other client inside do_tx, one more  *)
(* commit in replaced (up to the cap) and makes its snapshot stale.       *)
LEMMA InstallRetries ==
  ASSUME TypeInv, NEW c \in Clients, Install(c),
         NEW d \in Clients, d # c, ClientRetriesInv(d),
         pc'[d] = pc[d], tries'[d] = tries[d], outcome'[d] = outcome[d]
  PROVE  ClientRetriesInv(d)'
<1> USE MaxRetriesAssumption DEF TypeInv, TypeOK
<1>1. stale'[d] = TRUE
  BY DEF Install
<1>2. replaced'[d] \in Nat /\ replaced'[d] >= replaced[d]
  BY DEF Install
<1>3. pc[d] = "commit" => tries[d] + 1 <= replaced'[d]
  <2>1. CASE replaced[d] < MaxRetries
    BY <2>1 DEF Install, ClientRetriesInv
  <2>2. CASE replaced[d] >= MaxRetries
    BY <2>2 DEF Install
  <2>3. QED  BY <2>1, <2>2
<1>4. QED
  BY <1>1, <1>2, <1>3 DEF ClientRetriesInv

(* The initial state satisfies RetriesInv.                                 *)
LEMMA InitRetriesInv == Init => RetriesInv
BY InitTypeInv DEF Init, RetriesInv, ClientRetriesInv

(* Every step preserves RetriesInv.                                        *)
LEMMA NextRetriesInv == RetriesInv /\ [Next]_vars => RetriesInv'
<1> SUFFICES ASSUME RetriesInv, [Next]_vars PROVE RetriesInv'
  OBVIOUS
<1>0. TypeInv'
  BY NextTypeInv DEF RetriesInv
<1> USE MaxRetriesAssumption DEF RetriesInv, TypeInv, TypeOK
<1>1. ASSUME NEW c \in Clients, NEW r \in Requests, Call(c, r)
      PROVE  RetriesInv'
  <2>1. ClientRetriesInv(c)'
    BY <1>1 DEF Call, Return, ClientRetriesInv
  <2>2. ASSUME NEW d \in Clients, d # c PROVE ClientRetriesInv(d)'
    BY <1>1, <2>2, RetriesFrame DEF Call, Return
  <2>3. QED
    BY <1>0, <2>1, <2>2
<1>2. ASSUME NEW c \in Clients, StartTx(c)
      PROVE  RetriesInv'
  <2>1. ClientRetriesInv(c)'
    BY <1>2 DEF StartTx, Return, ClientRetriesInv
  <2>2. ASSUME NEW d \in Clients, d # c PROVE ClientRetriesInv(d)'
    BY <1>2, <2>2, RetriesFrame DEF StartTx, Return
  <2>3. QED
    BY <1>0, <2>1, <2>2
<1>3. ASSUME NEW c \in Clients, TooManyTxRetries(c)
      PROVE  RetriesInv'
  <2>1. ClientRetriesInv(c)'
    BY <1>3 DEF TooManyTxRetries, Return, ClientRetriesInv
  <2>2. ASSUME NEW d \in Clients, d # c PROVE ClientRetriesInv(d)'
    BY <1>3, <2>2, RetriesFrame DEF TooManyTxRetries, Return
  <2>3. QED
    BY <1>0, <2>1, <2>2
<1>4. ASSUME NEW c \in Clients, RunClosure(c)
      PROVE  RetriesInv'
  <2>1. ClientRetriesInv(c)'
    BY <1>4 DEF RunClosure, ClientRetriesInv
  <2>2. ASSUME NEW d \in Clients, d # c PROVE ClientRetriesInv(d)'
    BY <1>4, <2>2, RetriesFrame DEF RunClosure
  <2>3. QED
    BY <1>0, <2>1, <2>2
<1>5. ASSUME NEW c \in Clients, ClosureError(c)
      PROVE  RetriesInv'
  <2>1. ClientRetriesInv(c)'
    BY <1>5 DEF ClosureError, Return, ClientRetriesInv
  <2>2. ASSUME NEW d \in Clients, d # c PROVE ClientRetriesInv(d)'
    BY <1>5, <2>2, RetriesFrame DEF ClosureError, Return
  <2>3. QED
    BY <1>0, <2>1, <2>2
(* An install: c returns with ok or err, the others count the commit.    *)
<1>6. ASSUME NEW c \in Clients, Install(c), Return(c, "ok") \/ Return(c, "err"),
             UNCHANGED tries
      PROVE  RetriesInv'
  <2>1. ClientRetriesInv(c)'
    BY <1>6 DEF Install, Return, ClientRetriesInv
  <2>2. ASSUME NEW d \in Clients, d # c PROVE ClientRetriesInv(d)'
    BY <1>6, <2>2, InstallRetries DEF Return
  <2>3. QED
    BY <1>0, <2>1, <2>2
<1>7. ASSUME NEW c \in Clients, CommitOk(c)
      PROVE  RetriesInv'
  BY <1>6, <1>7 DEF CommitOk
<1>8. ASSUME NEW c \in Clients, CommitConflict(c)
      PROVE  RetriesInv'
  <2>1. ClientRetriesInv(c)'
    BY <1>8 DEF CommitConflict, ClientRetriesInv
  <2>2. ASSUME NEW d \in Clients, d # c PROVE ClientRetriesInv(d)'
    BY <1>8, <2>2, RetriesFrame DEF CommitConflict
  <2>3. QED
    BY <1>0, <2>1, <2>2
<1>9. ASSUME NEW c \in Clients, CommitError(c)
      PROVE  RetriesInv'
  <2>1. CASE ~stale[c] /\ Install(c)
    BY <1>6, <1>9, <2>1 DEF CommitError
  <2>2. CASE UNCHANGED <<dirExists, dirKeys, stale, replaced>>
    <3>1. ClientRetriesInv(c)'
      BY <1>9, <2>2 DEF CommitError, Return, ClientRetriesInv
    <3>2. ASSUME NEW d \in Clients, d # c PROVE ClientRetriesInv(d)'
      BY <1>9, <2>2, <3>2, RetriesFrame DEF CommitError, Return
    <3>3. QED
      BY <1>0, <3>1, <3>2
  <2>3. QED  BY <1>9, <2>1, <2>2 DEF CommitError
<1>10. CASE UNCHANGED vars
  <2>1. ASSUME NEW d \in Clients PROVE ClientRetriesInv(d)'
    BY <1>10, RetriesFrame DEF vars
  <2>2. QED
    BY <1>0, <2>1
<1>11. QED
  BY <1>1, <1>2, <1>3, <1>4, <1>5, <1>7, <1>8, <1>9, <1>10 DEF Next, Step

(* do_tx returns TooManyTxRetries only after other clients have committed *)
(* at least MaxRetries times during the call, for every number of clients *)
(* and every retry bound: a conflict is never reported without a commit   *)
(* that caused it.                                                         *)
THEOREM RetriesMeanContentionHolds == Spec => []RetriesMeanContention
<1>1. RetriesInv => RetriesMeanContention
  BY DEF RetriesInv, ClientRetriesInv, RetriesMeanContention
<1>2. QED
  BY <1>1, InitRetriesInv, NextRetriesInv, PTL DEF Spec

=============================================================================
