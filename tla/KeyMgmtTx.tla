----------------------------- MODULE KeyMgmtTx -----------------------------
(***************************************************************************)
(* The transaction layer of src/server/keymgmt.rs: do_tx, get_kdflist,     *)
(* put_kdflist and edit_kdflist, run by several clients at once against    *)
(* one storage backend.  Each client owns its storage handle (spec section *)
(* 5), so the constant transaction id 0 of do_tx names a different         *)
(* transaction on every handle.                                            *)
(*                                                                         *)
(* Storage (consumed, spec section 6): getdir reads the committed          *)
(* directory outside any transaction; rmdir and mkdir are staged in the    *)
(* transaction; commit installs them atomically and returns false when     *)
(* rmdir's expected version is no longer the directory's version, or       *)
(* mkdir's directory already exists.  put_kdflist writes a fresh random    *)
(* version (rand_hashid), so the expected version is current exactly when  *)
(* no commit replaced the directory since the client's getdir: the model   *)
(* keeps that as the flag stale[c] rather than the 256-bit version ids.    *)
(*                                                                         *)
(* Failures.  start_tx and commit may fail with an I/O error, and so may   *)
(* getdir, the decoding of the list, rmdir and mkdir inside the closure.   *)
(* A commit that fails may or may not have been applied by the backend.    *)
(***************************************************************************)
EXTENDS KdfList

CONSTANTS
  Clients,      \* the processes running key-management operations
  MaxRetries,   \* the bound of do_tx's loop (16)
  Requests      \* the operations (with arguments) the clients may call

ASSUME MaxRetriesAssumption == MaxRetries \in Nat \ {0}

(* Every public mutating operation of keymgmt.rs with its arguments.       *)
AllRequests ==
  [op : {"init"}, p : Passphrases, name : Names] \cup
  [op : {"add"}, old : Passphrases, new : Passphrases, name : Names] \cup
  [op : {"del"}, name : Names] \cup
  [op : {"change"}, old : Passphrases, new : Passphrases,
   name : Names \cup {NoName}, allow : BOOLEAN] \cup
  [op : {"derive"}, p : Passphrases] \cup
  [op : {"create"}, p : Passphrases, names : SUBSET Groups] \cup
  [op : {"assoc"}, src : Passphrases, dst : Passphrases, names : SUBSET Groups] \cup
  [op : {"disassoc"}, key : Names, names : SUBSET Groups] \cup
  [op : {"destroy"}, names : SUBSET Groups]

ASSUME RequestsAssumption == Requests \subseteq AllRequests /\ Requests # {}

(* Nothing staged: the sentinel model value of the entry map. *)
NoWrite == NoEntry

VARIABLES
  dirExists,    \* getdir(DIRID_KEYS) is Some
  dirKeys,      \* the committed KDF list
  pc,           \* where each client is in do_tx
  req,          \* the operation each client is running
  tries,        \* iterations of do_tx's loop that ended in a conflict
  staged,       \* the list put_kdflist staged by mkdir in the open tx
  stale,        \* the directory was replaced since the client's getdir
  outcome,      \* what the client's last operation returned
  replaced      \* commits by others during the client's operation (history)

vars == <<dirExists, dirKeys, pc, req, tries, staged, stale, outcome, replaced>>

Init ==
  /\ dirExists = FALSE
  /\ dirKeys = EmptyKeys
  /\ pc = [c \in Clients |-> "idle"]
  /\ req = [c \in Clients |-> CHOOSE r \in Requests : TRUE]
  /\ tries = [c \in Clients |-> 0]
  /\ staged = [c \in Clients |-> NoWrite]
  /\ stale = [c \in Clients |-> FALSE]
  /\ outcome = [c \in Clients |-> "none"]
  /\ replaced = [c \in Clients |-> 0]

-----------------------------------------------------------------------------
(* The refusals that disassoc_group and destroy_group make before they     *)
(* open a transaction.                                                     *)
PreCheckOk(r) ==
  /\ r.op = "disassoc" => Everyone \notin r.names
  /\ r.op = "destroy" => Everyone \notin r.names /\ Root \notin r.names

(* The edit closure's early returns, on the list that getdir returned.     *)
EditOk(r, ks) ==
  CASE r.op = "add"      -> AddKeyOk(ks, r.old, r.new, r.name)
    [] r.op = "del"      -> DelKeyOk(ks, r.name)
    [] r.op = "change"   -> ChangeKeyOk(ks, r.old, r.new, r.name, r.allow)
    [] r.op = "derive"   -> DeriveKeyChainOk(ks, r.p)
    [] r.op = "create"   -> CreateGroupOk(ks, r.p, r.names)
    [] r.op = "assoc"    -> AssocGroupOk(ks, r.src, r.dst, r.names)
    [] r.op = "disassoc" -> DisassocGroupOk(ks, r.key, r.names)
    [] r.op = "destroy"  -> DestroyGroupOk(ks, r.names)

(* The edited list; k is the key KeyChain::generate_new draws.             *)
Edited(r, ks, k) ==
  CASE r.op = "add"      -> AddKey(ks, r.old, r.new, r.name)
    [] r.op = "del"      -> DelKey(ks, r.name)
    [] r.op = "change"   -> ChangeKey(ks, r.old, r.new, r.name)
    [] r.op = "derive"   -> DeriveKeyChain(ks, r.p)
    [] r.op = "create"   -> CreateGroup(ks, r.p, r.names, k)
    [] r.op = "assoc"    -> AssocGroup(ks, r.src, r.dst, r.names)
    [] r.op = "disassoc" -> DisassocGroup(ks, r.key, r.names)
    [] r.op = "destroy"  -> DestroyGroup(ks, r.names)

(* The client returns from do_tx (or from a pre-check) with result x.      *)
Return(c, x) ==
  /\ pc' = [pc EXCEPT ![c] = "idle"]
  /\ outcome' = [outcome EXCEPT ![c] = x]
  /\ staged' = [staged EXCEPT ![c] = NoWrite]

-----------------------------------------------------------------------------
(* A client calls an operation.                                            *)
Call(c, r) ==
  /\ pc[c] = "idle"
  /\ req' = [req EXCEPT ![c] = r]
  /\ tries' = [tries EXCEPT ![c] = 0]
  /\ replaced' = [replaced EXCEPT ![c] = 0]
  /\ IF PreCheckOk(r)
       THEN /\ pc' = [pc EXCEPT ![c] = "start"]
            /\ outcome' = [outcome EXCEPT ![c] = "none"]
            /\ UNCHANGED staged
       ELSE Return(c, "err")
  /\ UNCHANGED <<dirExists, dirKeys, stale>>

(* Mutant: the loop bound taken as inclusive (0..=16).                     *)
StartTxInclusive(c) ==
  /\ pc[c] = "start"
  /\ tries[c] <= MaxRetries
  /\ \/ /\ pc' = [pc EXCEPT ![c] = "body"]
        /\ UNCHANGED <<outcome, staged>>
     \/ Return(c, "err")
  /\ UNCHANGED <<dirExists, dirKeys, req, tries, stale, replaced>>

(* storage.start_tx(tx)? at the top of an iteration of the loop.           *)
StartTx(c) ==
  /\ pc[c] = "start"
  /\ tries[c] < MaxRetries
  /\ \/ /\ pc' = [pc EXCEPT ![c] = "body"]
        /\ UNCHANGED <<outcome, staged>>
     \/ Return(c, "err")
  /\ UNCHANGED <<dirExists, dirKeys, req, tries, stale, replaced>>

(* The loop ran out: Err(TooManyTxRetries).                                *)
TooManyTxRetries(c) ==
  /\ pc[c] = "start"
  /\ tries[c] = MaxRetries
  /\ Return(c, "retries")
  /\ UNCHANGED <<dirExists, dirKeys, req, tries, stale, replaced>>

(* Mutant: the version read once, before the loop, and reused on retries. *)
RunClosureKeepVersion(c) ==
  LET r == req[c] IN
  /\ pc[c] = "body"
  /\ \E ke, kr \in KeyVals :
       IF r.op = "init"
         THEN /\ ~dirExists
              /\ staged' = [staged EXCEPT ![c] = InitKeys(r.p, r.name, ke, kr)]
         ELSE /\ dirExists
              /\ EditOk(r, dirKeys)
              /\ staged' = [staged EXCEPT ![c] = Edited(r, dirKeys, ke)]
  /\ pc' = [pc EXCEPT ![c] = "commit"]
  /\ stale' = [stale EXCEPT ![c] = tries[c] > 0 /\ stale[c]]
  /\ UNCHANGED <<dirExists, dirKeys, req, tries, outcome, replaced>>

(* f(tx): get_kdflist, then the edit, then put_kdflist's rmdir and mkdir   *)
(* (init_keys: the KdfListAlreadyExists check and mkdir alone).  The       *)
(* snapshot is the committed list at the moment of getdir.                 *)
RunClosure(c) ==
  LET r == req[c] IN
  /\ pc[c] = "body"
  /\ \E ke, kr \in KeyVals :
       IF r.op = "init"
         THEN /\ ~dirExists
              /\ staged' = [staged EXCEPT ![c] = InitKeys(r.p, r.name, ke, kr)]
         ELSE /\ dirExists
              /\ EditOk(r, dirKeys)
              /\ staged' = [staged EXCEPT ![c] = Edited(r, dirKeys, ke)]
  /\ pc' = [pc EXCEPT ![c] = "commit"]
  /\ stale' = [stale EXCEPT ![c] = FALSE]
  /\ UNCHANGED <<dirExists, dirKeys, req, tries, outcome, replaced>>

(* f(tx) returns Err: a refusal of the closure (KdfListAlreadyExists,      *)
(* KdfListNotExists, the edit's own errors) or an I/O or decoding error;   *)
(* do_tx calls storage.abort(tx) and returns the error.                    *)
ClosureError(c) ==
  /\ pc[c] = "body"
  /\ Return(c, "err")
  /\ UNCHANGED <<dirExists, dirKeys, req, tries, stale, replaced>>

(* The backend installs c's transaction: every other client's snapshot is *)
(* now stale.                                                              *)
Install(c) ==
  /\ dirExists' = TRUE
  /\ dirKeys' = staged[c]
  /\ stale' = [d \in Clients |-> d # c \/ stale[d]]
  /\ replaced' = [d \in Clients |->
                    IF d # c /\ pc[d] # "idle" /\ replaced[d] < MaxRetries
                    THEN replaced[d] + 1 ELSE replaced[d]]

(* Mutant: a backend whose commit does not check rmdir's version.         *)
CommitOkUnchecked(c) ==
  /\ pc[c] = "commit"
  /\ Install(c)
  /\ Return(c, "ok")
  /\ UNCHANGED <<req, tries>>

(* storage.commit(tx) returns true: do_tx returns Ok.                      *)
CommitOk(c) ==
  /\ pc[c] = "commit"
  /\ ~stale[c]
  /\ Install(c)
  /\ Return(c, "ok")
  /\ UNCHANGED <<req, tries>>

(* Mutant: a retry loop that does not count its iterations.               *)
CommitConflictUncounted(c) ==
  /\ pc[c] = "commit"
  /\ stale[c]
  /\ pc' = [pc EXCEPT ![c] = "start"]
  /\ staged' = [staged EXCEPT ![c] = NoWrite]
  /\ UNCHANGED <<dirExists, dirKeys, req, tries, stale, outcome, replaced>>

(* storage.commit(tx) returns false: the loop goes round again.            *)
CommitConflict(c) ==
  /\ pc[c] = "commit"
  /\ stale[c]
  /\ pc' = [pc EXCEPT ![c] = "start"]
  /\ tries' = [tries EXCEPT ![c] = tries[c] + 1]
  /\ staged' = [staged EXCEPT ![c] = NoWrite]
  /\ UNCHANGED <<dirExists, dirKeys, req, stale, outcome, replaced>>

(* storage.commit(tx)? fails: do_tx returns the error, whether or not the  *)
(* backend applied the transaction before the failure.                     *)
CommitError(c) ==
  /\ pc[c] = "commit"
  /\ \/ /\ ~stale[c]
        /\ Install(c)
     \/ UNCHANGED <<dirExists, dirKeys, stale, replaced>>
  /\ Return(c, "err")
  /\ UNCHANGED <<req, tries>>

Step(c) ==
  \/ StartTx(c)
  \/ TooManyTxRetries(c)
  \/ RunClosure(c)
  \/ ClosureError(c)
  \/ CommitOk(c)
  \/ CommitConflict(c)
  \/ CommitError(c)

Next == \E c \in Clients : (\E r \in Requests : Call(c, r)) \/ Step(c)

(* Each client is a thread that, once in an operation, keeps taking steps; *)
(* the storage answers every call.  Calling is up to the user.             *)
Fairness == \A c \in Clients : WF_vars(Step(c))

Spec == Init /\ [][Next]_vars /\ Fairness

-----------------------------------------------------------------------------
TypeOK ==
  /\ dirExists \in BOOLEAN
  /\ dirKeys \in KeyMap
  /\ pc \in [Clients -> {"idle", "start", "body", "commit"}]
  /\ req \in [Clients -> Requests]
  /\ tries \in [Clients -> 0..MaxRetries]
  /\ staged \in [Clients -> KeyMap \cup {NoWrite}]
  /\ stale \in [Clients -> BOOLEAN]
  /\ outcome \in [Clients -> {"none", "ok", "err", "retries"}]
  /\ replaced \in [Clients -> 0..MaxRetries]

(* The key-management operations as one atomic step each.                 *)
KM == INSTANCE KeyMgmt WITH listExists <- dirExists, keys <- dirKeys

(* Concurrent clients, each reading the list outside its transaction and   *)
(* retrying on conflicts, change the committed KDF list only as the        *)
(* atomic operations of KeyMgmt do: no update is lost or applied to a list *)
(* it was not computed from, and every KeyMgmt invariant carries over.     *)
ImplementsKeyMgmt == KM!Spec

(* do_tx gives up with TooManyTxRetries only when other clients committed  *)
(* at least MaxRetries times during the call: every conflict is caused by  *)
(* a distinct commit that replaced the list after the client's getdir.     *)
RetriesMeanContention ==
  \A c \in Clients : outcome[c] = "retries" => replaced[c] >= MaxRetries

(* Every call returns (Ok or an error) even while other clients keep       *)
(* committing: the bound of the retry loop rules out starvation.           *)
CallsReturn == \A c \in Clients : pc[c] # "idle" ~> pc[c] = "idle"

(* A call that returns an error has left the KDF list as it was.           *)
ErrorStep ==
  \A c \in Clients :
    pc[c] # "idle" /\ outcome'[c] = "err" => UNCHANGED <<dirExists, dirKeys>>

ErrorMeansNoEffect == [][ErrorStep]_vars
=============================================================================
