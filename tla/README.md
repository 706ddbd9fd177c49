# A TLA+ model of ensync's key management, block layer and ciphers, with proofs

This directory holds TLA+ specifications of parts of ensync, an encrypted
file synchroniser whose server-side data is protected by a passphrase-derived
key hierarchy. It also holds TLC configurations that model-check those
specifications on small instances, and TLAPS proofs of the main safety
properties for every instance.

## 1. The system and its parts

The sources are under `src/src/`:

| Part | Source | State it changes | Operations |
|------|--------|------------------|------------|
| KDF list | `server/crypt.rs` (`KdfList`, `KdfEntry`, `create_key`, `try_derive_key*`) | the map from entry name to entry (passphrase salt/hash, wrapped key chain, timestamps) | create an entry, derive a chain from a passphrase (first matching entry in name order) |
| Key management | `server/keymgmt.rs` | the KDF list stored in the directory `DIRID_KEYS` | `init_keys`, `add_key`, `del_key`, `change_key`, `derive_key_chain`, `create_group`, `assoc_group`, `disassoc_group`, `destroy_group`, `list_keys` |
| Transactions | `server/keymgmt.rs` (`do_tx`, `get_kdflist`, `put_kdflist`, `edit_kdflist`) | a storage transaction | read the list, run an edit closure, write back with a version check, commit; up to 16 attempts |
| Block transfer | `block_xfer.rs` | a blob store written through a callback | `stream_to_blocks` splits a stream into HMAC-named blocks; `blocks_to_stream` joins and verifies them |
| Cipher envelope | `server/crypt.rs` (`crypt_stream`, `*_cbc_prefix`, `encrypt_obj`, `decrypt_obj`, `*_dir`, `dir_append_iv`) | the output stream; the ciphertext the server stores | streaming AES-CBC with a per-call session key and IV wrapped under the master key |
| Directory versions | `server/crypt.rs` (`dir_ver_iv`, `encrypt_dir_ver`, `decrypt_dir_ver`) | the version ciphertext the server stores | encode a u64 version, encrypt it under a per-directory IV, decrypt with a tamper check |
| Logging, CLI config | `log.rs`, `cli/config.rs` | terminal output, parsed configuration | formatting and parsing |

How they interact: every key-management operation except `list_keys` is one
storage transaction. It reads the KDF list, applies an edit closure to it and
writes it back. An error from the closure aborts the transaction, so a failed
operation leaves the list as it was. A group key that the key chain holds
encrypts the data of that group. So an operation that loses a group's last
carrier, or that swaps a group's key, makes data unreadable.

The hard behaviours of the key manager:

- **Sequences of operations.** The operations copy keys between entries, add
  groups, remove groups and remove entries. Safety rests on guards spread over
  all of them.
- **Derivation by first match.** `try_derive_key` returns the chain of the
  first entry in name order that the passphrase opens.
- **Change via another passphrase.** `change_key` can rebuild an entry from a
  different entry's chain.
- **Concurrency.** Concurrent transactions with a constant transaction id rely
  on the storage's version check and a bounded retry.

## 2. Modules

### `KdfList` — the list and the edit closures

- **State abstraction.**
  - An entry is a record: its passphrase (a model value), its key chain (a
    function from group to key value, `NoKey` = 0 where the entry does not
    carry the group), and whether `updated` and `used` are set.
  - The salt, the scrypt/SHA-3 hash and the XOR wrapping are represented by
    what they unwrap to. A passphrase opens exactly the entries created from
    it (`Matches`), which takes scrypt and SHA-3 to be collision free.
  - The list is a total function from the entry names (naturals, ordered as
    the `BTreeMap` orders its keys) to entries or `NoEntry`.
- **Operations.** Each edit closure is a pair of operators.
  - `XxxOk` is the conjunction of the closure's early returns. FALSE means
    the closure returns an error and the transaction aborts.
  - `Xxx` is the edited list.
- **Helpers.**
  - `FirstOf` and `DerivedChain` model `try_derive_key`'s first-match
    iteration.
  - `WithGroups` and `WithoutGroups` model the chain inserts plus
    `reassoc_keys`, and the `groups.remove` calls.
- **Spec-modelled parts.** `KeyChain`, `InternalKey` and `reassoc_keys` are
  not under `src/`. They are modelled from the spec and marked
  `spec_modelled` in the map.
- **Fresh keys.** `create_group` draws one fresh key value for all the names
  it creates. Keys are only compared within one group, so one value per call
  stands for the independent random keys.

### `KeyMgmt` — the operations as one atomic transaction each

- **Variables.**
  - `listExists`: whether `DIRID_KEYS` holds a list.
  - `keys`: the list.
- **Actions.**
  - One action per mutating operation. `DoInitKeys` requires that no list
    exists.
  - Every other action goes through `Edit`, as the code goes through
    `edit_kdflist`: the list must exist and the closure must succeed.
  - `DoDisassocGroup` and `DoDestroyGroup` also carry the refusals of the
    built-in groups that the code makes before its transaction starts.
- **What `Next` enumerates.** All arguments: passphrases, entry names
  (including `NoName` for `change_key`'s `None`), the `allow` flag, sets of
  group names and fresh key values.
- **Failures.** A failing call is a stutter, because the aborted
  transaction writes nothing.
- **Not here.** `derive_key_chain` also returns the chain; only its write of
  `used` is state. `list_keys` changes nothing.

### `MCKeyMgmt` — the instance checked by TLC

- Entry names 1..3, two passphrases, the groups `everyone`, `root` and one
  user group, and key values 1..2.
- Symmetry over the passphrases. The code treats passphrases only through
  equality, so this is sound. Names are not symmetric, because their order
  decides first-match derivation.

### `KdfListProofs` and `KeyMgmtProofs` — TLAPS proofs

`KdfListProofs` holds the lemmas about the list operators: the type of each
edit and of the first-match choice. `KeyMgmtProofs` and `KeyMgmtTxProofs`
both use it. Section 4 describes what is proved.

### `BlockXfer` — the block splitter and joiner

**Splitter variables** (`stream_to_blocks`):

- `src`, `pos`: the input and how much of it has been read.
- `buf`, `off`: `block_data`, kept byte for byte, and the bytes read into it
  for the current block.
- `pc`: the splitter's control state.
- `blocks`, `size`: the ids pushed so far and the byte count.
- `store`: the blobs `block_out` was given, as pairs of id and data.
- `list`: the returned `BlockList`.

**Joiner variables** (`blocks_to_stream`):

- `jpc`: the joiner's control state.
- `ji`: the next index into the list.
- `out`: the bytes written to the output.

**Attacker variable.** `tampered` records whether the attacker has acted.

**Splitter actions.**

- `ReadSome(n)`: a read returns any `n` from 1 up to the space left and the
  bytes left.
- `EndFill`: the buffer is full, or the read returned 0.
- `ReadError`: a read fails (only while `off < block_size`, where the fill
  loop reads).
- `EmitBlock`: the HMAC of `block_data[0..off]`, the call of `block_out` with
  `&block_data`, the push of the id and the size update.
- `SinkError`: `block_out` returns an error.
- `Finish`: an empty pass ends the call.

**Joiner actions.**

- `CheckTotal`: the total over the ids is checked before any block.
- `JoinBlock(d)`: fetch a block, write all of it, then compare its HMAC with
  its id.
- `JoinIoError`: a fetch, read or write fails.
- `JoinDone`: every block verified.

**Attacker actions.** `TamperBlock` and `TamperList` are the attacker of spec
8.2. Between the calls, at most once, it replaces one stored block's data, or
swaps two ids of the list or replaces one.

**Data abstraction.**

- An HMAC under the fixed secret is collision free. It is represented by the
  data it covers (`Hmac(d) = [covers |-> d]`).
- A read that returns Interrupted is retried with no change of state, so it
  is left out.
- The joiner's 4 KiB staging buffer only splits the writes of one block, so
  a block is read and written in one step.

**Instance.** `MCBlockXfer` uses two byte values (one of them the zero that
`resize` fills the buffer with), blocks of 2 bytes and inputs of up to 3
bytes. So it covers:

- the empty input;
- one full block;
- a full block and then a partial one;
- a partial block alone;
- every split of the reads.

### `BlockXferProofs` — TLAPS proofs of the splitter and the joiner

Section 4 describes what it proves.

### `KeyMgmtTx` — the transaction loop with concurrent clients

`KeyMgmt` takes every operation to commit atomically. `KeyMgmtTx` models
how the code gets there: `do_tx`, `get_kdflist`, `put_kdflist` and
`edit_kdflist`, run by several clients at once against one storage backend.

- **Variables.**
  - `dirExists`, `dirKeys`: the committed directory `DIRID_KEYS`.
  - Per client: `pc` (`idle`, `start` = top of the loop, `body` = in the
    closure, `commit`), `req` (the operation and its arguments), `tries` (the
    iterations of the loop that ended in a conflict), `staged` (what
    `put_kdflist` wrote into the open transaction), `outcome` (what the last
    call returned).
  - `stale[c]`: some commit replaced the directory since `c`'s `getdir`.
    `put_kdflist` writes a fresh random version (`rand_hashid`), and a
    commit fails when `rmdir`'s expected version is no longer current. So a
    commit conflicts exactly when the flag is set; the 32-byte ids are not
    needed.
  - `replaced[c]`: a history variable that counts the commits of others
    during `c`'s call (capped at `MaxRetries`).
- **Actions**, one per branch of `do_tx`:
  - `Call` (the pre-checks of `disassoc_group` and `destroy_group` happen
    here, before any transaction);
  - `StartTx` (or its I/O error) and `TooManyTxRetries`;
  - `RunClosure`: `getdir`, the closure's guards (`EditOk`) and its edit,
    `rmdir` and `mkdir`; `init_keys` requires no list;
  - `ClosureError`: abort and return the error;
  - `CommitOk`, `CommitConflict` (retry) and `CommitError`.
- **Storage (not under `src/`, from the spec).** `commit` installs the
  staged list atomically (`Install`). A failing commit may or may not have
  been applied by the backend, so `CommitError` has both outcomes.
- **Fairness.** `WF_vars(Step(c))` for every client. A client inside an
  operation is a running thread: it keeps taking its own steps while they
  are enabled, and storage calls return. `Call` has no fairness, because
  users need not call anything.
- **Refinement.** `KM == INSTANCE KeyMgmt WITH listExists <- dirExists,
  keys <- dirKeys`. Every step of `KeyMgmtTx` either leaves the directory
  alone (a stutter of `KeyMgmt`) or installs a staged list. That list is a
  `KeyMgmt` step from the committed list, because an unstale commit was
  computed from it.

`MCKeyMgmtTx` runs two clients, symmetric (the code treats clients alike),
over two names, two passphrases, three groups and two key values, with
`MaxRetries = 2` and six requests: `init_keys` twice, `add_key`, `del_key`,
`create_group` and `derive_key_chain`. Two retries are enough to reach both
a retry and the end of the loop. `derive_key_chain` always succeeds once the
list exists, so two clients can keep conflicting with each other.

### `DirVer` — directory version numbers

- **Operators.**
  - `dir_ver_iv`: XOR of id bytes `ix` and `ix + BLKSZ` for the first half of
    the block, zero after.
  - `EncodeVer`: the little-endian loop, using `shiftR` and `&`.
  - `DecodeVer`: the loop `ver |= byte << 8*ix`, as an OR fold.
  - `PaddingOk`: every byte from the first half of the first block on is
    zero.
  - `CbcEncrypt`, `CbcDecrypt`: CBC over the two blocks, with AES as a
    block permutation.
- **State.** The directory, the version last written and the ciphertext the
  server holds. `Substitute` lets the (untrusted) server hand back any
  other 2-block string.
- **Instance.** `MCDirVer` scales the widths: 1-bit bytes, 4-byte blocks (so
  the version has 2 bytes), an affine permutation of the 16 blocks, and
  three directory ids:
  - the zero id;
  - an id with a different IV fold;
  - an id whose fold equals the zero id's.

### `CryptStream` — the cipher envelope

- **Variables.** One job runs a round trip of calls in order:
  - `encrypt_obj` then `decrypt_obj`;
  - or `encrypt_whole_dir`, `encrypt_append_dir` with `dir_append_iv` of
    the ciphertext so far, then `decrypt_whole_dir`.
  - The variables of the running call of `crypt_stream`: the reader's input
    and position, `src_buf`, `eof`, the cryptor and the output.
- **Actions.**
  - `EncryptWithPrefix`: `write_cbc_prefix` (a drawn key and IV, encrypted
    under the master half with a zero IV), then the call's own stream.
  - `EncryptAppend`.
  - `DecryptWithPrefix`: `read_exact` of the 32-byte prefix (an error on a
    shorter input), `split_key_and_iv`.
  - `ReadSome(n)`: the inner fill loop; a read into `src_buf[nread..]`
    returns 1..free bytes (`n <= Buf - Len(buf)`), and 0 only at the end.
  - `CryptBuffer`: one pass through the cryptor and `write_all`. A cryptor
    error panics when encrypting. When decrypting, it writes whatever the
    library wrote before failing, then zeros for the unconsumed bytes.
  - `Return`.
  - `Tamper`: before the decrypting call, the store may cut the ciphertext
    short or change one byte.
- **The cryptor.** rust-crypto's `cbc_encryptor` and `cbc_decryptor` are not
  in this repository. `CryptPass` models their contract (it is marked
  `spec_modelled` in the map):
  - they consume all input;
  - they hold back a partial block, and when decrypting with padding the
    last whole block too;
  - they chain by CBC;
  - at EOF they add or check PKCS padding, or fail on a partial block
    without padding.
- **Constants.** AES (`AesEnc`, `AesDec`) and the byte XOR (`ByteXor`)
  are constants. `CryptStreamAssumption` gives them only their contracts:
  decryption undoes encryption on blocks, and XOR with a byte undoes
  itself. `MCCryptStream` binds `ByteXor` to `Bitwise`'s `^^`. So the
  proof module never reaches `Bitwise`, and the proofs hold for any
  operators that meet the contracts.
- **Instance.** `MCCryptStream` has:
  - 2-byte blocks of 2-bit bytes, and a 4-byte buffer;
  - objects of 0..5 bytes (empty, partial, aligned, past the buffer);
  - directory parts of 1..5 bytes, aligned or not;
  - two drawn (key, IV) pairs and a keyed affine AES.

### `CryptStreamProofs` — TLAPS proofs of the envelope

This module proves `PanicOnlyOnUnaligned` and `SessionKeyReturned` for all
constants (section 4). It also holds their inductive invariants,
`PanicInv` and `KeyInv`. TLC checks both invariants on the
`MCCryptStream` instance.

## 3. Runs

| Run | Config | Expect | What it shows |
|-----|--------|--------|---------------|
| `keymgmt_safety` | `MCKeyMgmt.cfg` | pass | Checks `NoLockout`, `EveryoneOnEveryEntry`, `KeyConsistency`, `KeyStability` and `ChangeKeyKeepsGroups` over every interleaving of the nine operations (see below). |
| `root_on_every_entry` | `MCKeyMgmt_RootOnEveryEntry.cfg` | violation | `init_keys`, `add_key`, then `disassoc_group` of `root` from one entry: `root` is not on every entry, contrary to the spec's section 3 invariant 3. `disassoc_group` refuses only `everyone` (`keymgmt.rs:325-330`). |
| `derivation_sound` | `MCKeyMgmt_DerivationSound.cfg` | violation | `add_key` with a passphrase that an entry already has, then `create_group` through it. The first entry gets the group; the second's passphrase now derives the first's chain. `add_key` does not refuse duplicates and `try_derive_key` takes the first match, against spec 8.7. |
| `block_layer` | `MCBlockXfer.cfg` | pass | Checks `TypeOK`, `BlockListFaithful` and `JoinAuthentic` (see below). |
| `block_round_trip` | `MCBlockXfer_RoundTrip.cfg` | violation | `RoundTrip` (spec 8.1): without tampering, the join of the split blocks succeeds and reproduces the input. TLC splits the one-byte input `<<b1>>`. `block_out` stores `<<b1, bz>>`, the whole buffer (`block_xfer.rs:157`), under the HMAC of `<<b1>>`. The join then fails with InvalidHmac. Every input whose length is not a multiple of the block size fails the same way, including spec example E1. |
| `keymgmt_tx_safety` | `MCKeyMgmtTx.cfg` | pass | `TypeOK`, `RetriesMeanContention` and `ImplementsKeyMgmt` (the refinement, as a `PROPERTY`), over every interleaving of two clients' transactions. |
| `keymgmt_tx_liveness` | `MCKeyMgmtTx_Live.cfg` | pass | `CallsReturn`: under the fairness above, every call returns however the other client's commits interleave. |
| `keymgmt_tx_error_effect` | `MCKeyMgmtTx_ErrorEffect.cfg` | violation | `ErrorMeansNoEffect`: `init_keys` whose commit errors after the backend applied it. The call returns an error while the list exists, so a retry gets `KdfListAlreadyExists` (`keymgmt.rs:41`, the `?` on `commit`). |
| `dirver` | `MCDirVer.cfg` | pass | `VerRoundTrip` (spec 8.5) and `TamperReadsZero` (spec 8.6): any substituted ciphertext reads as 0 unless it is this directory's encryption of the version it reads as. |
| `dirver_replay` | `MCDirVer_Replay.cfg` | violation | `NoCrossDirReplay` (spec 4.2.5): the server hands back another directory's version ciphertext. It decrypts here to `v XOR iv_a XOR iv_b`, with the padding still zero, because the IV only reaches the first block (`crypt.rs:584`). Ids whose folds agree even share the ciphertext. |
| `crypt_envelope` | `MCCryptStream.cfg` | pass | `ObjRoundTrip` (spec 8.3), `DirRoundTrip` (spec 8.4), `SessionKeyReturned` (spec 4.2.3 (iii)) and `PanicOnlyOnUnaligned`, for every input, every split of the reads and every tampering. |

What `keymgmt_safety` checks:

- **`NoLockout`**: a list, once created, is never empty, and some entry
  carries `everyone` and some entry carries `root`.
- **`EveryoneOnEveryEntry`**: every entry carries `everyone`.
- **`KeyConsistency`**: all entries carrying a group hold the same key for
  it (spec 8.8).
- **`KeyStability`**: no step replaces the key of a group that stays
  carried.
- **`ChangeKeyKeepsGroups`**: a step that gives an entry a new passphrase
  leaves it carrying exactly the groups it carried. With
  `allow_change_via_other_passphrase`, `change_key` derives the chain of
  another entry, and the loop at keymgmt.rs:219-223 copies from it only the
  changed entry's own groups. Copying the derived chain would grant the
  entry the other passphrase's groups.

What `block_layer` checks:

- **`BlockListFaithful`**: the returned list cuts the whole input into
  consecutive blocks of 1..block_size bytes, in the order read, and its size
  is the input's length.
- **`JoinAuthentic`**: whatever the attacker did, a join that returns Ok has
  written exactly the input.

What the transaction and cipher runs check:

- **`ImplementsKeyMgmt`**: the committed list changes only as one atomic
  `KeyMgmt` operation would change it. No update is lost, and none is applied
  to a list it was not computed from. So every invariant proved of `KeyMgmt`
  holds of the concurrent system.
- **`RetriesMeanContention`**: `TooManyTxRetries` is returned only after
  other clients committed at least `MaxRetries` times during the call.
- **`CallsReturn`**: every call returns.
- **`SessionKeyReturned`**: unless the store altered the ciphertext,
  `decrypt_whole_dir` returns the session key that `encrypt_whole_dir`
  returned, also after an append. This is spec 4.2.3 (iii) and the test
  `crypt_dir_oneshot`. The mutant that takes key and IV in the other order
  in `split_key_and_iv` breaks it.
- **`PanicOnlyOnUnaligned`**: the encryptors panic only on a directory part
  that is not a positive multiple of the block size. They never panic on
  aligned input, however the reads split it into buffer passes. An object,
  padded, never makes them fail.

`crypt_envelope` and the `dirver` runs have no deadlock check, since every
job ends. The transaction runs check deadlock: an idle client can always call.

`block_layer` has no deadlock check. Both calls return, so their final
states have no successor.

Each property of the passing runs has a mutant of the code that TLC catches
(PROJECT.json, `mutants`):

| Mutant | Property it breaks |
|--------|--------------------|
| `del_key` without the last-key-in-group check | `NoLockout` |
| `disassoc_group` accepting `everyone` | `EveryoneOnEveryEntry` |
| `create_group` checking only the matched entry for an existing group | `KeyConsistency` |
| `create_group` with no check at all | `KeyStability` |
| `change_key` copying the whole derived chain | `ChangeKeyKeepsGroups` |
| the read handed the whole buffer instead of `block_data[off..]` | `TypeOK` (`BlockXfer`) |
| `size` advanced by `block_size` instead of `off` | `BlockListFaithful` |
| the joiner not comparing a block's HMAC with its id | `JoinAuthentic` |
| `do_tx`'s loop bound inclusive | `TypeOK` (`KeyMgmtTx`) |
| the list read once and reused on retries | `RetriesMeanContention` |
| a commit without the version check | `ImplementsKeyMgmt` |
| a conflict that does not count as a try | `CallsReturn` |
| the version decoded big-endian | `VerRoundTrip` |
| the padding check starting at the second block | `TamperReadsZero` |
| key and IV swapped in `split_key_and_iv` | `ObjRoundTrip` |
| `dir_append_iv` taking the first block | `DirRoundTrip` |
| a short read taken for the end of input | `PanicOnlyOnUnaligned` |

**Bounds.**

- Three names are the fewest that let `del_key` remove a middle entry,
  change an entry through a second one and still leave a third.
- Two passphrases give both matching and non-matching passphrases, and
  duplicate passphrases across entries.
- Three groups are the two built-ins plus one user group. That is enough for
  `create_group`, `assoc_group`, `disassoc_group` and `destroy_group` on a
  group that is not a built-in.
- Two key values make a second, different key possible for a group.

The run reaches about 116,000 distinct states at depth 13, and every action
fires.

**Fairness.** `KeyMgmt` and `BlockXfer` assume none. Their operations are
calls a user makes, and none of them must eventually happen. `KeyMgmtTx`
assumes weak fairness of each client's own steps, as described above. That
is the only fairness used, and only `CallsReturn` depends on it.

## 4. What is proved (TLAPS)

### Key management (`KdfListProofs`, `KeyMgmtProofs`)

**Assumptions.** The proofs hold for every value of the constants that
satisfies the named assumptions of `KdfList`:

- the names are naturals, and every non-empty set of names has a least
  element (the order a `BTreeMap` iterates in);
- `everyone` and `root` are distinct groups;
- key values are non-zero;
- `NoName` and `NoEntry` are fresh.

The least-element assumption replaces an induction that the installed
provers cannot instantiate. TLC evaluates it on every run.

**Theorems.**

- **`TypeCorrect`**: `Spec => []TypeOK`; the base the other proofs stand on.
- **`SafetyInductive`**: `Spec => []IInv`. The inductive invariant is:
  - `TypeOK`;
  - once the list exists, `SafeKeys(keys)`: the list is non-empty, every
    entry carries `everyone`, some entry carries `root`, and the copies of a
    group key agree;
  - before the list exists, it is empty.

  `NoLockout` alone is not inductive. `change_key` through another entry
  keeps a group carried only because that entry holds the same key for it,
  and the copying operations keep keys consistent only because their source
  is consistent with the rest. So consistency and the properties have to be
  proved together.
- **`SafetyInvariants`**: `Spec => [](NoLockout /\ EveryoneOnEveryEntry /\
  KeyConsistency)`. `EveryoneOnEveryEntryHolds` and `KeyConsistencyHolds`
  state its second and third parts on their own.
- **`KeyStabilityHolds`**: `Spec => KeyStability`.
- **`ChangeKeyKeepsGroupsHolds`**: `Spec => ChangeKeyKeepsGroups`. Every
  edit except `change_key` keeps the passphrase of each entry it leaves
  present (`PassKept`). `ChangeKeyGroups` shows that the rebuilt chain
  carries the entry's old groups: `ChangeKeyOk` ensures that the derived
  chain has a key for each of them.

**The argument.** One lemma per edit closure shows that a successful edit of
a safe list gives a safe list (`AddKeySafe`, `DelKeySafe`, `ChangeKeySafe`,
...). For every edit except `create_group`, the lemma also shows that every
key of the new list is a key that the old list held for the same group
(`KeysFromOld`). With consistency, that gives both consistency of the new
list (`ConsistentFromOld`) and key stability (`StableFromOld`).
`create_group` is proved separately. Its guard says that no entry carried the
new groups, so their fresh key cannot disagree with an older one.

### Block splitter (`BlockXferProofs`)

- **`SplitterFaithful`**: `Spec => []BlockListFaithful`, for every block
  size, byte set and input length.
- **Inductive invariant `SplitInv`.**
  - The first `off` bytes of `block_data` are the last `off` bytes read.
  - The ids emitted so far cut the bytes read before the current block. This
    is stated with an explicit array of cut points, not a recursive
    concatenation.
  - `size` counts the bytes read before the current block.
  - The fill loop hands over only a full buffer or one ended by EOF.
  - The call returns only with an empty last pass at EOF.
- **Lemma `SplitsAppend`.** Appending a block over the next 1..block_size
  bytes extends a cut.
- **Why these invariants.** The buffer invariant is what makes the id of an
  emitted block cover the next bytes of the input. The EOF conjunct is what
  makes the final list cover the whole input.
- **`JoinAuthenticHolds`**: `Spec => []JoinAuthentic`, for every block size
  and input, whatever the attacker replaced. Its inductive invariant
  `JoinInv` adds to `SplitInv`:
  - while the joiner runs, the splitter has returned, and the list's total
    is still `Total(blocks)`. The attacker can change the ids, not the total;
  - once `CheckTotal` passed, the list's ids are the splitter's own ids.
    The total is injective in the ids;
  - in the block loop, the output is the input up to the end of block
    `ji - 1` on one fixed cut (`Cut`, a `CHOOSE` over the cuts that
    `BlockListFaithful` says exist).

  Lemma `JoinStep` shows that an accepted block extends the output by the
  next piece of the cut. The HMAC check pins the block's bytes, and
  `ConcatAdjacentSubSeq` of the library joins the two pieces. At `JoinDone`
  the output is the input up to the last cut point, which is the whole
  input (`SubSeqFull`). The proof uses the model's collision-free HMAC, as
  the TLC runs do.
- **`TypeCorrect`**: `Spec => []TypeOK`. The store holds only blobs of at
  most block_size bytes, under ids of such data.

### Transaction layer (`KeyMgmtTxProofs`)

The proofs hold for every set of clients, every retry bound `MaxRetries`
in `Nat \ {0}`, and every non-empty set of requests. They also need the
assumptions of `KdfList`.

- **`TypeCorrect`**: `Spec => []TypeOK`. `TypeOK` is not inductive as it
  stands. `TypeInv` adds that a client in the body or at commit has an
  attempt left (so `CommitConflict` keeps `tries` within bounds), and that a
  client at commit has staged a list (so `Install` installs a `KeyMap`).
- **`Refinement`**: `Spec => ImplementsKeyMgmt`, that is `KM!Spec` under
  the mapping `listExists <- dirExists, keys <- dirKeys`. The inductive
  invariant `RefInv` (theorem `RefInvariant`) says:
  - no list means the empty list;
  - a running request passed its pre-checks (`disassoc` and `destroy`
    refuse the built-in groups outside the transaction);
  - a client at commit whose snapshot is not stale is `Ready`. It has
    staged `Edited(req, dirKeys, k)` for some key `k`, with the edit's
    guard holding on the committed list. For `init_keys`, no list exists
    and it has staged `InitKeys`.

  The last conjunct holds because every install marks every other client
  stale. That is the storage's version check. `InstallIsKMStep` maps the
  install of a `Ready` commit to the `KeyMgmt` action of the request's
  operation. `EditIsKMStep` does this per operation, unfolding the `CASE`
  of `EditOk` and `Edited`. `KMSameEdits` shows that the `KdfList`
  operators seen through the instance `KM` are the ones `KeyMgmtTx` uses.
  Every other step leaves the list alone.
- **`RetriesMeanContentionHolds`**: `Spec => []RetriesMeanContention`.
  The inductive invariant `RetriesInv` counts commits by other clients.
  In the loop, `tries <= replaced`. At commit, `tries + 1 <= replaced` if
  the snapshot is stale. A client that gave up has `replaced >= MaxRetries`.
  An install by another client raises `replaced` and makes the snapshot
  stale at once. When `replaced` is already at its cap, the cap is above
  `tries`, because the client has an attempt left.

### Cipher envelope (`CryptStreamProofs`)

The proofs use `CryptStreamAssumption`: the block size `Blk` is positive,
bytes are `0..ByteMax-1` with `Blk < ByteMax`, and the master key and the
draws are blocks. AES and the byte XOR meet only the contracts above.
Nothing else is assumed about the buffer size, the plaintexts or the sizes
the reads return.

- **`PanicOnlyOnUnalignedHolds`**: `Spec => []PanicOnlyOnUnaligned`.
  The invariant is not inductive as it stands. `PanicInv` adds
  `EncStreamInv` for an encrypting call:
  - the call streams `plain[stage]`, and its cryptor pads exactly for
    objects;
  - what the cryptor holds back plus what the buffer holds is congruent,
    modulo `Blk`, to the number of bytes read;
  - a pass at EOF comes after the whole source was read.

  So the last pass fails only when the source length is not a multiple of
  `Blk`, and never with padding. The lemmas:
  - `EncPass`: when an encrypting pass fails, and what it holds back;
  - `DivMod`, `ModUnique`, `ModShift` and `ModMod`: remainder arithmetic;
  - `PadAligned`: padding aligns.

  The proof does not need the buffer to be a multiple of `Blk`.
- **`SessionKeyReturnedHolds`**: `Spec => []SessionKeyReturned`.
  `KeyInv` is inductive together with `PanicInv`. It follows the key
  through the calls:
  - during the first call, the cryptor holds some drawn key `r[1]`, and
    the output begins with `DirPrefix(r)`, the encrypted key and IV;
  - after it, the returned key is `r[1]`, and the stored ciphertext
    (untampered) begins with `DirPrefix(r)`;
  - an append only extends the ciphertext, through the lemma
    `StartsConcat`;
  - the decrypting call's cryptor, and then its result, hold that key.

  Its core is `PrefixRoundTrip`: `read_cbc_prefix` and `split_key_and_iv`
  undo `write_cbc_prefix`. The prefix is exactly two blocks, so CBC needs
  no induction. `CbcEncTwo` reads the two blocks off the fixpoint that the
  `CHOOSE` behind `CbcEnc`'s recursive function denotes. `BlocksTwo`,
  `FlattenTwo` and `CbcDecTwo` do the rest, with the XOR and AES
  contracts.

## 5. What is not modelled, and what is only model-checked

- **Only model-checked.** These are checked by TLC and not proved:
  - the liveness property `CallsReturn`;
  - the `DirVer` properties;
  - `ObjRoundTrip` and `DirRoundTrip` of `CryptStream`.

  The properties that TLC finds violated (`RootOnEveryEntry`,
  `DerivationSound`, `RoundTrip`, `ErrorMeansNoEffect`, `NoCrossDirReplay`)
  are findings, not theorems.

  Liveness is beyond TLAPS here: it needs `ENABLED` and the fairness of
  each client's steps, and the provers do not handle those. The round trips of `CryptStream` are about
  CBC over any number of blocks. Proving them needs induction over the
  blocks, through the recursive function in `CbcEnc`, and the library's
  induction theorems take an operator parameter that the installed provers
  cannot instantiate. `DirVer` uses `Bitwise`, which no module with a
  theorem may reach, and its decoding is digit arithmetic over folds, which
  again needs induction over data.
- **The storage backend, rust-crypto and AES.** These are not in this
  repository. They are modelled from the spec and from the library's
  contract, and marked `spec_modelled`.
- **`list_keys`.** It is a read-only projection of the list for display.
- **`log.rs`.** It holds log-level types and a test logger that collects
  messages, with no control flow a property is about.
- **`cli/config.rs`.** It is TOML parsing and path resolution: sequential
  I/O with no concurrency or persistent state. The spec puts the CLI out of
  scope.
- **Appends after an empty first part.** `dir_append_iv` on the prefix
  alone would give the wrong IV. The spec requires positive multiples, so
  only those are checked.

## 6. Plan

1. `KdfList`, `KeyMgmt` and `BlockXfer` with their proofs. Done.
2. `KeyMgmtTx` with its refinement of `KeyMgmt`, its retry bound and its
   liveness. Done, with TLAPS proofs of the refinement, the type invariant
   and the retry bound.
3. `DirVer` and `CryptStream`. Done, with TLAPS proofs of
   `PanicOnlyOnUnaligned` and `SessionKeyReturned`. Next: several appends
   in one job.
4. `BlockXfer`: the concurrent modification of the source that the doc
   comment allows. `JoinAuthentic` and the type invariant are proved.
