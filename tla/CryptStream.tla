---------------------------- MODULE CryptStream ----------------------------
(***************************************************************************)
(* The cipher envelope of src/server/crypt.rs: crypt_stream's read loop,   *)
(* the CBC session prefix (write_cbc_prefix, read_cbc_prefix,              *)
(* split_key_and_iv), objects (encrypt_obj, decrypt_obj: PKCS padding) and *)
(* directories (encrypt_whole_dir, encrypt_append_dir, dir_append_iv,      *)
(* decrypt_whole_dir: no padding).                                         *)
(*                                                                         *)
(* One job runs the calls of a round trip in order, each through          *)
(* crypt_stream.  Reads return any number of bytes up to the free space of *)
(* the 4096-byte buffer (Buf here), and 0 only at the end of the source.   *)
(* The cryptor (rust-crypto's cbc_encryptor and cbc_decryptor, not part of *)
(* this repository) is modelled by its contract: it consumes every byte it *)
(* is given, keeps a partial block (and, decrypting with padding, the last *)
(* whole block) until more input or EOF, chains blocks by CBC and on EOF   *)
(* adds or checks the PKCS padding, or fails when no padding is used and a *)
(* partial block is left.  AES under a key is the constant permutation     *)
(* AesEnc(key, _) of blocks.                                               *)
(***************************************************************************)
EXTENDS Naturals, Sequences

CONSTANTS
  ByteMax,      \* a byte is 0..ByteMax-1 (256)
  Blk,          \* BLKSZ (16)
  Buf,          \* crypt_stream's src_buf (4096 bytes, a multiple of BLKSZ)
  Data,         \* the byte values of plaintexts
  MaxLen,       \* the longest plaintext
  ObjKey,       \* master.obj_key()
  DirKey,       \* master.dir_key()
  Randoms,      \* the (key, iv) pairs rand() may draw, as pairs of blocks
  AesEnc(_, _), \* AES-128 encryption of a block under a key
  AesDec(_, _), \* its inverse
  ByteXor(_, _) \* the bitwise XOR a ^ b of two bytes (Bitwise's ^^ in a model)

Bytes == 0..(ByteMax - 1)
Block == [1..Blk -> Bytes]
ZeroBlock == [i \in 1..Blk |-> 0]

ASSUME CryptStreamAssumption ==
  /\ ByteMax \in Nat /\ Blk \in Nat \ {0} /\ Blk < ByteMax
  /\ Buf \in Nat \ {0} /\ Buf % Blk = 0
  /\ Data \subseteq Bytes /\ MaxLen \in Nat
  /\ {ObjKey, DirKey} \subseteq Block
  /\ Randoms \subseteq Block \X Block
  /\ \A k, b \in Block : AesEnc(k, b) \in Block /\ AesDec(k, AesEnc(k, b)) = b
  /\ \A a, b \in Bytes : ByteXor(a, b) \in Bytes /\ ByteXor(ByteXor(a, b), b) = a

XorBlock(a, b) == [i \in 1..Blk |-> ByteXor(a[i], b[i])]

(* The blocks of a byte string whose length is a multiple of Blk.          *)
Blocks(s) == [i \in 1..(Len(s) \div Blk) |-> [j \in 1..Blk |-> s[(i - 1) * Blk + j]]]

Flatten(bs) == [j \in 1..(Len(bs) * Blk) |-> bs[(j - 1) \div Blk + 1][((j - 1) % Blk) + 1]]

(* CBC over whole blocks from the chaining block iv.                       *)
CbcEnc(key, iv, p) ==
  LET bs == Blocks(p)
      c[i \in 0..Len(bs)] ==
        IF i = 0 THEN iv ELSE AesEnc(key, XorBlock(bs[i], c[i - 1]))
  IN [i \in 1..Len(bs) |-> c[i]]

CbcDec(key, iv, cs) ==
  LET bs == Blocks(cs)
  IN [i \in 1..Len(bs) |->
        XorBlock(AesDec(key, bs[i]), IF i = 1 THEN iv ELSE bs[i - 1])]

LastBlock(s) == SubSeq(s, Len(s) - Blk + 1, Len(s))

(* blockmodes::PkcsPadding.                                                *)
Pad(s) == LET n == Blk - (Len(s) % Blk) IN s \o [i \in 1..n |-> n]

PadOk(s) ==
  /\ Len(s) >= Blk
  /\ s[Len(s)] \in 1..Blk
  /\ \A i \in (Len(s) - s[Len(s)] + 1)..Len(s) : s[i] = s[Len(s)]

Unpad(s) == SubSeq(s, 1, Len(s) - s[Len(s)])

(* A cryptor: direction, padding, key, the chaining block, the bytes it    *)
(* holds back.                                                             *)
Cryptor(enc, pad, key, iv) ==
  [enc |-> enc, pad |-> pad, key |-> key, chain |-> iv, held |-> <<>>]

(* One call of Cryptor::crypt on `data`: the new cryptor, the bytes it     *)
(* writes and whether it fails.  It processes the first `cut` of the held  *)
(* and new bytes (all of them on EOF, padded when encrypting with PKCS).   *)
CryptPass(cr, data, eof) ==
  LET all == cr.held \o data
      whole == Len(all) - (Len(all) % Blk)
      cut == IF eof THEN Len(all)
             ELSE IF ~cr.enc /\ cr.pad /\ whole > 0 THEN whole - Blk ELSE whole
      now == IF eof /\ cr.enc /\ cr.pad THEN Pad(all) ELSE SubSeq(all, 1, cut)
      ready == Len(now) % Blk = 0
      enced == Flatten(CbcEnc(cr.key, cr.chain, now))
      deced == Flatten(CbcDec(cr.key, cr.chain, now))
      fail == eof /\ (~ready \/ (~cr.enc /\ cr.pad /\ ~PadOk(deced)))
  IN [cr |-> [cr EXCEPT
                !.chain = IF ~ready \/ Len(now) = 0 THEN cr.chain
                          ELSE IF cr.enc THEN LastBlock(enced) ELSE LastBlock(now),
                !.held = SubSeq(all, cut + 1, Len(all))],
      out |-> IF cr.enc THEN enced
              ELSE IF eof /\ cr.pad /\ ~fail THEN Unpad(deced) ELSE deced,
      fail |-> fail]

(* Mutant: key and IV taken in the other order.                            *)
SplitIvAndKey(ki) == <<Blocks(ki)[2], Blocks(ki)[1]>>

(* split_key_and_iv: the first block of the decrypted prefix is the key,  *)
(* the second the IV.                                                      *)
split_key_and_iv(ki) == <<Blocks(ki)[1], Blocks(ki)[2]>>

(* Mutant: the first BLKSZ bytes instead of the last.                      *)
DirAppendIvFirst(data) == SubSeq(data, 1, Blk)

(* dir_append_iv: the last BLKSZ bytes of the ciphertext so far.           *)
dir_append_iv(data) == LastBlock(data)

Seqs(S, lo, hi) == UNION {[1..n -> S] : n \in lo..hi}

(* The plaintexts of a job: one object, or a directory and what is         *)
(* appended to it.  Directory parts are meant to be positive multiples of  *)
(* BLKSZ; other lengths are included to see what the code does with them. *)
ObjInputs == {<<s>> : s \in Seqs(Data, 0, MaxLen)}
DirInputs == {<<s0, s1>> : s0, s1 \in Seqs(Data, 1, MaxLen)}

Aligned(s) == Len(s) > 0 /\ Len(s) % Blk = 0

-----------------------------------------------------------------------------
VARIABLES
  job,          \* "obj": encrypt_obj then decrypt_obj; "dir": encrypt_whole_dir,
                \* encrypt_append_dir, decrypt_whole_dir
  plain,        \* the job's plaintexts
  stage,        \* the call the job is in
  pc,           \* where that call is
  input,        \* the bytes the call's reader yields after any prefix
  rpos,         \* how many of them it has read
  buf,          \* src_buf[..nread]
  eof,          \* the reader returned 0
  cr,           \* the cryptor
  out,          \* what the call wrote to dst
  ct,           \* the ciphertext written by the job so far
  key,          \* the session key encrypt_whole_dir returned
  result,       \* what the decrypting call returned: cleartext and key
  tampered      \* the stored ciphertext was changed before it was read back

vars == <<job, plain, stage, pc, input, rpos, buf, eof, cr, out, ct, key, result, tampered>>

Init ==
  /\ \/ job = "obj" /\ plain \in ObjInputs
     \/ job = "dir" /\ plain \in DirInputs
  /\ stage = 1
  /\ pc = "call"
  /\ input = <<>> /\ rpos = 0 /\ buf = <<>> /\ eof = FALSE
  /\ cr = Cryptor(TRUE, TRUE, ZeroBlock, ZeroBlock)
  /\ out = <<>> /\ ct = <<>> /\ key = ZeroBlock
  /\ result = [text |-> <<>>, key |-> ZeroBlock]
  /\ tampered = FALSE

(* The start of a call: the first pass of the outer loop.                  *)
Stream(src, c) ==
  /\ input' = src /\ rpos' = 0 /\ buf' = <<>> /\ eof' = FALSE
  /\ cr' = c
  /\ pc' = "fill"

(* encrypt_obj and encrypt_whole_dir: write_cbc_prefix draws (key, iv) and *)
(* writes them encrypted under the master half with a zero IV, no padding; *)
(* then the body is encrypted under (key, iv).                             *)
EncryptWithPrefix ==
  /\ pc = "call"
  /\ stage = 1
  /\ \E r \in Randoms :
       LET master == IF job = "obj" THEN ObjKey ELSE DirKey
       IN /\ out' = Flatten(CbcEnc(master, ZeroBlock, r[1] \o r[2]))
          /\ Stream(plain[1], Cryptor(TRUE, job = "obj", r[1], r[2]))
  /\ UNCHANGED <<job, plain, stage, ct, key, result, tampered>>

(* encrypt_append_dir(S1, key, dir_append_iv(ciphertext)).                 *)
EncryptAppend ==
  /\ pc = "call"
  /\ job = "dir" /\ stage = 2
  /\ out' = <<>>
  /\ Stream(plain[2], Cryptor(TRUE, FALSE, key, dir_append_iv(ct)))
  /\ UNCHANGED <<job, plain, stage, ct, key, result, tampered>>

(* decrypt_obj and decrypt_whole_dir: read_cbc_prefix reads 32 bytes      *)
(* (read_exact fails on a shorter input) and decrypts them.                *)
DecryptWithPrefix ==
  /\ pc = "call"
  /\ stage = IF job = "obj" THEN 2 ELSE 3
  /\ IF Len(ct) < 2 * Blk
       THEN /\ pc' = "failed"
            /\ UNCHANGED <<input, rpos, buf, eof, cr, out>>
       ELSE LET master == IF job = "obj" THEN ObjKey ELSE DirKey
                ki == split_key_and_iv(
                        Flatten(CbcDec(master, ZeroBlock, SubSeq(ct, 1, 2 * Blk))))
            IN /\ out' = <<>>
               /\ Stream(SubSeq(ct, 2 * Blk + 1, Len(ct)),
                         Cryptor(FALSE, job = "obj", ki[1], ki[2]))
  /\ UNCHANGED <<job, plain, stage, ct, key, result, tampered>>

(* Mutant: a read shorter than the free space taken for the end of input.  *)
ReadSomeShortIsEof(n) ==
  /\ pc = "fill"
  /\ n <= Buf - Len(buf)
  /\ n <= Len(input) - rpos
  /\ n = 0 <=> rpos = Len(input)
  /\ buf' = buf \o SubSeq(input, rpos + 1, rpos + n)
  /\ rpos' = rpos + n
  /\ eof' = (n < Buf - Len(buf))
  /\ pc' = IF eof' \/ Len(buf') = Buf THEN "crypt" ELSE "fill"
  /\ UNCHANGED <<job, plain, stage, input, cr, out, ct, key, result, tampered>>

(* crypt_stream's inner loop: src.read(&mut src_buf[nread..]) returns     *)
(* 1..free bytes, or 0 at the end; the loop stops on EOF or a full buffer. *)
ReadSome(n) ==
  /\ pc = "fill"
  /\ n <= Buf - Len(buf)
  /\ n <= Len(input) - rpos
  /\ n = 0 <=> rpos = Len(input)
  /\ buf' = buf \o SubSeq(input, rpos + 1, rpos + n)
  /\ rpos' = rpos + n
  /\ eof' = (n = 0)
  /\ pc' = IF n = 0 \/ Len(buf') = Buf THEN "crypt" ELSE "fill"
  /\ UNCHANGED <<job, plain, stage, input, cr, out, ct, key, result, tampered>>

(* One pass of the outer loop: crypt the buffer and write_all the output.  *)
(* A cryptor error panics when encrypting; when decrypting, zeros stand    *)
(* for the bytes that pass did not consume, after what the library wrote   *)
(* before failing (how much of either is up to the library).               *)
CryptBuffer ==
  LET r == CryptPass(cr, buf, eof) IN
  /\ pc = "crypt"
  /\ IF r.fail /\ cr.enc
       THEN /\ pc' = "panic"
            /\ UNCHANGED <<out, cr>>
       ELSE /\ \/ ~r.fail /\ out' = out \o r.out
               \/ r.fail /\ \E w \in 0..Len(r.out), z \in 0..Len(buf) :
                     out' = out \o SubSeq(r.out, 1, w) \o [i \in 1..z |-> 0]
            /\ cr' = r.cr
            /\ pc' = IF eof THEN "return" ELSE "fill"
  /\ buf' = <<>>
  /\ UNCHANGED <<job, plain, stage, input, rpos, eof, ct, key, result, tampered>>

(* The call returns: the encrypting calls' output extends the ciphertext  *)
(* (encrypt_whole_dir also returns its key), the decrypting call's output *)
(* and key are the job's result.                                           *)
Return ==
  /\ pc = "return"
  /\ LET last == stage = IF job = "obj" THEN 2 ELSE 3
     IN /\ ct' = IF last THEN ct ELSE ct \o out
        /\ key' = IF job = "dir" /\ stage = 1 THEN cr.key ELSE key
        /\ result' = IF last THEN [text |-> out, key |-> cr.key] ELSE result
        /\ stage' = IF last THEN stage ELSE stage + 1
        /\ pc' = IF last THEN "done" ELSE "call"
  /\ UNCHANGED <<job, plain, input, rpos, buf, eof, cr, out, tampered>>

(* The store hands back other bytes than were written: the ciphertext cut  *)
(* short, or one byte changed.                                             *)
Tamper ==
  /\ pc = "call"
  /\ stage = IF job = "obj" THEN 2 ELSE 3
  /\ ~tampered
  /\ \/ \E n \in 0..(Len(ct) - 1) : ct' = SubSeq(ct, 1, n)
     \/ \E i \in 1..Len(ct), b \in Bytes : b # ct[i] /\ ct' = [ct EXCEPT ![i] = b]
  /\ tampered' = TRUE
  /\ UNCHANGED <<job, plain, stage, pc, input, rpos, buf, eof, cr, out, key, result>>

Next ==
  \/ EncryptWithPrefix
  \/ EncryptAppend
  \/ DecryptWithPrefix
  \/ \E n \in 0..Buf : ReadSome(n)
  \/ CryptBuffer
  \/ Return
  \/ Tamper

Spec == Init /\ [][Next]_vars

-----------------------------------------------------------------------------
(* Spec 8.3: decrypt_obj returns exactly what encrypt_obj encrypted, for   *)
(* every length (empty, partial block, whole blocks, past the buffer) and  *)
(* however the readers split the bytes.                                    *)
ObjRoundTrip == job = "obj" /\ pc = "done" /\ ~tampered => result.text = plain[1]

(* Spec 8.4: a directory encrypted whole and then appended to, with the    *)
(* append IV taken from the ciphertext so far, decrypts to the             *)
(* concatenation.                                                          *)
DirRoundTrip ==
  job = "dir" /\ pc = "done" /\ ~tampered
    /\ Aligned(plain[1]) /\ Aligned(plain[2]) =>
    result.text = plain[1] \o plain[2]

(* Spec 4.2.3 (iii) and the test crypt_dir_oneshot (sk1 = sk2):            *)
(* decrypt_whole_dir returns the session key encrypt_whole_dir returned,   *)
(* also after an append, the prefix that carries the key being left as     *)
(* it was written.                                                         *)
SessionKeyReturned ==
  job = "dir" /\ pc = "done" /\ ~tampered => result.key = key

(* Spec 4.2.3/4.2.4: the directory encryptors (no padding, panic on a      *)
(* cryptor error) panic only on a part that is not a positive multiple of  *)
(* BLKSZ: never on aligned input, however the reads split it across        *)
(* buffer passes; and objects, padded, never make the encryptor fail.      *)
PanicOnlyOnUnaligned ==
  pc = "panic" => job = "dir" /\ \E i \in 1..2 : ~Aligned(plain[i])
=============================================================================
