------------------------- MODULE CryptStreamProofs -------------------------
(***************************************************************************)
(* Proofs about the cipher envelope of src/server/crypt.rs.               *)
(*                                                                         *)
(* crypt_stream's encrypting calls hand the cryptor the source in pieces  *)
(* whose sizes the readers choose.  Whether the last pass fails depends    *)
(* only on how many bytes are then held back and buffered, so the         *)
(* invariant counts bytes modulo BLKSZ: what the cryptor holds plus what  *)
(* the buffer holds is congruent to what has been read.  At EOF all of    *)
(* the source has been read, so the final pass has a partial block only   *)
(* when the source has one.                                               *)
(***************************************************************************)
EXTENDS CryptStream, SequenceTheorems, TLAPS

(* The cryptor is a record with its five fields.                           *)
CryptorShape(c) ==
  c = [enc |-> c.enc, pad |-> c.pad, key |-> c.key, chain |-> c.chain, held |-> c.held]

(* An encrypting call is streaming its source through the cryptor.         *)
Encrypting == pc \in {"fill", "crypt"} /\ cr.enc

(* What an encrypting call streams, and how much of it the cryptor and    *)
(* the buffer hold.                                                        *)
EncStreamInv ==
  /\ stage \in {1, 2}
  /\ stage = 2 => job = "dir"
  /\ input = plain[stage]
  /\ cr.pad = (job = "obj")
  /\ cr.held \in Seq(Data) /\ buf \in Seq(Data)
  /\ eof \in BOOLEAN
  /\ rpos \in 0..Len(input)
  /\ (Len(cr.held) + Len(buf)) % Blk = rpos % Blk
  /\ pc = "crypt" /\ eof => rpos = Len(input)

(* The inductive invariant behind PanicOnlyOnUnaligned.                    *)
PanicInv ==
  /\ job \in {"obj", "dir"}
  /\ plain[1] \in Seq(Data)
  /\ job = "dir" => plain[2] \in Seq(Data)
  /\ CryptorShape(cr)
  /\ Encrypting => EncStreamInv
  /\ PanicOnlyOnUnaligned

(* The bytes the first call writes before the body: the session key and  *)
(* IV r, encrypted under the directory half with a zero IV.                *)
DirPrefix(r) == Flatten(CbcEnc(DirKey, ZeroBlock, r[1] \o r[2]))

(* s is a finite sequence (of whatever values it holds).                   *)
IsSeq(s) == s \in Seq({s[i] : i \in DOMAIN s})

(* s begins with p.                                                        *)
StartsWith(s, p) == Len(p) <= Len(s) /\ \A i \in 1..Len(p) : s[i] = p[i]

(* The inductive invariant behind SessionKeyReturned: the first call's     *)
(* cryptor and then the returned key are the drawn session key, whose      *)
(* encrypted form begins the output and then the stored ciphertext; the   *)
(* decrypting call recovers it from there.                                 *)
KeyInv ==
  job = "dir" =>
    /\ stage \in 1..3
    /\ stage \in {1, 2} => IsSeq(out)
    /\ ~tampered => IsSeq(ct)
    /\ stage = 1 => ct = <<>>
    /\ stage \in {1, 2} /\ pc \in {"fill", "crypt", "return", "panic"} => cr.enc
    /\ stage = 1 /\ pc \in {"fill", "crypt", "return", "panic"} =>
         \E r \in Randoms : cr.key = r[1] /\ StartsWith(out, DirPrefix(r))
    /\ stage \in {2, 3} =>
         \E r \in Randoms : key = r[1] /\ (~tampered => StartsWith(ct, DirPrefix(r)))
    /\ stage = 3 /\ pc \in {"fill", "crypt", "return"} /\ ~tampered => cr.key = key
    /\ pc = "done" /\ ~tampered => result.key = key

-----------------------------------------------------------------------------
(* Division by a positive number: quotient and remainder.  (% binds no   *)
(* tighter than +, so remainders in sums are parenthesised.)               *)
LEMMA DivMod ==
  ASSUME NEW a \in Nat, NEW k \in Nat \ {0}
  PROVE  /\ a \div k \in Nat
         /\ (a % k) \in 0..(k - 1)
         /\ (a % k) <= a
         /\ a = k * (a \div k) + (a % k)
BY Z3

(* The remainder is the r of any a = k * q + r with r below k.             *)
LEMMA ModUnique ==
  ASSUME NEW a \in Nat, NEW k \in Nat \ {0}, NEW q \in Nat, NEW r \in 0..(k - 1),
         a = k * q + r
  PROVE  a % k = r
BY Z3

(* Adding the same count to two numbers keeps them congruent.              *)
LEMMA ModShift ==
  ASSUME NEW a \in Nat, NEW b \in Nat, NEW n \in Nat, NEW k \in Nat \ {0},
         a % k = b % k
  PROVE  (a + n) % k = (b + n) % k
<1>. SUFFICES ASSUME NEW x \in Nat PROVE (x + n) % k = ((x % k) + n) % k
  BY DivMod
<1>. DEFINE y == (x % k) + n
<1>1. y \in Nat
  BY DivMod
<1>. HIDE DEF y
<1>2. x \div k \in Nat /\ x = k * (x \div k) + (x % k)
  BY DivMod
<1>3. y \div k \in Nat /\ y = k * (y \div k) + (y % k) /\ (y % k) \in 0..(k - 1)
  BY <1>1, DivMod
<1>4. x + n = k * ((x \div k) + (y \div k)) + (y % k)
  BY <1>2, <1>3 DEF y
<1>5. x + n \in Nat /\ (x \div k) + (y \div k) \in Nat
  BY <1>2, <1>3
<1>6. (x + n) % k = y % k
  BY <1>3, <1>4, <1>5, ModUnique
<1>. QED  BY <1>6 DEF y

(* The block size is positive.                                            *)
LEMMA BlkPositive == Blk \in Nat \ {0}
BY CryptStreamAssumption

(* A run of bytes cut out of a byte string is a byte string of that many  *)
(* bytes.                                                                  *)
LEMMA SubSeqOfData ==
  ASSUME NEW s \in Seq(Data), NEW lo \in 1..(Len(s) + 1), NEW hi \in (lo - 1)..Len(s)
  PROVE  SubSeq(s, lo, hi) \in Seq(Data) /\ Len(SubSeq(s, lo, hi)) = hi - lo + 1
<1>1. \A i \in lo..hi : s[i] \in Data
  OBVIOUS
<1>. QED  BY <1>1, SubSeqProperties

(* A read of k bytes after the first p.                                   *)
LEMMA ReadBytes ==
  ASSUME NEW s \in Seq(Data), NEW p \in Nat, NEW k \in Nat, p + k <= Len(s)
  PROVE  SubSeq(s, p + 1, p + k) \in Seq(Data) /\ Len(SubSeq(s, p + 1, p + k)) = k
<1>1. p + 1 \in 1..(Len(s) + 1) /\ p + k \in (p + 1 - 1)..Len(s)
  OBVIOUS
<1>2. SubSeq(s, p + 1, p + k) \in Seq(Data)
      /\ Len(SubSeq(s, p + 1, p + k)) = (p + k) - (p + 1) + 1
  BY <1>1, SubSeqOfData
<1>. QED  BY <1>2

(* Taking the remainder twice changes nothing.                            *)
LEMMA ModMod ==
  ASSUME NEW x \in Nat
  PROVE  (x % Blk) % Blk = x % Blk
BY BlkPositive, Z3

(* What is left of a count after whole blocks: a part of it, below Blk.   *)
LEMMA RemBlk ==
  ASSUME NEW m \in Nat
  PROVE  (m % Blk) \in 0..m /\ (m % Blk) \in 0..(Blk - 1)
BY BlkPositive, Z3

(* PKCS padding fills up the last block.                                   *)
LEMMA PadAligned ==
  ASSUME NEW s \in Seq(Data)
  PROVE  Len(Pad(s)) % Blk = 0
<1>. DEFINE n == Blk - (Len(s) % Blk)
<1>1. n \in 1..Blk /\ Len(s) = Blk * (Len(s) \div Blk) + (Len(s) % Blk)
      /\ Len(s) \div Blk \in Nat
  <2>1. Len(s) \in Nat /\ Blk \in Nat \ {0}
    BY BlkPositive
  <2>2. /\ Len(s) \div Blk \in Nat
        /\ (Len(s) % Blk) \in 0..(Blk - 1)
        /\ Len(s) = Blk * (Len(s) \div Blk) + (Len(s) % Blk)
    BY <2>1, DivMod
  <2>. QED  BY <2>1, <2>2
<1>2. Len(Pad(s)) = Len(s) + n
  BY <1>1, BlkPositive DEF Pad
<1>3. Len(s) + n = Blk * (Len(s) \div Blk + 1) + 0
  BY <1>1, BlkPositive
<1>4. Len(s) + n \in Nat /\ Len(s) \div Blk + 1 \in Nat /\ 0 \in 0..(Blk - 1)
  BY <1>1, BlkPositive
<1>5. (Len(s) + n) % Blk = 0
  BY <1>3, <1>4, BlkPositive, ModUnique
<1>. QED  BY <1>2, <1>5

(* One pass of an encrypting cryptor: it fails only on EOF without padding *)
(* and a partial block, keeps its direction and padding, and before EOF    *)
(* holds back exactly the partial block.                                   *)
LEMMA EncPass ==
  ASSUME NEW c, NEW data \in Seq(Data), NEW e \in BOOLEAN,
         CryptorShape(c), c.enc = TRUE, c.pad \in BOOLEAN, c.held \in Seq(Data)
  PROVE  LET r == CryptPass(c, data, e)
             all == c.held \o data
         IN  /\ r.fail <=> e /\ ~c.pad /\ Len(all) % Blk # 0
             /\ CryptorShape(r.cr) /\ r.cr.enc = c.enc /\ r.cr.pad = c.pad
             /\ ~e => /\ r.cr.held \in Seq(Data)
                      /\ Len(r.cr.held) = Len(all) % Blk
<1>. DEFINE all == c.held \o data
            r == CryptPass(c, data, e)
            whole == Len(all) - (Len(all) % Blk)
            cut == IF e THEN Len(all) ELSE whole
            now == IF e /\ c.pad THEN Pad(all) ELSE SubSeq(all, 1, cut)
<1>1. all \in Seq(Data)
  OBVIOUS
<1>2. r.fail <=> e /\ Len(now) % Blk # 0
  BY DEF CryptPass
<1>3. e /\ c.pad => Len(now) % Blk = 0
  BY <1>1, PadAligned
<1>4. e /\ ~c.pad => Len(now) = Len(all)
  BY <1>1
<1>5. r.cr = [c EXCEPT !.chain = r.cr.chain,
                       !.held = SubSeq(all, cut + 1, Len(all))]
  BY DEF CryptPass
<1>6. CryptorShape(r.cr) /\ r.cr.enc = c.enc /\ r.cr.pad = c.pad
  BY <1>5 DEF CryptorShape
<1>7. ~e => r.cr.held \in Seq(Data) /\ Len(r.cr.held) = Len(all) % Blk
  <2>. SUFFICES ASSUME ~e PROVE r.cr.held \in Seq(Data) /\ Len(r.cr.held) = Len(all) % Blk
    OBVIOUS
  <2>a. Len(all) \in Nat
    BY <1>1
  <2>b. Blk \in Nat \ {0}
    BY BlkPositive
  <2>0. (Len(all) % Blk) \in 0..Len(all)
    BY <2>a, RemBlk
  <2>1. cut = whole /\ whole \in 0..Len(all) /\ Len(all) - whole = Len(all) % Blk
    BY <2>a, <2>0
  <2>2. r.cr.held = SubSeq(all, whole + 1, Len(all))
    BY <1>5, <2>1 DEF CryptorShape
  <2>3. whole + 1 \in 1..(Len(all) + 1) /\ Len(all) \in (whole + 1 - 1)..Len(all)
    BY <2>1
  <2>. HIDE DEF whole, all
  <2>4. /\ SubSeq(all, whole + 1, Len(all)) \in Seq(Data)
        /\ Len(SubSeq(all, whole + 1, Len(all))) = Len(all) - (whole + 1) + 1
    BY <1>1, <2>3, SubSeqOfData
  <2>. QED  BY <2>1, <2>2, <2>4
<1>. QED  BY <1>2, <1>3, <1>4, <1>6, <1>7

(* Any pass keeps the cryptor a record and keeps its direction.           *)
LEMMA PassShape ==
  ASSUME NEW c, NEW data, NEW e, CryptorShape(c)
  PROVE  /\ CryptorShape(CryptPass(c, data, e).cr)
         /\ CryptPass(c, data, e).cr.enc = c.enc /\ CryptPass(c, data, e).cr.key = c.key
<1>. DEFINE all == c.held \o data
            cut == IF e THEN Len(all)
                   ELSE IF ~c.enc /\ c.pad /\ Len(all) - (Len(all) % Blk) > 0
                        THEN Len(all) - (Len(all) % Blk) - Blk
                        ELSE Len(all) - (Len(all) % Blk)
<1>1. CryptPass(c, data, e).cr
        = [c EXCEPT !.chain = CryptPass(c, data, e).cr.chain,
                    !.held = SubSeq(all, cut + 1, Len(all))]
  BY DEF CryptPass
<1>. QED  BY <1>1 DEF CryptorShape

(* Plaintexts are byte strings.                                            *)
LEMMA SeqsOfData ==
  ASSUME NEW lo \in Nat, NEW hi \in Nat, NEW s \in Seqs(Data, lo, hi)
  PROVE  s \in Seq(Data)
<1>1. PICK n \in lo..hi : s \in [1..n -> Data]
  BY DEF Seqs
<1>. QED  BY <1>1

LEMMA InitPanicInv == Init => PanicInv
<1>. SUFFICES ASSUME Init PROVE PanicInv
  OBVIOUS
<1>1. plain[1] \in Seq(Data) /\ (job = "dir" => plain[2] \in Seq(Data))
  <2>1. CASE job = "obj" /\ plain \in ObjInputs
    <3>1. PICK s \in Seqs(Data, 0, MaxLen) : plain = <<s>>
      BY <2>1 DEF ObjInputs
    <3>. QED  BY <2>1, <3>1, SeqsOfData, CryptStreamAssumption
  <2>2. CASE job = "dir" /\ plain \in DirInputs
    <3>1. PICK s0, s1 \in Seqs(Data, 1, MaxLen) : plain = <<s0, s1>>
      BY <2>2 DEF DirInputs
    <3>. QED  BY <2>2, <3>1, SeqsOfData, CryptStreamAssumption
  <2>. QED  BY <2>1, <2>2 DEF Init
<1>2. CryptorShape(cr)
  BY DEF Init, Cryptor, CryptorShape
<1>. QED  BY <1>1, <1>2 DEF Init, PanicInv, Encrypting, PanicOnlyOnUnaligned

(* The start of an encrypting call: the cryptor holds nothing, nothing is  *)
(* buffered or read.                                                       *)
LEMMA StartEncrypting ==
  ASSUME PanicInv, NEW src, NEW k, NEW iv,
         Stream(src, Cryptor(TRUE, job = "obj", k, iv)),
         stage' \in {1, 2}, stage' = 2 => job = "dir",
         src = plain[stage'], src \in Seq(Data),
         UNCHANGED <<job, plain>>
  PROVE  PanicInv'
<1>1. CryptorShape(cr') /\ cr'.enc /\ cr'.pad = (job = "obj") /\ cr'.held = <<>>
  BY DEF Stream, Cryptor, CryptorShape
<1>2. input' = plain'[stage'] /\ input' \in Seq(Data) /\ rpos' = 0 /\ buf' = <<>>
      /\ eof' = FALSE /\ pc' = "fill"
  BY DEF Stream
<1>3. cr'.pad = (job' = "obj")
  BY <1>1
<1>4. (Len(cr'.held) + Len(buf')) % Blk = rpos' % Blk
  BY <1>1, <1>2
<1>5. rpos' \in 0..Len(input') /\ cr'.held \in Seq(Data) /\ buf' \in Seq(Data)
  BY <1>1, <1>2
<1>6. stage' \in {1, 2} /\ (stage' = 2 => job' = "dir")
  OBVIOUS
<1>7. EncStreamInv'
  BY <1>2, <1>3, <1>4, <1>5, <1>6 DEF EncStreamInv
<1>. QED  BY <1>1, <1>2, <1>7 DEF PanicInv, Encrypting, PanicOnlyOnUnaligned

LEMMA EncryptWithPrefixInv == PanicInv /\ EncryptWithPrefix => PanicInv'
<1>. SUFFICES ASSUME PanicInv, EncryptWithPrefix PROVE PanicInv'
  OBVIOUS
<1>1. PICK rr \in Randoms :
        Stream(plain[1], Cryptor(TRUE, job = "obj", rr[1], rr[2]))
  BY DEF EncryptWithPrefix
<1>2. /\ stage' \in {1, 2} /\ (stage' = 2 => job = "dir")
      /\ plain[1] = plain[stage'] /\ plain[1] \in Seq(Data)
      /\ UNCHANGED <<job, plain>>
  BY DEF EncryptWithPrefix, PanicInv
<1>. QED  BY <1>1, <1>2, StartEncrypting

LEMMA EncryptAppendInv == PanicInv /\ EncryptAppend => PanicInv'
<1>. SUFFICES ASSUME PanicInv, EncryptAppend PROVE PanicInv'
  OBVIOUS
<1>1. job = "dir" /\ (job = "obj") = FALSE
  BY DEF EncryptAppend
<1>2. Stream(plain[2], Cryptor(TRUE, job = "obj", key, dir_append_iv(ct)))
  BY <1>1 DEF EncryptAppend
<1>3. /\ stage' \in {1, 2} /\ (stage' = 2 => job = "dir")
      /\ plain[2] = plain[stage'] /\ plain[2] \in Seq(Data)
      /\ UNCHANGED <<job, plain>>
  BY <1>1 DEF EncryptAppend, PanicInv
<1>. QED  BY <1>2, <1>3, StartEncrypting

LEMMA DecryptWithPrefixInv == PanicInv /\ DecryptWithPrefix => PanicInv'
<1>. SUFFICES ASSUME PanicInv, DecryptWithPrefix PROVE PanicInv'
  OBVIOUS
<1>1. CASE Len(ct) < 2 * Blk
  BY <1>1 DEF DecryptWithPrefix, PanicInv, Encrypting, PanicOnlyOnUnaligned
<1>2. CASE ~(Len(ct) < 2 * Blk)
  <2>1. PICK c : c = cr' /\ CryptorShape(c) /\ ~c.enc /\ pc' = "fill"
    BY <1>2 DEF DecryptWithPrefix, Stream, Cryptor, CryptorShape
  <2>. QED  BY <2>1 DEF DecryptWithPrefix, PanicInv, Encrypting, PanicOnlyOnUnaligned
<1>. QED  BY <1>1, <1>2

LEMMA ReturnInv == PanicInv /\ Return => PanicInv'
  BY DEF Return, PanicInv, Encrypting, PanicOnlyOnUnaligned

LEMMA TamperInv == PanicInv /\ Tamper => PanicInv'
  BY DEF Tamper, PanicInv, Encrypting, PanicOnlyOnUnaligned

LEMMA StutterInv == PanicInv /\ UNCHANGED vars => PanicInv'
  BY DEF vars, PanicInv, Encrypting, EncStreamInv, CryptorShape, PanicOnlyOnUnaligned, Aligned

(* A read adds as many bytes to the buffer as to the count of bytes read. *)
LEMMA ReadSomeInv ==
  ASSUME PanicInv, NEW n \in 0..Buf, ReadSome(n)
  PROVE  PanicInv'
<1>1. /\ cr' = cr /\ pc = "fill" /\ pc' \in {"fill", "crypt"}
      /\ UNCHANGED <<job, plain, stage, input>>
  BY DEF ReadSome
<1>2. CASE ~cr.enc
  BY <1>1, <1>2 DEF PanicInv, Encrypting, PanicOnlyOnUnaligned, CryptorShape
<1>3. CASE cr.enc
  <2>1. EncStreamInv
    BY <1>1, <1>3 DEF PanicInv, Encrypting
  <2>2. input \in Seq(Data)
    BY <2>1 DEF PanicInv, EncStreamInv
  <2>3. rpos \in Nat /\ n \in Nat /\ rpos + n <= Len(input)
    BY <2>1 DEF ReadSome, EncStreamInv
  <2>4. SubSeq(input, rpos + 1, rpos + n) \in Seq(Data)
        /\ Len(SubSeq(input, rpos + 1, rpos + n)) = n
    BY <2>2, <2>3, ReadBytes
  <2>5. buf' \in Seq(Data) /\ Len(buf') = Len(buf) + n
    BY <2>1, <2>4, ConcatProperties DEF ReadSome, EncStreamInv
  <2>6. rpos' = rpos + n /\ rpos' \in 0..Len(input')
    BY <1>1, <2>3 DEF ReadSome
  <2>7. (Len(cr'.held) + Len(buf')) % Blk = rpos' % Blk
    <3>0. cr'.held = cr.held /\ cr.held \in Seq(Data) /\ buf \in Seq(Data)
      BY <1>1, <2>1 DEF EncStreamInv
    <3>1. PICK h \in Seq(Data) : h = cr.held /\ h = cr'.held
      BY <3>0
    <3>2. PICK m \in Nat : m = Len(h) + Len(buf)
      BY <3>0, <3>1
    <3>3. Len(h) + Len(buf') = m + n
      BY <2>5, <3>0, <3>2
    <3>4. m % Blk = rpos % Blk
      BY <2>1, <3>1, <3>2 DEF EncStreamInv
    <3>5. (m + n) % Blk = (rpos + n) % Blk
      BY <2>3, <3>4, BlkPositive, ModShift
    <3>. QED  BY <2>6, <3>1, <3>3, <3>5
  <2>8. eof' \in BOOLEAN /\ (pc' = "crypt" /\ eof' => rpos' = Len(input'))
    <3>1. eof' = (n = 0) /\ (n = 0 => rpos = Len(input))
      BY DEF ReadSome
    <3>2. eof' \in BOOLEAN /\ (eof' => n = 0)
      BY <3>1
    <3>3. n = 0 => rpos' = Len(input')
      BY <1>1, <2>6, <3>1
    <3>. QED  BY <3>2, <3>3
  <2>9. EncStreamInv'
    BY <1>1, <2>1, <2>5, <2>6, <2>7, <2>8 DEF EncStreamInv
  <2>. QED  BY <1>1, <2>9 DEF PanicInv, Encrypting, PanicOnlyOnUnaligned, CryptorShape
<1>. QED  BY <1>2, <1>3

(* One pass of the cryptor over the buffer.  A failing encrypting pass    *)
(* panics; it fails only at EOF on a directory whose bytes, all read by    *)
(* then, leave a partial block.  Otherwise the cryptor holds back the      *)
(* partial block and the buffer is emptied, which keeps the count.        *)
LEMMA CryptBufferInv ==
  ASSUME PanicInv, CryptBuffer
  PROVE  PanicInv'
<1>. DEFINE r == CryptPass(cr, buf, eof)
            all == cr.held \o buf
<1>1. /\ pc = "crypt" /\ buf' = <<>>
      /\ UNCHANGED <<job, plain, stage, input, rpos, eof>>
  BY DEF CryptBuffer
<1>2. CASE ~cr.enc
  <2>1. cr' = r.cr /\ pc' \in {"return", "fill"}
    BY <1>2 DEF CryptBuffer
  <2>2. CryptorShape(r.cr) /\ r.cr.enc = cr.enc
    BY PassShape DEF PanicInv
  <2>. QED  BY <1>1, <1>2, <2>1, <2>2 DEF PanicInv, Encrypting, PanicOnlyOnUnaligned
<1>3. CASE cr.enc
  <2>1. EncStreamInv /\ CryptorShape(cr) /\ cr.enc = TRUE
    BY <1>1, <1>3 DEF PanicInv, Encrypting
  <2>2. /\ r.fail <=> eof /\ ~cr.pad /\ Len(all) % Blk # 0
        /\ CryptorShape(r.cr) /\ r.cr.enc = cr.enc /\ r.cr.pad = cr.pad
        /\ ~eof => /\ r.cr.held \in Seq(Data)
                   /\ Len(r.cr.held) = Len(all) % Blk
    <3>1. cr.pad \in BOOLEAN /\ cr.held \in Seq(Data) /\ buf \in Seq(Data) /\ eof \in BOOLEAN
      BY <2>1 DEF EncStreamInv
    <3>. QED  BY <2>1, <3>1, EncPass
  <2>3. PICK m \in Nat : m = Len(all) /\ m % Blk = rpos % Blk
    <3>1. PICK h \in Seq(Data) : h = cr.held
      BY <2>1 DEF EncStreamInv
    <3>2. buf \in Seq(Data) /\ Len(all) = Len(h) + Len(buf)
      BY <2>1, <3>1, ConcatProperties DEF EncStreamInv
    <3>3. (Len(h) + Len(buf)) % Blk = rpos % Blk
      BY <2>1, <3>1 DEF EncStreamInv
    <3>. QED  BY <3>2, <3>3
  <2>4. CASE r.fail
    <3>1. pc' = "panic" /\ cr' = cr
      BY <1>3, <2>4 DEF CryptBuffer
    <3>2. eof /\ ~cr.pad /\ m % Blk # 0
      BY <2>2, <2>3, <2>4
    <3>3. job = "dir"
      BY <2>1, <3>2 DEF PanicInv, EncStreamInv
    <3>4. stage \in 1..2 /\ rpos = Len(plain[stage])
      BY <1>1, <2>1, <3>2 DEF EncStreamInv
    <3>5. ~Aligned(plain[stage])
      BY <2>3, <3>2, <3>4 DEF Aligned
    <3>6. PanicOnlyOnUnaligned'
      BY <1>1, <3>1, <3>3, <3>4, <3>5 DEF PanicOnlyOnUnaligned
    <3>. QED  BY <1>1, <3>1, <3>6 DEF PanicInv, Encrypting
  <2>5. CASE ~r.fail /\ eof
    <3>1. cr' = r.cr /\ pc' = "return"
      BY <1>3, <2>5 DEF CryptBuffer
    <3>. QED  BY <1>1, <2>2, <3>1 DEF PanicInv, Encrypting, PanicOnlyOnUnaligned
  <2>6. CASE ~r.fail /\ ~eof
    <3>1. cr' = r.cr /\ pc' = "fill"
      BY <1>3, <2>6 DEF CryptBuffer
    <3>2. PICK h \in Seq(Data) : h = cr'.held /\ Len(h) = m % Blk
      BY <2>2, <2>3, <2>6, <3>1
    <3>3. (Len(h) + Len(buf')) % Blk = rpos' % Blk
      BY <1>1, <2>3, <3>2, ModMod
    <3>4. EncStreamInv'
      <4>1. cr'.pad = (job' = "obj") /\ cr'.held \in Seq(Data) /\ buf' \in Seq(Data)
        BY <1>1, <2>1, <2>2, <3>1, <3>2 DEF EncStreamInv
      <4>2. (Len(cr'.held) + Len(buf')) % Blk = rpos' % Blk
        BY <3>2, <3>3
      <4>. QED  BY <1>1, <2>1, <3>1, <4>1, <4>2 DEF EncStreamInv
    <3>. QED  BY <1>1, <2>2, <3>1, <3>4 DEF PanicInv, Encrypting, PanicOnlyOnUnaligned
  <2>. QED  BY <2>4, <2>5, <2>6
<1>. QED  BY <1>2, <1>3

LEMMA NextPanicInv == PanicInv /\ [Next]_vars => PanicInv'
<1>. SUFFICES ASSUME PanicInv, [Next]_vars PROVE PanicInv'
  OBVIOUS
<1>1. CASE EncryptWithPrefix
  BY <1>1, EncryptWithPrefixInv
<1>2. CASE EncryptAppend
  BY <1>2, EncryptAppendInv
<1>3. CASE DecryptWithPrefix
  BY <1>3, DecryptWithPrefixInv
<1>4. CASE \E n \in 0..Buf : ReadSome(n)
  BY <1>4, ReadSomeInv
<1>5. CASE CryptBuffer
  BY <1>5, CryptBufferInv
<1>6. CASE Return
  BY <1>6, ReturnInv
<1>7. CASE Tamper
  BY <1>7, TamperInv
<1>8. CASE UNCHANGED vars
  BY <1>8, StutterInv
<1>. QED  BY <1>1, <1>2, <1>3, <1>4, <1>5, <1>6, <1>7, <1>8 DEF Next

(* crypt_stream's encryptors panic only on a directory part that is not a *)
(* positive multiple of BLKSZ (spec 4.2.3/4.2.4): whatever sizes the reads *)
(* return, for every block size and every buffer size (the proof does not *)
(* need the buffer to be a multiple of BLKSZ), encrypt_obj never panics    *)
(* and the directory encryptors panic only on unaligned input.             *)
THEOREM PanicOnlyOnUnalignedHolds == Spec => []PanicOnlyOnUnaligned
<1>1. Init => PanicInv
  BY InitPanicInv
<1>2. PanicInv /\ [Next]_vars => PanicInv'
  BY NextPanicInv
<1>3. PanicInv => PanicOnlyOnUnaligned
  BY DEF PanicInv
<1>. QED  BY <1>1, <1>2, <1>3, PTL DEF Spec

-----------------------------------------------------------------------------
(* The session prefix.  It is two blocks, so CBC over it unfolds twice   *)
(* and needs no induction: the chaining function of CbcEnc is read off    *)
(* the fixpoint its CHOOSE denotes.                                       *)

LEMMA ZeroByte == 0 \in Bytes
  BY CryptStreamAssumption DEF Bytes

LEMMA ZeroIsBlock == ZeroBlock \in Block
  BY ZeroByte DEF ZeroBlock, Block

(* The constants' contracts: XOR undoes itself, AES decryption undoes     *)
(* encryption, the master key and the random draws are blocks.            *)
LEMMA ByteXorInv ==
  \A a, b \in Bytes : ByteXor(a, b) \in Bytes /\ ByteXor(ByteXor(a, b), b) = a
  BY CryptStreamAssumption

LEMMA AesInv ==
  \A k, b \in Block : AesEnc(k, b) \in Block /\ AesDec(k, AesEnc(k, b)) = b
  BY CryptStreamAssumption

LEMMA KeysAreBlocks == DirKey \in Block /\ Randoms \subseteq Block \X Block
  BY CryptStreamAssumption

(* XOR with a block is an involution on blocks.                           *)
LEMMA XorBlockInv ==
  ASSUME NEW a \in Block, NEW b \in Block
  PROVE  XorBlock(a, b) \in Block /\ XorBlock(XorBlock(a, b), b) = a
<1>1. \A i \in 1..Blk : /\ ByteXor(a[i], b[i]) \in Bytes
                        /\ ByteXor(ByteXor(a[i], b[i]), b[i]) = a[i]
  BY ByteXorInv DEF Block
<1>. QED  BY <1>1 DEF XorBlock, Block

(* The positions of two consecutive blocks.                               *)
LEMMA TwoBlockIndex ==
  ASSUME NEW j \in 1..(2 * Blk)
  PROVE  /\ j <= Blk => (j - 1) \div Blk = 0 /\ (j - 1) % Blk = j - 1
         /\ j > Blk => (j - 1) \div Blk = 1 /\ (j - 1) % Blk = j - 1 - Blk
  BY BlkPositive, Z3

LEMMA ConcatBlocks ==
  ASSUME NEW a \in Block, NEW b \in Block
  PROVE  /\ a \o b \in Seq(Bytes)
         /\ Len(a \o b) = 2 * Blk
         /\ \A j \in 1..(2 * Blk) : (a \o b)[j] = IF j <= Blk THEN a[j] ELSE b[j - Blk]
<1>1. a \in Seq(Bytes) /\ b \in Seq(Bytes) /\ Len(a) = Blk /\ Len(b) = Blk
  BY BlkPositive DEF Block
<1>2. /\ a \o b \in Seq(Bytes)
      /\ Len(a \o b) = Len(a) + Len(b)
      /\ \A i \in 1..(Len(a) + Len(b)) : (a \o b)[i] = IF i <= Len(a) THEN a[i] ELSE b[i - Len(a)]
  BY <1>1, ConcatProperties
<1>. QED  BY <1>1, <1>2

LEMMA BlocksTwo ==
  ASSUME NEW a \in Block, NEW b \in Block
  PROVE  Blocks(a \o b) = <<a, b>>
<1>1. /\ Len(a \o b) = 2 * Blk
      /\ \A j \in 1..(2 * Blk) : (a \o b)[j] = IF j <= Blk THEN a[j] ELSE b[j - Blk]
  BY ConcatBlocks
<1>2. (2 * Blk) \div Blk = 2
  BY BlkPositive, Z3
<1>3. Blocks(a \o b) = [i \in 1..2 |-> [j \in 1..Blk |-> (a \o b)[(i - 1) * Blk + j]]]
  BY <1>1, <1>2 DEF Blocks
<1>4. [j \in 1..Blk |-> (a \o b)[(1 - 1) * Blk + j]] = a
  BY <1>1, BlkPositive DEF Block
<1>5. [j \in 1..Blk |-> (a \o b)[(2 - 1) * Blk + j]] = b
  BY <1>1, BlkPositive DEF Block
<1>6. DOMAIN Blocks(a \o b) = 1..2 /\ Blocks(a \o b)[1] = a /\ Blocks(a \o b)[2] = b
  BY <1>3, <1>4, <1>5, BlkPositive
<1>7. Blocks(a \o b) = [i \in DOMAIN Blocks(a \o b) |-> Blocks(a \o b)[i]]
  BY DEF Blocks
<1>. QED  BY <1>6, <1>7

LEMMA FlattenTwo ==
  ASSUME NEW a \in Block, NEW b \in Block
  PROVE  Flatten(<<a, b>>) = a \o b
<1>1. /\ a \o b \in Seq(Bytes)
      /\ Len(a \o b) = 2 * Blk
      /\ \A j \in 1..(2 * Blk) : (a \o b)[j] = IF j <= Blk THEN a[j] ELSE b[j - Blk]
  BY ConcatBlocks
<1>2. \A j \in 1..(2 * Blk) : <<a, b>>[(j - 1) \div Blk + 1][((j - 1) % Blk) + 1] = (a \o b)[j]
  <2> SUFFICES ASSUME NEW j \in 1..(2 * Blk)
               PROVE  <<a, b>>[(j - 1) \div Blk + 1][((j - 1) % Blk) + 1] = (a \o b)[j]
    OBVIOUS
  <2>1. CASE j <= Blk
    <3>1. (j - 1) \div Blk = 0 /\ (j - 1) % Blk = j - 1
      BY <2>1, TwoBlockIndex
    <3>2. (j - 1) \div Blk + 1 = 1 /\ ((j - 1) % Blk) + 1 = j
      BY <3>1, BlkPositive
    <3>3. <<a, b>>[(j - 1) \div Blk + 1][((j - 1) % Blk) + 1] = a[j]
      BY <3>2
    <3>. QED  BY <1>1, <2>1, <3>3, BlkPositive
  <2>2. CASE j > Blk
    <3>1. (j - 1) \div Blk = 1 /\ (j - 1) % Blk = j - 1 - Blk
      BY <2>2, TwoBlockIndex
    <3>2. (j - 1) \div Blk + 1 = 2 /\ ((j - 1) % Blk) + 1 = j - Blk
      BY <3>1, BlkPositive
    <3>3. <<a, b>>[(j - 1) \div Blk + 1][((j - 1) % Blk) + 1] = b[j - Blk]
      BY <3>2
    <3>. QED  BY <1>1, <2>2, <3>3, BlkPositive
  <2>3. j <= Blk \/ j > Blk
    BY BlkPositive
  <2>. QED  BY <2>1, <2>2, <2>3, Zenon
<1>3. DOMAIN (a \o b) = 1..(2 * Blk)
  BY <1>1, LenProperties
<1>4. Flatten(<<a, b>>)
        = [j \in 1..(2 * Blk) |-> <<a, b>>[(j - 1) \div Blk + 1][((j - 1) % Blk) + 1]]
  BY DEF Flatten
<1>5. a \o b = [j \in 1..(2 * Blk) |-> (a \o b)[j]]
  <2>1. a \o b \in [1..(2 * Blk) -> Bytes]
    BY <1>1, LenProperties
  <2>. QED  BY <2>1
<1>. QED  BY <1>2, <1>4, <1>5


(* CBC encryption of two blocks, by the CHOOSE fixpoint that the          *)
(* recursive function c of CbcEnc stands for: a witness shows there is   *)
(* one, and the two blocks are read off it in order.                      *)
LEMMA CbcEncTwo ==
  ASSUME NEW k, NEW iv, NEW a \in Block, NEW b \in Block
  PROVE  CbcEnc(k, iv, a \o b)
           = <<AesEnc(k, XorBlock(a, iv)), AesEnc(k, XorBlock(b, AesEnc(k, XorBlock(a, iv))))>>
<1>. DEFINE bs == Blocks(a \o b)
            F(g) == [i \in 0..Len(bs) |->
                       IF i = 0 THEN iv ELSE AesEnc(k, XorBlock(bs[i], g[i - 1]))]
            ch == CHOOSE g : g = F(g)
            e1 == AesEnc(k, XorBlock(a, iv))
            e2 == AesEnc(k, XorBlock(b, e1))
<1>1. bs = <<a, b>>
  BY BlocksTwo
<1>2. CbcEnc(k, iv, a \o b) = [i \in 1..Len(bs) |-> ch[i]]
  BY DEF CbcEnc
<1>3. \E g : g = F(g)
  <2>. DEFINE g0 == [i \in 0..2 |-> IF i = 0 THEN iv ELSE IF i = 1 THEN e1 ELSE e2]
  <2>1. g0 = F(g0)
    BY <1>1
  <2>. QED  BY <2>1
<1>4. ch = F(ch)
  BY <1>3
<1>. HIDE DEF ch
<1>5. ch[0] = iv
  BY <1>1, <1>4
<1>6. ch[1] = e1
  BY <1>1, <1>4, <1>5
<1>7. ch[2] = e2
  BY <1>1, <1>4, <1>6
<1>. QED  BY <1>1, <1>2, <1>6, <1>7

(* CBC decryption of two blocks.                                          *)
LEMMA CbcDecTwo ==
  ASSUME NEW k, NEW iv, NEW a \in Block, NEW b \in Block
  PROVE  CbcDec(k, iv, a \o b) = <<XorBlock(AesDec(k, a), iv), XorBlock(AesDec(k, b), a)>>
<1>1. Blocks(a \o b) = <<a, b>>
  BY BlocksTwo
<1>. QED  BY <1>1 DEF CbcDec

(* The session prefix is two blocks, and decrypting it under the          *)
(* directory half gives back the drawn key and IV (read_cbc_prefix and    *)
(* split_key_and_iv undo write_cbc_prefix).                               *)
LEMMA PrefixRoundTrip ==
  ASSUME NEW r \in Randoms
  PROVE  /\ DirPrefix(r) \in Seq(Bytes)
         /\ Len(DirPrefix(r)) = 2 * Blk
         /\ split_key_and_iv(Flatten(CbcDec(DirKey, ZeroBlock, DirPrefix(r)))) = r
<1>1. r[1] \in Block /\ r[2] \in Block /\ r = <<r[1], r[2]>> /\ DirKey \in Block
  BY KeysAreBlocks
<1>. DEFINE x1 == XorBlock(r[1], ZeroBlock)
            e1 == AesEnc(DirKey, x1)
            x2 == XorBlock(r[2], e1)
            e2 == AesEnc(DirKey, x2)
<1>2. x1 \in Block /\ XorBlock(x1, ZeroBlock) = r[1]
  BY <1>1, ZeroIsBlock, XorBlockInv
<1>3. e1 \in Block /\ AesDec(DirKey, e1) = x1
  BY <1>1, <1>2, AesInv
<1>4. x2 \in Block /\ XorBlock(x2, e1) = r[2]
  BY <1>1, <1>3, XorBlockInv
<1>5. e2 \in Block /\ AesDec(DirKey, e2) = x2
  BY <1>1, <1>4, AesInv
<1>6. DirPrefix(r) = e1 \o e2
  <2>1. CbcEnc(DirKey, ZeroBlock, r[1] \o r[2]) = <<e1, e2>>
    BY <1>1, CbcEncTwo
  <2>. QED  BY <1>3, <1>5, <2>1, FlattenTwo DEF DirPrefix
<1>7. DirPrefix(r) \in Seq(Bytes) /\ Len(DirPrefix(r)) = 2 * Blk
  BY <1>3, <1>5, <1>6, ConcatBlocks
<1>8. CbcDec(DirKey, ZeroBlock, DirPrefix(r)) = <<r[1], r[2]>>
  <2>1. CbcDec(DirKey, ZeroBlock, e1 \o e2)
          = <<XorBlock(AesDec(DirKey, e1), ZeroBlock), XorBlock(AesDec(DirKey, e2), e1)>>
    BY <1>3, <1>5, CbcDecTwo
  <2>. QED  BY <1>2, <1>3, <1>4, <1>5, <1>6, <2>1
<1>9. Flatten(<<r[1], r[2]>>) = r[1] \o r[2]
  BY <1>1, FlattenTwo
<1>10. Blocks(r[1] \o r[2]) = <<r[1], r[2]>>
  BY <1>1, BlocksTwo
<1>. QED  BY <1>1, <1>7, <1>8, <1>9, <1>10 DEF split_key_and_iv

(* Sequences of any values, and their prefixes.                           *)
LEMMA SeqIsSeq ==
  ASSUME NEW S, NEW s \in Seq(S)
  PROVE  IsSeq(s)
<1>1. \A i \in 1..Len(s) : s[i] \in {s[j] : j \in DOMAIN s}
  BY LenProperties
<1>2. s = [i \in 1..Len(s) |-> s[i]] /\ Len(s) \in Nat
  BY LenProperties
<1>. QED  BY <1>1, <1>2, IsASeq DEF IsSeq

LEMMA FunIsSeq ==
  ASSUME NEW m \in Nat, NEW f, f = [i \in 1..m |-> f[i]]
  PROVE  IsSeq(f)
<1>1. f \in Seq({f[j] : j \in DOMAIN f})
  BY IsASeq
<1>. QED  BY <1>1 DEF IsSeq

LEMMA IsSeqConcat ==
  ASSUME NEW s, NEW t, IsSeq(s), IsSeq(t)
  PROVE  /\ IsSeq(s \o t)
         /\ Len(s \o t) = Len(s) + Len(t)
         /\ \A i \in 1..Len(s) : (s \o t)[i] = s[i]
<1>. DEFINE S == {s[j] : j \in DOMAIN s} \cup {t[j] : j \in DOMAIN t}
<1>1. s \in Seq(S) /\ t \in Seq(S)
  BY DEF IsSeq
<1>2. /\ s \o t \in Seq(S)
      /\ Len(s \o t) = Len(s) + Len(t)
      /\ \A i \in 1..(Len(s) + Len(t)) : (s \o t)[i] = IF i <= Len(s) THEN s[i] ELSE t[i - Len(s)]
  BY <1>1, ConcatProperties
<1>3. Len(s) \in Nat /\ Len(t) \in Nat
  BY <1>1, LenProperties
<1>4. IsSeq(s \o t)
  BY <1>2, SeqIsSeq
<1>. QED  BY <1>2, <1>3, <1>4

LEMMA StartsConcat ==
  ASSUME NEW s, NEW t, NEW p, IsSeq(s), IsSeq(t), StartsWith(s, p)
  PROVE  IsSeq(s \o t) /\ StartsWith(s \o t, p)
<1>1. /\ IsSeq(s \o t)
      /\ Len(s \o t) = Len(s) + Len(t)
      /\ \A i \in 1..Len(s) : (s \o t)[i] = s[i]
  BY IsSeqConcat
<1>2. Len(s) \in Nat /\ Len(t) \in Nat
  BY LenProperties DEF IsSeq
<1>. QED  BY <1>1, <1>2 DEF StartsWith

(* What an encryptor writes is a sequence.                                *)
LEMMA EncedIsSeq ==
  ASSUME NEW k, NEW iv, NEW p, IsSeq(p)
  PROVE  IsSeq(Flatten(CbcEnc(k, iv, p)))
<1>1. Len(p) \in Nat
  BY LenProperties DEF IsSeq
<1>2. PICK nb \in Nat : nb = Len(p) \div Blk
  BY <1>1, BlkPositive
<1>. DEFINE bs == Blocks(p)
            ch == CHOOSE c : c = [i \in 0..Len(bs) |->
                    IF i = 0 THEN iv ELSE AesEnc(k, XorBlock(bs[i], c[i - 1]))]
<1>3. CbcEnc(k, iv, p) = [i \in 1..nb |-> CbcEnc(k, iv, p)[i]]
  <2>1. Len(bs) = nb
    BY <1>2 DEF Blocks
  <2>2. CbcEnc(k, iv, p) = [i \in 1..Len(bs) |-> ch[i]]
    BY DEF CbcEnc
  <2>. HIDE DEF ch, bs
  <2>. QED  BY <2>1, <2>2
<1>4. Len(CbcEnc(k, iv, p)) = nb
  BY <1>3
<1>5. PICK m \in Nat : m = nb * Blk
  BY BlkPositive
<1>6. Flatten(CbcEnc(k, iv, p)) = [j \in 1..m |-> Flatten(CbcEnc(k, iv, p))[j]]
  BY <1>4, <1>5 DEF Flatten
<1>. QED  BY <1>5, <1>6, FunIsSeq

(* The session prefix at the head of the stored ciphertext is what        *)
(* read_cbc_prefix reads.                                                 *)
LEMMA PrefixHead ==
  ASSUME NEW s, NEW r \in Randoms, StartsWith(s, DirPrefix(r))
  PROVE  Len(s) >= 2 * Blk /\ SubSeq(s, 1, 2 * Blk) = DirPrefix(r)
<1>1. DirPrefix(r) \in Seq(Bytes) /\ Len(DirPrefix(r)) = 2 * Blk
  BY PrefixRoundTrip
<1>2. DirPrefix(r) = [i \in 1..(2 * Blk) |-> DirPrefix(r)[i]]
  <2>1. DirPrefix(r) \in [1..(2 * Blk) -> Bytes]
    BY <1>1, LenProperties
  <2>. QED  BY <2>1
<1>3. \A i \in 1..(2 * Blk) : s[i] = DirPrefix(r)[i]
  BY <1>1 DEF StartsWith
<1>. QED  BY <1>1, <1>2, <1>3, BlkPositive DEF StartsWith

-----------------------------------------------------------------------------
(* KeyInv is inductive (given PanicInv, which brings the byte strings the *)
(* encryptor is fed): one lemma per action.                               *)

LEMMA EmptyIsSeq == IsSeq(<<>>)
<1>1. <<>> \in Seq({})
  BY EmptySeq
<1>. QED  BY <1>1, SeqIsSeq

LEMMA InitKeyInv == Init => KeyInv
  BY EmptyIsSeq DEF Init, KeyInv

LEMMA EncryptWithPrefixKey == KeyInv /\ EncryptWithPrefix => KeyInv'
<1>. SUFFICES ASSUME KeyInv, EncryptWithPrefix, job = "dir" PROVE KeyInv'
  BY DEF EncryptWithPrefix, KeyInv
<1>1. /\ stage = 1 /\ stage' = 1 /\ pc' = "fill"
      /\ UNCHANGED <<job, ct, key, tampered>>
  BY DEF EncryptWithPrefix, Stream
<1>2. PICK r \in Randoms : out' = DirPrefix(r) /\ cr' = Cryptor(TRUE, FALSE, r[1], r[2])
  BY DEF EncryptWithPrefix, Stream, DirPrefix
<1>3. IsSeq(out') /\ StartsWith(out', DirPrefix(r))
  <2>1. DirPrefix(r) \in Seq(Bytes) /\ Len(DirPrefix(r)) = 2 * Blk
    BY PrefixRoundTrip
  <2>2. IsSeq(DirPrefix(r))
    BY <2>1, SeqIsSeq
  <2>. QED  BY <1>2, <2>1, <2>2, BlkPositive DEF StartsWith
<1>4. ct' = <<>>
  BY <1>1 DEF KeyInv
<1>. QED  BY <1>1, <1>2, <1>3, <1>4, EmptyIsSeq DEF KeyInv, Cryptor

LEMMA EncryptAppendKey == KeyInv /\ EncryptAppend => KeyInv'
<1>. SUFFICES ASSUME KeyInv, EncryptAppend PROVE KeyInv'
  OBVIOUS
<1>1. /\ job = "dir" /\ stage = 2 /\ stage' = 2 /\ pc' = "fill" /\ out' = <<>>
      /\ cr'.enc = TRUE
      /\ UNCHANGED <<job, ct, key, tampered>>
  BY DEF EncryptAppend, Stream, Cryptor
<1>. QED  BY <1>1, EmptyIsSeq DEF KeyInv

(* The decrypting call reads the prefix the first call wrote and takes    *)
(* its key from it.                                                       *)
LEMMA DecryptWithPrefixKey == KeyInv /\ DecryptWithPrefix => KeyInv'
<1>. SUFFICES ASSUME KeyInv, DecryptWithPrefix, job = "dir" PROVE KeyInv'
  BY DEF DecryptWithPrefix, KeyInv
<1>1. /\ stage = 3 /\ pc = "call"
      /\ UNCHANGED <<job, plain, stage, ct, key, result, tampered>>
  BY DEF DecryptWithPrefix
<1>2. CASE Len(ct) < 2 * Blk
  <2>1. pc' = "failed" /\ UNCHANGED <<cr, out>>
    BY <1>1, <1>2 DEF DecryptWithPrefix
  <2>. QED  BY <1>1, <2>1 DEF KeyInv
<1>3. CASE ~(Len(ct) < 2 * Blk)
  <2>. DEFINE ki == split_key_and_iv(Flatten(CbcDec(DirKey, ZeroBlock, SubSeq(ct, 1, 2 * Blk))))
  <2>1. pc' = "fill" /\ cr' = Cryptor(FALSE, FALSE, ki[1], ki[2])
    BY <1>1, <1>3 DEF DecryptWithPrefix, Stream
  <2>2. ~tampered => cr'.key = key
    <3>1. SUFFICES ASSUME ~tampered PROVE cr'.key = key
      OBVIOUS
    <3>2. PICK r \in Randoms : key = r[1] /\ StartsWith(ct, DirPrefix(r))
      BY <1>1, <3>1 DEF KeyInv
    <3>3. SubSeq(ct, 1, 2 * Blk) = DirPrefix(r)
      BY <3>2, PrefixHead
    <3>4. ki = r
      BY <3>3, PrefixRoundTrip
    <3>. QED  BY <2>1, <3>2, <3>4 DEF Cryptor
  <2>3. stage' = 3 /\ pc' = "fill" /\ ~(stage' \in {1, 2}) /\ pc' # "done"
    BY <1>1, <2>1
  <2>4. ~tampered' => cr'.key = key'
    BY <1>1, <2>2
  <2>5. /\ IsSeq(ct) = IsSeq(ct')
        /\ \A r \in Randoms : StartsWith(ct, DirPrefix(r)) = StartsWith(ct', DirPrefix(r))
    BY <1>1
  <2>. QED  BY <1>1, <2>3, <2>4, <2>5 DEF KeyInv
<1>. QED  BY <1>2, <1>3

LEMMA ReadSomeKey ==
  ASSUME KeyInv, NEW n \in 0..Buf, ReadSome(n)
  PROVE  KeyInv'
<1>1. /\ pc = "fill" /\ pc' \in {"fill", "crypt"}
      /\ UNCHANGED <<job, stage, cr, out, ct, key, result, tampered>>
  BY DEF ReadSome
<1>. QED  BY <1>1 DEF KeyInv

LEMMA TamperKey == KeyInv /\ Tamper => KeyInv'
<1>. SUFFICES ASSUME KeyInv, Tamper, job = "dir" PROVE KeyInv'
  BY DEF Tamper, KeyInv
<1>1. /\ stage = 3 /\ pc = "call" /\ tampered' = TRUE
      /\ UNCHANGED <<job, stage, pc, cr, out, key, result>>
  BY DEF Tamper
<1>. QED  BY <1>1 DEF KeyInv

LEMMA StutterKey == KeyInv /\ UNCHANGED vars => KeyInv'
  BY DEF KeyInv, vars

(* PKCS padding adds a count of bytes.                                     *)
LEMMA PadCount ==
  ASSUME NEW m \in Nat
  PROVE  Blk - (m % Blk) \in Nat
<1>1. (m % Blk) \in 0..(Blk - 1)
  BY RemBlk
<1>. QED  BY <1>1, BlkPositive

(* What an encrypting pass writes is a byte string's CBC image: a        *)
(* sequence.                                                              *)
LEMMA EncOutIsSeq ==
  ASSUME NEW c, NEW data \in Seq(Data), NEW e \in BOOLEAN,
         c.enc = TRUE, c.pad \in BOOLEAN, c.held \in Seq(Data)
  PROVE  IsSeq(CryptPass(c, data, e).out)
<1>. DEFINE all == c.held \o data
            whole == Len(all) - (Len(all) % Blk)
            cut == IF e THEN Len(all) ELSE whole
            now == IF e /\ c.pad THEN Pad(all) ELSE SubSeq(all, 1, cut)
<1>1. CryptPass(c, data, e).out = Flatten(CbcEnc(c.key, c.chain, now))
  BY DEF CryptPass
<1>2. all \in Seq(Data) /\ Len(all) \in Nat
  BY LenProperties
<1>3. (Len(all) % Blk) \in 0..Len(all) /\ (Len(all) % Blk) \in 0..(Blk - 1)
  BY <1>2, RemBlk
<1>4. IsSeq(now)
  <2>1. CASE e /\ c.pad
    <3>. DEFINE n == Blk - (Len(all) % Blk)
    <3>1. n \in Nat
      BY <1>2, PadCount
    <3>2. IsSeq(all) /\ IsSeq([i \in 1..n |-> n])
      BY <1>2, <3>1, SeqIsSeq, FunIsSeq
    <3>3. now = all \o [i \in 1..n |-> n]
      BY <2>1 DEF Pad
    <3>. QED  BY <3>2, <3>3, IsSeqConcat
  <2>2. CASE ~(e /\ c.pad)
    <3>1. cut \in 0..Len(all)
      BY <1>2, <1>3
    <3>2. \A i \in 1..cut : all[i] \in Data
      BY <1>2, <3>1
    <3>3. SubSeq(all, 1, cut) \in Seq(Data)
      BY <3>1, <3>2, SubSeqProperties
    <3>. QED  BY <2>2, <3>3, SeqIsSeq
  <2>. QED  BY <2>1, <2>2
<1>. QED  BY <1>1, <1>4, EncedIsSeq

(* A pass keeps the key; an encrypting pass extends the output, a failing *)
(* one panics.                                                            *)
LEMMA CryptBufferKey ==
  ASSUME PanicInv, KeyInv, CryptBuffer
  PROVE  KeyInv'
<1>. SUFFICES ASSUME job = "dir" PROVE KeyInv'
  BY DEF CryptBuffer, KeyInv
<1>. DEFINE r == CryptPass(cr, buf, eof)
<1>1. /\ pc = "crypt"
      /\ UNCHANGED <<job, stage, ct, key, result, tampered>>
      /\ pc' \in {"panic", "return", "fill"}
      /\ \/ UNCHANGED <<out, cr>>
         \/ cr' = r.cr /\ pc' \in {"return", "fill"}
  BY DEF CryptBuffer
<1>2. cr'.key = cr.key /\ cr'.enc = cr.enc
  <2>1. r.cr.key = cr.key /\ r.cr.enc = cr.enc
    BY PassShape DEF PanicInv
  <2>. QED  BY <1>1, <2>1
<1>3. CASE stage \in {1, 2}
  <2>1. cr.enc = TRUE
    BY <1>1, <1>3 DEF KeyInv
  <2>2. EncStreamInv /\ CryptorShape(cr)
    BY <1>1, <2>1 DEF PanicInv, Encrypting
  <2>3. IsSeq(r.out)
    <3>1. cr.pad \in BOOLEAN /\ cr.held \in Seq(Data) /\ buf \in Seq(Data) /\ eof \in BOOLEAN
      BY <2>2 DEF EncStreamInv
    <3>. QED  BY <2>1, <3>1, EncOutIsSeq
  <2>4. UNCHANGED out \/ out' = out \o r.out
    BY <2>1 DEF CryptBuffer
  <2>5. IsSeq(out')
    <3>1. IsSeq(out)
      BY <1>3 DEF KeyInv
    <3>. QED  BY <2>3, <2>4, <3>1, IsSeqConcat
  <2>6. stage = 1 => \E q \in Randoms : cr'.key = q[1] /\ StartsWith(out', DirPrefix(q))
    <3>1. SUFFICES ASSUME stage = 1 PROVE \E q \in Randoms : cr'.key = q[1] /\ StartsWith(out', DirPrefix(q))
      OBVIOUS
    <3>2. PICK q \in Randoms : cr.key = q[1] /\ StartsWith(out, DirPrefix(q))
      BY <1>1, <3>1 DEF KeyInv
    <3>3. IsSeq(out)
      BY <1>3 DEF KeyInv
    <3>4. StartsWith(out', DirPrefix(q))
      BY <2>3, <2>4, <3>2, <3>3, StartsConcat
    <3>. QED  BY <1>2, <3>2, <3>4
  <2>. QED  BY <1>1, <1>2, <1>3, <2>5, <2>6 DEF KeyInv
<1>4. CASE stage = 3
  <2>1. ~tampered => cr'.key = key
    BY <1>1, <1>2, <1>4 DEF KeyInv
  <2>. QED  BY <1>1, <1>4, <2>1 DEF KeyInv
<1>. QED  BY <1>3, <1>4 DEF KeyInv

(* encrypt_whole_dir returns its cryptor's key and its output starts the  *)
(* ciphertext; encrypt_append_dir extends it; decrypt_whole_dir returns    *)
(* its cryptor's key.                                                     *)
LEMMA ReturnKey == KeyInv /\ Return => KeyInv'
<1>. SUFFICES ASSUME KeyInv, Return, job = "dir" PROVE KeyInv'
  BY DEF Return, KeyInv
<1>1. /\ pc = "return"
      /\ UNCHANGED <<job, cr, out, tampered>>
      /\ stage \in 1..3
  BY DEF Return, KeyInv
<1>2. CASE stage = 1
  <2>1. /\ ct' = ct \o out /\ key' = cr.key /\ stage' = 2 /\ pc' = "call"
        /\ ct = <<>>
    BY <1>2 DEF Return, KeyInv
  <2>2. PICK q \in Randoms : cr.key = q[1] /\ StartsWith(out, DirPrefix(q))
    BY <1>1, <1>2 DEF KeyInv
  <2>3. IsSeq(out)
    BY <1>2 DEF KeyInv
  <2>4. ct' = out
    <3>1. out \in Seq({out[i] : i \in DOMAIN out})
      BY <2>3 DEF IsSeq
    <3>. QED  BY <2>1, <3>1, ConcatEmptySeq
  <2>. QED  BY <1>1, <2>1, <2>2, <2>3, <2>4 DEF KeyInv
<1>3. CASE stage = 2
  <2>1. /\ ct' = ct \o out /\ key' = key /\ stage' = 3 /\ pc' = "call"
    BY <1>3 DEF Return
  <2>2. PICK q \in Randoms : key = q[1] /\ (~tampered => StartsWith(ct, DirPrefix(q)))
    BY <1>3 DEF KeyInv
  <2>3. ~tampered => IsSeq(ct') /\ StartsWith(ct', DirPrefix(q))
    <3>1. SUFFICES ASSUME ~tampered PROVE IsSeq(ct') /\ StartsWith(ct', DirPrefix(q))
      OBVIOUS
    <3>2. IsSeq(ct) /\ IsSeq(out) /\ StartsWith(ct, DirPrefix(q))
      BY <1>3, <2>2, <3>1 DEF KeyInv
    <3>. QED  BY <2>1, <3>2, StartsConcat
  <2>. QED  BY <1>1, <2>1, <2>2, <2>3 DEF KeyInv
<1>4. CASE stage = 3
  <2>1. /\ ct' = ct /\ key' = key /\ stage' = 3 /\ pc' = "done"
        /\ result' = [text |-> out, key |-> cr.key]
    BY <1>4 DEF Return
  <2>2. ~tampered => cr.key = key
    BY <1>1, <1>4 DEF KeyInv
  <2>. QED  BY <1>1, <1>4, <2>1, <2>2 DEF KeyInv
<1>. QED  BY <1>1, <1>2, <1>3, <1>4

LEMMA NextKeyInv == PanicInv /\ KeyInv /\ [Next]_vars => KeyInv'
<1>. SUFFICES ASSUME PanicInv, KeyInv, [Next]_vars PROVE KeyInv'
  OBVIOUS
<1>1. CASE EncryptWithPrefix
  BY <1>1, EncryptWithPrefixKey
<1>2. CASE EncryptAppend
  BY <1>2, EncryptAppendKey
<1>3. CASE DecryptWithPrefix
  BY <1>3, DecryptWithPrefixKey
<1>4. CASE \E n \in 0..Buf : ReadSome(n)
  BY <1>4, ReadSomeKey
<1>5. CASE CryptBuffer
  BY <1>5, CryptBufferKey
<1>6. CASE Return
  BY <1>6, ReturnKey
<1>7. CASE Tamper
  BY <1>7, TamperKey
<1>8. CASE UNCHANGED vars
  BY <1>8, StutterKey
<1>. QED  BY <1>1, <1>2, <1>3, <1>4, <1>5, <1>6, <1>7, <1>8 DEF Next

(* decrypt_whole_dir returns the session key encrypt_whole_dir returned   *)
(* (spec 4.2.3 (iii), the test crypt_dir_oneshot), also after             *)
(* encrypt_append_dir: for every block size, key, AES and XOR meeting     *)
(* their contracts, the prefix written under the directory half is read  *)
(* back, decrypted and split into the same key, whatever sizes the reads *)
(* return.                                                                *)
THEOREM SessionKeyReturnedHolds == Spec => []SessionKeyReturned
<1>1. Init => PanicInv /\ KeyInv
  BY InitPanicInv, InitKeyInv
<1>2. PanicInv /\ KeyInv /\ [Next]_vars => (PanicInv /\ KeyInv)'
  BY NextPanicInv, NextKeyInv
<1>3. KeyInv => SessionKeyReturned
  BY DEF KeyInv, SessionKeyReturned
<1>. QED  BY <1>1, <1>2, <1>3, PTL DEF Spec

=============================================================================
