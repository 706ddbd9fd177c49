------------------------------- MODULE DirVer -------------------------------
(***************************************************************************)
(* Directory version numbers (src/server/crypt.rs, encrypt_dir_ver and     *)
(* decrypt_dir_ver): a version is written little-endian into the first     *)
(* half of the first cipher block of a 2-block cleartext, the rest zero,   *)
(* and encrypted by AES-128-CBC without padding under the directory half   *)
(* of the master key, with an IV folded from the directory id.  The reader *)
(* decrypts and returns 0 unless the padding bytes are all zero.           *)
(*                                                                         *)
(* Widths are parameters: BLKSZ (16 bytes) is Blk, the 8 bytes of the      *)
(* version and of the IV fold are Half = Blk \div 2, a byte has ByteBits   *)
(* bits.  AES under the (single) directory key is the constant permutation *)
(* AesEnc of cipher blocks, with inverse AesDec.  The 32 bytes fit in one  *)
(* pass of crypt_stream's 4096-byte buffer, so a call is one CBC pass.     *)
(*                                                                         *)
(* The state is the directory a client keeps a version for, the version it *)
(* last wrote, and the ciphertext the server hands back for it, which the  *)
(* server may replace by any 32 bytes.                                     *)
(***************************************************************************)
EXTENDS Naturals, Bitwise, Functions

CONSTANTS
  ByteBits,     \* bits of a byte (8)
  Blk,          \* BLKSZ, bytes of a cipher block (16)
  Dirs,         \* the directory ids a client writes versions for
  AesEnc(_),    \* AES-128 encryption of one block under master.dir_key()
  AesDec(_)     \* its inverse

ByteMax == 2^ByteBits
Bytes == 0..(ByteMax - 1)
Half == Blk \div 2
Block == [1..Blk -> Bytes]
HashId == [1..(2 * Blk) -> Bytes]
(* A u64 scaled to Half bytes.                                             *)
Versions == 0..(ByteMax^Half - 1)

ASSUME DirVerAssumption ==
  /\ ByteBits \in Nat \ {0}
  /\ Blk \in Nat \ {0} /\ Blk % 2 = 0
  /\ Dirs \subseteq HashId
  /\ \A b \in Block : AesEnc(b) \in Block /\ AesDec(AesEnc(b)) = b

XorBlock(a, b) == [i \in 1..Blk |-> a[i] ^^ b[i]]

(* The i-th block of a two-block string.                                   *)
BlockOf(s, i) == [j \in 1..Blk |-> s[(i - 1) * Blk + j]]

Join(b1, b2) == [j \in 1..(2 * Blk) |-> IF j <= Blk THEN b1[j] ELSE b2[j - Blk]]

(* aes::cbc_encryptor/cbc_decryptor with NoPadding on two blocks.          *)
CbcEncrypt(iv, p) ==
  LET c1 == AesEnc(XorBlock(BlockOf(p, 1), iv))
  IN Join(c1, AesEnc(XorBlock(BlockOf(p, 2), c1)))

CbcDecrypt(iv, c) ==
  Join(XorBlock(AesDec(BlockOf(c, 1)), iv),
       XorBlock(AesDec(BlockOf(c, 2)), BlockOf(c, 1)))

(* dir_ver_iv: the first 8 bytes of the IV are dir[ix] ^ dir[ix + 16].     *)
dir_ver_iv(dir) ==
  [ix \in 1..Blk |-> IF ix <= Half THEN dir[ix] ^^ dir[ix + Blk] ELSE 0]

(* encrypt_dir_ver's loop: cleartext[ix] = ver & 0xFF; ver >>= 8.          *)
EncodeVer(ver) ==
  [ix \in 1..(2 * Blk) |->
     IF ix <= Half THEN shiftR(ver, ByteBits * (ix - 1)) & (ByteMax - 1)
     ELSE 0]

(* Mutant: the version read back big-endian.                               *)
DecodeVerBigEndian(clear) ==
  FoldFunctionOnSet(LAMBDA x, y : x | y, 0,
    [ix \in 1..Half |-> clear[ix] * 2^(ByteBits * (Half - ix))], 1..Half)

(* decrypt_dir_ver's loop: ver |= (cleartext[ix] as u64) << (ix * 8).      *)
DecodeVer(clear) ==
  FoldFunctionOnSet(LAMBDA x, y : x | y, 0,
    [ix \in 1..Half |-> clear[ix] * 2^(ByteBits * (ix - 1))], 1..Half)

encrypt_dir_ver(dir, ver) == CbcEncrypt(dir_ver_iv(dir), EncodeVer(ver))

(* Mutant: the padding check starting at the second block (cleartext[16..]). *)
PaddingOkSecondBlock(clear) == \A ix \in (Blk + 1)..(2 * Blk) : clear[ix] = 0

(* The loop over cleartext[8..]: every padding byte is zero.               *)
PaddingOk(clear) == \A ix \in (Half + 1)..(2 * Blk) : clear[ix] = 0

decrypt_dir_ver(dir, ciphertext) ==
  LET clear == CbcDecrypt(dir_ver_iv(dir), ciphertext)
  IN IF PaddingOk(clear) THEN DecodeVer(clear) ELSE 0

-----------------------------------------------------------------------------
VARIABLES
  dir,          \* the directory
  ver,          \* the version the client last encrypted for it
  stored,       \* the ciphertext the server holds for it
  tampered      \* the server replaced the ciphertext

vars == <<dir, ver, stored, tampered>>

Init ==
  /\ dir \in Dirs
  /\ ver \in Versions
  /\ stored = encrypt_dir_ver(dir, ver)
  /\ tampered = FALSE

(* The client records a new version of the directory.                      *)
WriteVer(v) ==
  /\ ver' = v
  /\ stored' = encrypt_dir_ver(dir, v)
  /\ tampered' = FALSE
  /\ UNCHANGED dir

(* The server hands back other bytes: garbage, or the ciphertext of any    *)
(* directory's version.                                                    *)
Substitute(c) ==
  /\ c # stored
  /\ stored' = c
  /\ tampered' = TRUE
  /\ UNCHANGED <<dir, ver>>

Next ==
  \/ \E v \in Versions : WriteVer(v)
  \/ \E c \in HashId : Substitute(c)

Spec == Init /\ [][Next]_vars

-----------------------------------------------------------------------------
(* Spec 8.5: an untouched ciphertext reads back as the version written,   *)
(* for every version up to the full width (little-endian bytes, shifts).   *)
VerRoundTrip == ~tampered => decrypt_dir_ver(dir, stored) = ver

(* Spec 8.6: whatever the server substitutes, decrypt_dir_ver returns 0    *)
(* unless the bytes are exactly the encryption, for this directory, of the *)
(* version it returns: no other ciphertext passes the padding check.       *)
TamperReadsZero ==
  LET v == decrypt_dir_ver(dir, stored)
  IN v # 0 => stored = encrypt_dir_ver(dir, v)

(* Spec 4.2.5: the per-directory IV prevents cross-directory replay: when  *)
(* the server hands back the version ciphertext of another directory, it   *)
(* reads as 0 here.                                                        *)
NoCrossDirReplay ==
  \A a \in Dirs \ {dir}, v \in Versions :
    tampered /\ stored = encrypt_dir_ver(a, v) => decrypt_dir_ver(dir, stored) = 0
=============================================================================
