--------------------------- MODULE MCCryptStream ---------------------------
(* Two-byte blocks of 2-bit bytes, a two-block buffer; plaintext bytes 0   *)
(* and 1 (1 is also a padding byte) and up to 5 bytes, so that an object   *)
(* may be empty, end in a partial block, fill the buffer exactly or run    *)
(* past it, and a directory part may be one or two blocks.  The block      *)
(* cipher is a keyed affine permutation of the 16 blocks; two (key, iv)    *)
(* draws.  The byte XOR is Bitwise's ^^.                                 *)
EXTENDS CryptStream, Bitwise

MCByteXor(a, b) == a ^^ b

BlockNum(b) == b[1] + 4 * b[2]

NumBlock(n) == <<n % 4, n \div 4>>

MCAesEnc(k, b) == NumBlock((5 * BlockNum(b) + BlockNum(k)) % 16)

(* 13 is the inverse of 5 modulo 16.                                       *)
MCAesDec(k, b) == NumBlock((13 * (BlockNum(b) + 16 - BlockNum(k))) % 16)

MCObjKey == <<1, 2>>
MCDirKey == <<3, 0>>
MCRandoms == { <<<<2, 1>>, <<0, 3>>>>, <<<<1, 1>>, <<2, 0>>>> }
=============================================================================
