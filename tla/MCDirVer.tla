------------------------------ MODULE MCDirVer ------------------------------
(* Four-byte blocks of one-bit bytes: a 2-byte version (0..3), 8-byte      *)
(* ciphertexts (256 of them, all of which the server may hand back).  The  *)
(* block cipher is an affine permutation of the 16 blocks.  Three          *)
(* directories: the all-zero id of the code's tamper test, one whose IV    *)
(* fold differs, and one that differs from the first only in bytes the     *)
(* fold ignores.                                                           *)
EXTENDS DirVer

BlockNum(b) == FoldFunctionOnSet(+, 0, [i \in 1..Blk |-> b[i] * 2^(i - 1)], 1..Blk)

NumBlock(n) == [i \in 1..Blk |-> (n \div 2^(i - 1)) % 2]

MCAesEnc(b) == NumBlock((5 * BlockNum(b) + 3) % 16)

(* 13 is the inverse of 5 modulo 16.                                       *)
MCAesDec(b) == NumBlock((13 * (BlockNum(b) + 13)) % 16)

MCDirs ==
  { <<0, 0, 0, 0, 0, 0, 0, 0>>,
    <<1, 0, 0, 0, 0, 0, 0, 0>>,
    <<0, 0, 1, 0, 0, 0, 1, 0>> }
=============================================================================
