---------------------------- MODULE MCBlockXfer ----------------------------
(* An instance of BlockXfer for TLC: two byte values, blocks of 2 bytes    *)
(* and inputs of up to 3 bytes, so that inputs with no block, one full     *)
(* block, a full and a partial block, and a partial block alone all occur. *)
EXTENDS BlockXfer

CONSTANTS bz, b1

MCBytes == {bz, b1}
=============================================================================
