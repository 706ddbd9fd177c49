-------------------------- MODULE BlockXferProofs --------------------------
(***************************************************************************)
(* Proofs that the BlockList stream_to_blocks returns cuts its whole      *)
(* input into consecutive pieces of 1..block_size bytes (BlockListFaithful)*)
(* and that blocks_to_stream, when it returns Ok, has written exactly that *)
(* input whatever the attacker did (JoinAuthentic), for every block size,  *)
(* input length and byte set.                                              *)
(***************************************************************************)
EXTENDS BlockXfer, SequenceTheorems, TLAPS

(* The inductive invariant of the splitter's loop: the first `off` bytes   *)
(* of block_data are the last `off` bytes read; the emitted blocks cut the *)
(* bytes read before them; size counts those bytes; the fill loop only     *)
(* ends on a full buffer or at EOF, and the call returns only at EOF with  *)
(* an empty last pass.                                                     *)
SplitInv ==
  /\ src \in Seq(Bytes)
  /\ pos \in 0..Len(src)
  /\ off \in 0..BlockSize
  /\ off <= pos
  /\ buf \in [1..BlockSize -> Bytes]
  /\ blocks \in Seq([covers : Seq(Bytes)])
  /\ pc \in {"fill", "emit", "done", "failed"}
  /\ \A i \in 1..off : buf[i] = src[pos - off + i]
  /\ size = pos - off
  /\ Splits(blocks, src, pos - off)
  /\ pc = "emit" => off = BlockSize \/ pos = Len(src)
  /\ pc = "done" => off = 0 /\ pos = Len(src)

USE BlockXferAssumption

LEMMA SeqsOfType ==
  ASSUME NEW lo \in Nat, NEW hi \in Nat
  PROVE  SeqsOf(lo, hi) \subseteq Seq(Bytes)
BY DEF SeqsOf

(* The id of a block emitted from block_data[0..off].                      *)
LEMMA PrefixIsPiece ==
  ASSUME NEW s \in Seq(Bytes), NEW b \in [1..BlockSize -> Bytes],
         NEW p \in 0..Len(s), NEW k \in 1..BlockSize, k <= p,
         \A i \in 1..k : b[i] = s[p - k + i]
  PROVE  Prefix(b, k) = SubSeq(s, p - k + 1, p)
BY DEF Prefix

(* Appending the block over bytes m+1..p to ids that cut the first m bytes *)
(* gives ids that cut the first p bytes.                                   *)
LEMMA SplitsAppend ==
  ASSUME NEW s \in Seq(Bytes), NEW ids \in Seq([covers : Seq(Bytes)]),
         NEW m \in Nat, NEW p \in Nat, m < p, p <= m + BlockSize, p <= Len(s),
         Splits(ids, s, m)
  PROVE  Splits(Append(ids, [covers |-> SubSeq(s, m + 1, p)]), s, p)
<1> DEFINE h == [covers |-> SubSeq(s, m + 1, p)]
           L == Len(ids)
<1>1. PICK cut \in [0..L -> 0..m] :
        /\ cut[0] = 0
        /\ cut[L] = m
        /\ \A i \in 1..L :
             /\ cut[i - 1] < cut[i]
             /\ cut[i] <= cut[i - 1] + BlockSize
             /\ ids[i].covers = SubSeq(s, cut[i - 1] + 1, cut[i])
  BY DEF Splits
<1> DEFINE c2 == [j \in 0..L + 1 |-> IF j <= L THEN cut[j] ELSE p]
<1>0. L \in Nat
  OBVIOUS
<1>2. Len(Append(ids, h)) = L + 1
  OBVIOUS
<1>3. c2 \in [0..Len(Append(ids, h)) -> 0..p]
  BY <1>1, <1>2
<1>4. c2[0] = 0 /\ c2[Len(Append(ids, h))] = p
  BY <1>1, <1>2
<1>5. ASSUME NEW i \in 1..Len(Append(ids, h))
      PROVE  /\ c2[i - 1] < c2[i]
             /\ c2[i] <= c2[i - 1] + BlockSize
             /\ Append(ids, h)[i].covers = SubSeq(s, c2[i - 1] + 1, c2[i])
  <2>0. i \in 1..L \/ i = L + 1
    BY <1>0, <1>2
  <2>1. CASE i \in 1..L
    BY <1>1, <1>2, <2>1
  <2>2. CASE i = L + 1
    BY <1>1, <1>2, <2>2
  <2>3. QED  BY <2>0, <2>1, <2>2
<1>6. QED
  BY <1>3, <1>4, <1>5 DEF Splits

-----------------------------------------------------------------------------
(* A cut witnessing Splits(ids, s, n), fixed once: the joiner's progress   *)
(* is measured along it.                                                   *)
IsCut(cut, ids, s, n) ==
  /\ cut[0] = 0
  /\ cut[Len(ids)] = n
  /\ \A i \in 1..Len(ids) :
       /\ cut[i - 1] < cut[i]
       /\ cut[i] <= cut[i - 1] + BlockSize
       /\ ids[i].covers = SubSeq(s, cut[i - 1] + 1, cut[i])

CutOf(ids, s, n) == CHOOSE cut \in [0..Len(ids) -> 0..n] : IsCut(cut, ids, s, n)

Cut == CutOf(blocks, src, Len(src))

(* The inductive invariant behind JoinAuthentic: the joiner runs on the    *)
(* returned list, of which the attacker can only have changed the ids, not *)
(* the total; once the total checks, the ids are the splitter's own; and   *)
(* the output is the input up to the end of the last block fetched.        *)
JoinInv ==
  /\ SplitInv
  /\ jpc # "idle" =>
       /\ pc = "done"
       /\ list = [total |-> Total(blocks), blocks |-> list.blocks, size |-> list.size]
  /\ jpc \in {"idle", "check"} => ji = 1 /\ out = <<>>
  /\ jpc \in {"blocks", "ok"} => list.blocks = blocks
  /\ jpc = "blocks" =>
       /\ ji \in 1..Len(blocks) + 1
       /\ out = SubSeq(src, 1, Cut[ji - 1])
  /\ jpc = "ok" => out = src

(* The chosen cut is a cut.                                                *)
LEMMA CutOfIsCut ==
  ASSUME NEW ids, NEW s, NEW n, Splits(ids, s, n)
  PROVE  /\ CutOf(ids, s, n) \in [0..Len(ids) -> 0..n]
         /\ IsCut(CutOf(ids, s, n), ids, s, n)
BY DEF Splits, CutOf, IsCut

-----------------------------------------------------------------------------
LEMMA InitSplitInv == Init => SplitInv
<1> SUFFICES ASSUME Init PROVE SplitInv
  OBVIOUS
<1>1. src \in Seq(Bytes)
  BY SeqsOfType DEF Init
<1>2. Splits(<<>>, src, 0)
  <2> DEFINE c == [j \in 0..0 |-> 0]
  <2>1. c \in [0..Len(<<>>) -> 0..0] /\ c[0] = 0 /\ c[Len(<<>>)] = 0
    OBVIOUS
  <2>2. \A i \in 1..Len(<<>>) : FALSE
    OBVIOUS
  <2>3. QED  BY <2>1, <2>2, Zenon DEF Splits
<1>3. QED
  BY <1>1, <1>2 DEF Init, SplitInv

(* The splitter's steps; every other step leaves its variables alone.      *)
LEMMA NextSplitInv == SplitInv /\ [Next]_vars => SplitInv'
<1> SUFFICES ASSUME SplitInv, [Next]_vars PROVE SplitInv'
  OBVIOUS
<1> USE DEF SplitInv
<1>1. ASSUME NEW n \in 1..BlockSize, ReadSome(n) PROVE SplitInv'
  <2>1. /\ off' = off + n /\ pos' = pos + n /\ pos' - off' = pos - off
        /\ off' \in 0..BlockSize /\ pos' \in 0..Len(src) /\ off' <= pos'
    BY <1>1 DEF ReadSome
  <2>2. buf' \in [1..BlockSize -> Bytes]
    BY <1>1, <2>1 DEF ReadSome
  <2>3. \A i \in 1..off' : buf'[i] = src'[pos' - off' + i]
    BY <1>1, <2>1 DEF ReadSome
  <2>4. QED
    BY <1>1, <2>1, <2>2, <2>3 DEF ReadSome
<1>2. CASE EndFill
  BY <1>2 DEF EndFill
<1>3. CASE ReadError
  BY <1>3 DEF ReadError
<1>4. CASE EmitBlock
  <2>1. off \in 1..BlockSize /\ pc = "emit"
    BY <1>4 DEF EmitBlock
  <2>2. Prefix(buf, off) = SubSeq(src, pos - off + 1, pos)
    BY <2>1, PrefixIsPiece
  <2>3. blocks' = Append(blocks, [covers |-> SubSeq(src, (pos - off) + 1, pos)])
    BY <1>4, <2>2 DEF EmitBlock, Hmac
  <2>4. Splits(blocks', src, pos)
    <3>1. /\ pos - off \in Nat /\ pos \in Nat /\ pos - off < pos
          /\ pos <= (pos - off) + BlockSize /\ pos <= Len(src)
      BY <2>1
    <3>2. Splits(Append(blocks, [covers |-> SubSeq(src, (pos - off) + 1, pos)]), src, pos)
      BY <3>1, SplitsAppend
    <3>3. QED  BY <2>3, <3>2
  <2>5. blocks' \in Seq([covers : Seq(Bytes)])
    <3>1. SubSeq(src, (pos - off) + 1, pos) \in Seq(Bytes)
      OBVIOUS
    <3>2. QED  BY <2>3, <3>1
  <2>6. QED
    BY <1>4, <2>1, <2>4, <2>5 DEF EmitBlock
<1>5. CASE SinkError
  BY <1>5 DEF SinkError
<1>6. CASE Finish
  BY <1>6 DEF Finish
<1>7. ASSUME NEW p \in store, NEW d \in SeqsOf(1, BlockSize), TamperBlock(p, d)
      PROVE  SplitInv'
  BY <1>7 DEF TamperBlock
<1>8. ASSUME NEW ids \in ListTampers(list.blocks), TamperList(ids) PROVE SplitInv'
  BY <1>8 DEF TamperList
<1>9. CASE CheckTotal
  BY <1>9 DEF CheckTotal, SplitVars
<1>10. ASSUME NEW d \in SeqsOf(0, BlockSize), JoinBlock(d) PROVE SplitInv'
  BY <1>10 DEF JoinBlock, SplitVars
<1>11. CASE JoinIoError
  BY <1>11 DEF JoinIoError, SplitVars
<1>12. CASE JoinDone
  BY <1>12 DEF JoinDone, SplitVars
<1>13. CASE UNCHANGED vars
  BY <1>13 DEF vars
<1>14. QED
  BY <1>1, <1>2, <1>3, <1>4, <1>5, <1>6, <1>7, <1>8, <1>9, <1>10, <1>11,
     <1>12, <1>13 DEF Next

(* stream_to_blocks, whenever it returns a BlockList, returns one that     *)
(* cuts its whole input into consecutive blocks of 1..block_size bytes and *)
(* counts its bytes, for every block size and input length.                *)
THEOREM SplitterFaithful == Spec => []BlockListFaithful
<1>1. SplitInv => BlockListFaithful
  BY DEF SplitInv, BlockListFaithful
<1>2. QED
  BY <1>1, InitSplitInv, NextSplitInv, PTL DEF Spec

-----------------------------------------------------------------------------
(* The initial state satisfies JoinInv.                                    *)
LEMMA InitJoinInv == Init => JoinInv
BY InitSplitInv DEF Init, JoinInv

(* While the joiner is running, the splitter has returned: the input is   *)
(* read to its end and the chosen cut cuts it.                             *)
LEMMA JoinerCut ==
  ASSUME JoinInv, jpc # "idle"
  PROVE  /\ src \in Seq(Bytes) /\ blocks \in Seq([covers : Seq(Bytes)])
         /\ Cut \in [0..Len(blocks) -> 0..Len(src)]
         /\ IsCut(Cut, blocks, src, Len(src))
<1>1. pc = "done" /\ Splits(blocks, src, Len(src))
  BY DEF JoinInv, SplitInv
<1>2. QED
  BY <1>1, CutOfIsCut DEF JoinInv, SplitInv, Cut

(* The block accepted at index ji extends the output to the end of that   *)
(* block on the cut.                                                       *)
LEMMA JoinStep ==
  ASSUME JoinInv, jpc = "blocks", ji <= Len(list.blocks),
         NEW d, Hmac(d) = list.blocks[ji]
  PROVE  /\ ji + 1 \in 1..Len(blocks) + 1
         /\ out \o d = SubSeq(src, 1, Cut[ji])
<1>1. /\ src \in Seq(Bytes) /\ blocks \in Seq([covers : Seq(Bytes)])
      /\ Cut \in [0..Len(blocks) -> 0..Len(src)]
      /\ IsCut(Cut, blocks, src, Len(src))
  BY JoinerCut
<1>2. /\ list.blocks = blocks
      /\ ji \in 1..Len(blocks)
      /\ out = SubSeq(src, 1, Cut[ji - 1])
  BY DEF JoinInv
<1>3. d = SubSeq(src, Cut[ji - 1] + 1, Cut[ji])
  <2>1. d = blocks[ji].covers
    <3>1. [covers |-> d].covers = blocks[ji].covers
      BY <1>2 DEF Hmac
    <3>2. QED  BY <3>1
  <2>2. blocks[ji].covers = SubSeq(src, Cut[ji - 1] + 1, Cut[ji])
    BY <1>1, <1>2 DEF IsCut
  <2>3. QED  BY <2>1, <2>2
<1>4. /\ Cut[ji - 1] \in 0..Len(src)
      /\ Cut[ji] \in Cut[ji - 1]..Len(src)
  BY <1>1, <1>2 DEF IsCut
<1>5. SubSeq(src, 1, Cut[ji - 1]) \o SubSeq(src, Cut[ji - 1] + 1, Cut[ji])
        = SubSeq(src, 1, Cut[ji])
  <2>1. \A k \in 0..Len(src) : \A n \in k..Len(src) :
          SubSeq(src, 1, k) \o SubSeq(src, k + 1, n) = SubSeq(src, 1, n)
    BY <1>1, ConcatAdjacentSubSeq
  <2>2. QED
    BY <1>1, <1>4, <2>1
<1>6. out \o d = SubSeq(src, 1, Cut[ji])
  BY <1>2, <1>3, <1>5, Zenon
<1>7. ji + 1 \in 1..Len(blocks) + 1
  BY <1>1, <1>2
<1>8. QED
  BY <1>6, <1>7

(* Every step preserves JoinInv.                                           *)
LEMMA NextJoinInv == JoinInv /\ [Next]_vars => JoinInv'
<1> SUFFICES ASSUME JoinInv, [Next]_vars PROVE JoinInv'
  OBVIOUS
<1>0. SplitInv'
  BY NextSplitInv DEF JoinInv
<1>1. ASSUME NEW n \in 1..BlockSize, ReadSome(n) PROVE JoinInv'
  BY <1>0, <1>1 DEF ReadSome, JoinInv, JoinVars
<1>2. CASE EndFill
  BY <1>0, <1>2 DEF EndFill, JoinInv, JoinVars
<1>3. CASE ReadError
  BY <1>0, <1>3 DEF ReadError, JoinInv, JoinVars
<1>4. CASE EmitBlock
  BY <1>0, <1>4 DEF EmitBlock, JoinInv, JoinVars
<1>5. CASE SinkError
  BY <1>0, <1>5 DEF SinkError, JoinInv, JoinVars
<1>6. CASE Finish
  BY <1>0, <1>6 DEF Finish, JoinInv
<1>7. ASSUME NEW p \in store, NEW d \in SeqsOf(1, BlockSize), TamperBlock(p, d)
      PROVE  JoinInv'
  BY <1>0, <1>7 DEF TamperBlock, JoinInv, JoinVars, Cut
<1>8. ASSUME NEW ids \in ListTampers(list.blocks), TamperList(ids)
      PROVE  JoinInv'
  BY <1>0, <1>8 DEF TamperList, JoinInv, JoinVars, Cut
<1>9. CASE CheckTotal
  <2>1. CASE Total(list.blocks) = list.total
    <3>1. list.blocks = blocks
      BY <1>9, <2>1 DEF CheckTotal, JoinInv, Total
    <3>2. Cut[0] = 0 /\ blocks \in Seq([covers : Seq(Bytes)])
      BY <1>9, JoinerCut DEF CheckTotal, IsCut
    <3>3. SubSeq(src, 1, 0) = <<>>
      OBVIOUS
    <3>4. QED
      BY <1>0, <1>9, <2>1, <3>1, <3>2, <3>3 DEF CheckTotal, JoinInv, SplitVars, Cut
  <2>2. CASE Total(list.blocks) # list.total
    BY <1>0, <1>9, <2>2 DEF CheckTotal, JoinInv, SplitVars, Cut
  <2>3. QED  BY <2>1, <2>2
<1>10. ASSUME NEW d \in SeqsOf(0, BlockSize), JoinBlock(d) PROVE JoinInv'
  <2>1. CASE Hmac(d) = list.blocks[ji]
    <3>1. /\ jpc = "blocks" /\ ji <= Len(list.blocks)
          /\ jpc' = "blocks" /\ ji' = ji + 1 /\ out' = out \o d
          /\ UNCHANGED <<src, pc, blocks, list>>
      BY <1>10, <2>1 DEF JoinBlock, SplitVars
    <3>2. Cut' = Cut
      BY <3>1 DEF Cut
    <3>3. /\ ji + 1 \in 1..Len(blocks) + 1
          /\ out \o d = SubSeq(src, 1, Cut[ji])
      BY <2>1, <3>1, JoinStep
    <3>4. (jpc # "idle" =>
             /\ pc = "done"
             /\ list = [total |-> Total(blocks), blocks |-> list.blocks,
                        size |-> list.size])'
      BY <3>1 DEF JoinInv
    <3>5. (list.blocks = blocks)'
      BY <3>1 DEF JoinInv
    <3>6. (/\ ji \in 1..Len(blocks) + 1
           /\ out = SubSeq(src, 1, Cut[ji - 1]))'
      <4>0. ji \in Nat /\ Len(blocks) \in Nat
        BY <3>1 DEF JoinInv, SplitInv
      <4>1. ji' - 1 = ji /\ ji' \in 1..Len(blocks') + 1
        BY <3>1, <3>3, <4>0
      <4>2. out' = SubSeq(src', 1, Cut'[ji' - 1])
        BY <3>1, <3>2, <3>3, <4>1
      <4>3. QED  BY <4>1, <4>2
    <3>7. QED
      BY <1>0, <3>1, <3>4, <3>5, <3>6 DEF JoinInv
  <2>2. CASE Hmac(d) # list.blocks[ji]
    BY <1>0, <1>10, <2>2 DEF JoinBlock, JoinInv, SplitVars, Cut
  <2>3. QED  BY <2>1, <2>2
<1>11. CASE JoinIoError
  BY <1>0, <1>11 DEF JoinIoError, JoinInv, SplitVars, Cut
<1>12. CASE JoinDone
  <2>1. /\ src \in Seq(Bytes) /\ blocks \in Seq([covers : Seq(Bytes)])
        /\ IsCut(Cut, blocks, src, Len(src))
    BY <1>12, JoinerCut DEF JoinDone
  <2>2. ji = Len(blocks) + 1 /\ out = SubSeq(src, 1, Cut[Len(blocks)])
    BY <1>12 DEF JoinDone, JoinInv
  <2>3. out = src
    BY <2>1, <2>2, SubSeqFull DEF IsCut
  <2>4. QED
    BY <1>0, <1>12, <2>3 DEF JoinDone, JoinInv, SplitVars, Cut
<1>13. CASE UNCHANGED vars
  BY <1>0, <1>13 DEF vars, JoinInv, Cut
<1>14. QED
  BY <1>1, <1>2, <1>3, <1>4, <1>5, <1>6, <1>7, <1>8, <1>9, <1>10, <1>11,
     <1>12, <1>13 DEF Next

(* blocks_to_stream returns Ok only after writing exactly the stream that  *)
(* stream_to_blocks split, however the attacker replaced stored blocks or  *)
(* altered the list's ids, for every block size and input length: the     *)
(* total pins the ids and each block's HMAC pins its bytes.               *)
THEOREM JoinAuthenticHolds == Spec => []JoinAuthentic
<1>1. JoinInv => JoinAuthentic
  BY DEF JoinInv, JoinAuthentic
<1>2. QED
  BY <1>1, InitJoinInv, NextJoinInv, PTL DEF Spec


-----------------------------------------------------------------------------
(* A sequence of n bytes, lo <= n <= hi, is in SeqsOf(lo, hi).             *)
LEMMA SeqsOfIntro ==
  ASSUME NEW lo \in Nat, NEW hi \in Nat, NEW n \in lo..hi,
         NEW f \in [1..n -> Bytes]
  PROVE  f \in SeqsOf(lo, hi)
BY DEF SeqsOf

(* Data of 1..BlockSize bytes is data of 0..BlockSize bytes.               *)
LEMMA SeqsOfWiden == SeqsOf(1, BlockSize) \subseteq SeqsOf(0, BlockSize)
BY DEF SeqsOf

(* The initial state is well typed.                                        *)
LEMMA InitTypeOK == Init => TypeOK
<1> SUFFICES ASSUME Init PROVE TypeOK
  OBVIOUS
<1>1. src \in Seq(Bytes)
  BY SeqsOfType DEF Init
<1>2. list \in [total : [over : Seq(Ids)], blocks : Seq(Ids), size : Nat]
  <2>1. Total(<<>>) \in [over : Seq(Ids)]
    BY DEF Total
  <2>2. QED
    BY <2>1 DEF Init
<1>3. buf \in [1..BlockSize -> Bytes] /\ store \subseteq Ids \X SeqsOf(0, BlockSize)
  BY DEF Init
<1>4. blocks \in Seq(Ids) /\ out \in Seq(Bytes) /\ pos \in 0..Len(src)
  BY <1>1 DEF Init
<1>5. src \in SeqsOf(0, MaxLen) /\ off \in 0..BlockSize /\ size \in Nat
  BY DEF Init
<1>6. pc \in {"fill", "emit", "done", "failed"} /\ ji \in Nat \ {0}
  BY DEF Init
<1>7. jpc \in {"idle", "check", "blocks", "ok", "hmac", "io"} /\ tampered \in BOOLEAN
  BY DEF Init
<1>8. QED
  BY <1>2, <1>3, <1>4, <1>5, <1>6, <1>7 DEF TypeOK

(* Every step keeps the state well typed.                                  *)
LEMMA NextTypeOK == TypeOK /\ [Next]_vars => TypeOK'
<1> SUFFICES ASSUME TypeOK, [Next]_vars PROVE TypeOK'
  OBVIOUS
<1> USE DEF TypeOK
<1>0. src \in Seq(Bytes) /\ SeqsOf(0, BlockSize) \subseteq Seq(Bytes)
  BY SeqsOfType
<1>1. ASSUME NEW n \in 1..BlockSize, ReadSome(n) PROVE TypeOK'
  <2>1. pos' \in 0..Len(src) /\ off' \in 0..BlockSize
    BY <1>1 DEF ReadSome
  <2>2. ASSUME NEW i \in 1..BlockSize, off < i, i <= off + n
        PROVE  src[pos + i - off] \in Bytes
    BY <1>0, <1>1, <2>2 DEF ReadSome
  <2>3. buf' \in [1..BlockSize -> Bytes]
    BY <1>1, <2>2 DEF ReadSome
  <2>4. QED
    BY <1>1, <2>1, <2>3 DEF ReadSome, JoinVars
<1>2. CASE EndFill
  BY <1>2 DEF EndFill, JoinVars
<1>3. CASE ReadError
  BY <1>3 DEF ReadError, JoinVars
<1>4. CASE EmitBlock
  <2>1. off \in 1..BlockSize
    BY <1>4 DEF EmitBlock, JoinVars
  <2>2. Prefix(buf, off) \in SeqsOf(0, BlockSize)
    BY <2>1, SeqsOfIntro DEF Prefix
  <2>3. buf \in SeqsOf(0, BlockSize)
    BY SeqsOfIntro
  <2>4. Hmac(Prefix(buf, off)) \in Ids
    BY <2>2 DEF Ids
  <2>5. QED
    BY <1>4, <2>1, <2>3, <2>4 DEF EmitBlock, JoinVars
<1>5. CASE SinkError
  BY <1>5 DEF SinkError, JoinVars
<1>6. CASE Finish
  BY <1>6 DEF Finish, Total
<1>7. ASSUME NEW p \in store, NEW d \in SeqsOf(1, BlockSize), TamperBlock(p, d)
      PROVE  TypeOK'
  <2>1. p[1] \in Ids /\ d \in SeqsOf(0, BlockSize)
    BY SeqsOfWiden
  <2>2. QED
    BY <1>7, <2>1 DEF TamperBlock, JoinVars
<1>8. ASSUME NEW ids \in ListTampers(list.blocks), TamperList(ids)
      PROVE  TypeOK'
  <2>1. ids \in Seq(Ids)
    <3> DEFINE s == list.blocks
    <3>1. s \in Seq(Ids)
      OBVIOUS
    <3>2. ASSUME NEW i \in 1..Len(s), NEW j \in 1..Len(s) PROVE Swap(s, i, j) \in Seq(Ids)
      BY <3>1 DEF Swap
    <3>3. ASSUME NEW i \in 1..Len(s), NEW d \in SeqsOf(1, BlockSize)
          PROVE  [s EXCEPT ![i] = Hmac(d)] \in Seq(Ids)
      <4>1. Hmac(d) \in Ids
        BY SeqsOfWiden DEF Ids
      <4>2. QED  BY <3>1, <4>1
    <3>4. \/ ids \in {Swap(s, i, j) : i, j \in 1..Len(s)}
          \/ ids \in {[s EXCEPT ![i] = Hmac(d)] : i \in 1..Len(s), d \in SeqsOf(1, BlockSize)}
      BY <1>8 DEF ListTampers
    <3>5. CASE ids \in {Swap(s, i, j) : i, j \in 1..Len(s)}
      <4>1. PICK i \in 1..Len(s), j \in 1..Len(s) : ids = Swap(s, i, j)
        BY <3>5
      <4>2. QED  BY <3>2, <4>1
    <3>6. CASE ids \in {[s EXCEPT ![i] = Hmac(d)] : i \in 1..Len(s), d \in SeqsOf(1, BlockSize)}
      <4>1. PICK i \in 1..Len(s), d \in SeqsOf(1, BlockSize) : ids = [s EXCEPT ![i] = Hmac(d)]
        BY <3>6
      <4>2. QED  BY <3>3, <4>1
    <3>7. QED
      BY <3>4, <3>5, <3>6
  <2>2. QED
    BY <1>8, <2>1 DEF TamperList, JoinVars
<1>9. CASE CheckTotal
  BY <1>9 DEF CheckTotal, SplitVars
<1>10. ASSUME NEW d \in SeqsOf(0, BlockSize), JoinBlock(d) PROVE TypeOK'
  BY <1>0, <1>10 DEF JoinBlock, SplitVars
<1>11. CASE JoinIoError
  BY <1>11 DEF JoinIoError, SplitVars
<1>12. CASE JoinDone
  BY <1>12 DEF JoinDone, SplitVars
<1>13. CASE UNCHANGED vars
  BY <1>13 DEF vars
<1>14. QED
  BY <1>1, <1>2, <1>3, <1>4, <1>5, <1>6, <1>7, <1>8, <1>9, <1>10, <1>11,
     <1>12, <1>13 DEF Next

(* Every reachable state of the splitter, the attacker and the joiner is   *)
(* well typed: the store only ever holds blobs of at most block_size bytes *)
(* under ids of such data, and the list's total covers a list of ids.      *)
THEOREM TypeCorrect == Spec => []TypeOK
BY InitTypeOK, NextTypeOK, PTL DEF Spec

=============================================================================
