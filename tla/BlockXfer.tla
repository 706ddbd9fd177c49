----------------------------- MODULE BlockXfer -----------------------------
(***************************************************************************)
(* The block layer of src/block_xfer.rs: stream_to_blocks splits a byte    *)
(* stream into blocks named by their HMAC and hands each to a callback     *)
(* that stores it; blocks_to_stream verifies the list's total, fetches     *)
(* each block, writes it to the output and checks its HMAC.                *)
(*                                                                         *)
(* Data abstraction.  Bytes are a small set.  An HMAC under the (fixed)    *)
(* secret is taken to be collision free, so it is represented by the data  *)
(* it covers: Hmac(d) is the record [covers |-> d], and the total is the   *)
(* record [over |-> ids] over the sequence of block ids.  The splitter's   *)
(* block buffer is kept byte for byte, since which bytes the callback is   *)
(* given is what the round-trip depends on.  A read returning Interrupted  *)
(* is retried without any change of state and is left out.                *)
(*                                                                         *)
(* The joiner starts on the BlockList the splitter returned.  An attacker  *)
(* with access to the storage may replace a stored block or alter the      *)
(* list before the joiner runs (spec 8.2), at most once.                   *)
(***************************************************************************)
EXTENDS Naturals, Sequences

CONSTANTS
  Bytes,        \* byte values
  Zero,         \* the byte block_data is filled with by resize(block_size, 0)
  BlockSize,    \* block_size
  MaxLen        \* bound on the length of the input stream

ASSUME BlockXferAssumption ==
  /\ Zero \in Bytes
  /\ BlockSize \in Nat \ {0}
  /\ MaxLen \in Nat

VARIABLES
  src,      \* the bytes the input reader yields, in order
  pos,      \* how many of them have been read
  buf,      \* block_data: BlockSize bytes, reused for every block
  off,      \* bytes read into buf for the current block
  pc,       \* splitter: "fill", "emit", "done" or "failed"
  blocks,   \* the block ids pushed so far
  size,     \* the byte count accumulated so far
  store,    \* the blobs written by block_out: a set of <<id, data>>
  list,     \* the BlockList returned, once pc = "done"
  jpc,      \* joiner: "idle", "check", "blocks", "ok", "hmac" or "io"
  ji,       \* index in list.blocks of the next block to fetch
  out,      \* the bytes written to the joiner's output
  tampered  \* whether the attacker has altered the store or the list

vars == <<src, pos, buf, off, pc, blocks, size, store, list, jpc, ji, out, tampered>>

(* Byte sequences of length lo..hi.                                        *)
SeqsOf(lo, hi) == UNION {[1..n -> Bytes] : n \in lo..hi}

Hmac(d) == [covers |-> d]

Total(ids) == [over |-> ids]

(* The first n bytes of buf: block_data[0..off].                           *)
Prefix(b, n) == [i \in 1..n |-> b[i]]

(* The ids cut the first n bytes of s into consecutive pieces of 1 to     *)
(* BlockSize bytes, in order: piece i is s[cut[i-1]+1 .. cut[i]].          *)
Splits(ids, s, n) ==
  \E cut \in [0..Len(ids) -> 0..n] :
    /\ cut[0] = 0
    /\ cut[Len(ids)] = n
    /\ \A i \in 1..Len(ids) :
         /\ cut[i - 1] < cut[i]
         /\ cut[i] <= cut[i - 1] + BlockSize
         /\ ids[i].covers = SubSeq(s, cut[i - 1] + 1, cut[i])

-----------------------------------------------------------------------------
Init ==
  /\ src \in SeqsOf(0, MaxLen)
  /\ pos = 0
  /\ buf = [i \in 1..BlockSize |-> Zero]
  /\ off = 0
  /\ pc = "fill"
  /\ blocks = <<>>
  /\ size = 0
  /\ store = {}
  /\ list = [total |-> Total(<<>>), blocks |-> <<>>, size |-> 0]
  /\ jpc = "idle"
  /\ ji = 1
  /\ out = <<>>
  /\ tampered = FALSE

SplitVars == <<src, pos, buf, off, pc, blocks, size, store, list>>
JoinVars == <<jpc, ji, out>>

(* Mutant: the read given the whole buffer instead of block_data[off..].   *)
ReadSomeWholeBuffer(n) ==
  /\ pc = "fill"
  /\ off < BlockSize
  /\ n <= BlockSize
  /\ n <= Len(src) - pos
  /\ buf' = [i \in 1..BlockSize |-> IF off < i /\ i <= off + n
                                    THEN src[pos + i - off] ELSE buf[i]]
  /\ off' = off + n
  /\ pos' = pos + n
  /\ UNCHANGED <<src, pc, blocks, size, store, list, tampered>> /\ UNCHANGED JoinVars

(* input.read(&mut block_data[off..]) returns n > 0 bytes: any number up   *)
(* to the space left and the bytes left.                                   *)
ReadSome(n) ==
  /\ pc = "fill"
  /\ off < BlockSize
  /\ n <= BlockSize - off
  /\ n <= Len(src) - pos
  /\ buf' = [i \in 1..BlockSize |-> IF off < i /\ i <= off + n
                                    THEN src[pos + i - off] ELSE buf[i]]
  /\ off' = off + n
  /\ pos' = pos + n
  /\ UNCHANGED <<src, pc, blocks, size, store, list, tampered>> /\ UNCHANGED JoinVars

(* The fill loop ends: the buffer is full, or read returned 0 (EOF).       *)
EndFill ==
  /\ pc = "fill"
  /\ \/ off = BlockSize
     \/ off < BlockSize /\ pos = Len(src)
  /\ pc' = "emit"
  /\ UNCHANGED <<src, pos, buf, off, blocks, size, store, list, tampered>>
  /\ UNCHANGED JoinVars

(* A read error other than Interrupted is returned at once.                *)
ReadError ==
  /\ pc = "fill"
  /\ off < BlockSize
  /\ pc' = "failed"
  /\ UNCHANGED <<src, pos, buf, off, blocks, size, store, list, tampered>>
  /\ UNCHANGED JoinVars

(* Mutant: the size advanced by block_size instead of the bytes read.      *)
EmitBlockFullSize ==
  /\ pc = "emit"
  /\ off > 0
  /\ LET h == Hmac(Prefix(buf, off))
     IN /\ store' = store \cup {<<h, buf>>}
        /\ blocks' = Append(blocks, h)
  /\ size' = size + BlockSize
  /\ off' = 0
  /\ pc' = "fill"
  /\ UNCHANGED <<src, pos, buf, list, tampered>> /\ UNCHANGED JoinVars

(* A non-empty block: hash block_data[0..off], pass (hash, block_data) to  *)
(* block_out, push the hash, add off to the size; the next pass refills    *)
(* the same buffer from offset 0.                                          *)
EmitBlock ==
  /\ pc = "emit"
  /\ off > 0
  /\ LET h == Hmac(Prefix(buf, off))
     IN /\ store' = store \cup {<<h, buf>>}
        /\ blocks' = Append(blocks, h)
  /\ size' = size + off
  /\ off' = 0
  /\ pc' = "fill"
  /\ UNCHANGED <<src, pos, buf, list, tampered>> /\ UNCHANGED JoinVars

(* block_out returns an error, which stream_to_blocks returns.             *)
SinkError ==
  /\ pc = "emit"
  /\ off > 0
  /\ pc' = "failed"
  /\ UNCHANGED <<src, pos, buf, off, blocks, size, store, list, tampered>>
  /\ UNCHANGED JoinVars

(* An empty block is EOF: finalize the total and return the BlockList.     *)
Finish ==
  /\ pc = "emit"
  /\ off = 0
  /\ pc' = "done"
  /\ list' = [total |-> Total(blocks), blocks |-> blocks, size |-> size]
  /\ jpc' = "check"
  /\ UNCHANGED <<src, pos, buf, off, blocks, size, store, tampered, ji, out>>

-----------------------------------------------------------------------------
(* The attacker replaces the data stored under one id.                     *)
TamperBlock(p, d) ==
  /\ jpc = "check" /\ ~tampered
  /\ p \in store
  /\ d # p[2]
  /\ store' = (store \ {p}) \cup {<<p[1], d>>}
  /\ tampered' = TRUE
  /\ UNCHANGED <<src, pos, buf, off, pc, blocks, size, list>> /\ UNCHANGED JoinVars

(* The attacker swaps two member ids of the list, or replaces one by the   *)
(* id of other data.                                                       *)
Swap(s, i, j) == [s EXCEPT ![i] = s[j], ![j] = s[i]]

ListTampers(s) ==
  {Swap(s, i, j) : i, j \in 1..Len(s)} \cup
  {[s EXCEPT ![i] = Hmac(d)] : i \in 1..Len(s), d \in SeqsOf(1, BlockSize)}

TamperList(ids) ==
  /\ jpc = "check" /\ ~tampered
  /\ Len(ids) = Len(list.blocks)
  /\ ids # list.blocks
  /\ list' = [list EXCEPT !.blocks = ids]
  /\ tampered' = TRUE
  /\ UNCHANGED <<src, pos, buf, off, pc, blocks, size, store>> /\ UNCHANGED JoinVars

-----------------------------------------------------------------------------
(* blocks_to_stream: recompute the total over the list's ids.              *)
CheckTotal ==
  /\ jpc = "check"
  /\ jpc' = IF Total(list.blocks) = list.total THEN "blocks" ELSE "hmac"
  /\ UNCHANGED <<ji, out, tampered>> /\ UNCHANGED SplitVars

(* Mutant: the block's HMAC not compared with its id.                      *)
JoinBlockUnchecked(d) ==
  /\ jpc = "blocks"
  /\ ji <= Len(list.blocks)
  /\ <<list.blocks[ji], d>> \in store
  /\ out' = out \o d
  /\ jpc' = "blocks"
  /\ ji' = ji + 1
  /\ UNCHANGED tampered /\ UNCHANGED SplitVars

(* Fetch the next block, stream all of it to the output while hashing it,  *)
(* then compare the hash with the id.                                      *)
JoinBlock(d) ==
  /\ jpc = "blocks"
  /\ ji <= Len(list.blocks)
  /\ <<list.blocks[ji], d>> \in store
  /\ out' = out \o d
  /\ jpc' = IF Hmac(d) = list.blocks[ji] THEN "blocks" ELSE "hmac"
  /\ ji' = ji + 1
  /\ UNCHANGED tampered /\ UNCHANGED SplitVars

(* block_fetch, a read or an output write fails.                           *)
JoinIoError ==
  /\ jpc = "blocks"
  /\ ji <= Len(list.blocks)
  /\ jpc' = "io"
  /\ UNCHANGED <<ji, out, tampered>> /\ UNCHANGED SplitVars

JoinDone ==
  /\ jpc = "blocks"
  /\ ji > Len(list.blocks)
  /\ jpc' = "ok"
  /\ UNCHANGED <<ji, out, tampered>> /\ UNCHANGED SplitVars

Next ==
  \/ \E n \in 1..BlockSize : ReadSome(n)
  \/ EndFill
  \/ ReadError
  \/ EmitBlock
  \/ SinkError
  \/ Finish
  \/ \E p \in store, d \in SeqsOf(1, BlockSize) : TamperBlock(p, d)
  \/ \E ids \in ListTampers(list.blocks) : TamperList(ids)
  \/ CheckTotal
  \/ \E d \in SeqsOf(0, BlockSize) : JoinBlock(d)
  \/ JoinIoError
  \/ JoinDone

Spec == Init /\ [][Next]_vars

-----------------------------------------------------------------------------
Ids == {Hmac(d) : d \in SeqsOf(0, BlockSize)}

TypeOK ==
  /\ src \in SeqsOf(0, MaxLen)
  /\ pos \in 0..Len(src)
  /\ buf \in [1..BlockSize -> Bytes]
  /\ off \in 0..BlockSize
  /\ pc \in {"fill", "emit", "done", "failed"}
  /\ blocks \in Seq(Ids)
  /\ size \in Nat
  /\ store \subseteq Ids \X SeqsOf(0, BlockSize)
  /\ list \in [total : [over : Seq(Ids)], blocks : Seq(Ids), size : Nat]
  /\ jpc \in {"idle", "check", "blocks", "ok", "hmac", "io"}
  /\ ji \in Nat \ {0}
  /\ out \in Seq(Bytes)
  /\ tampered \in BOOLEAN

(* The BlockList stream_to_blocks returns describes its input (spec 4.1.1  *)
(* and 8.1): its block ids cut the whole input into consecutive non-empty  *)
(* pieces of at most block_size bytes, in the order read, and size is the  *)
(* input's length.  The fill loop's partial reads, its EOF detection and   *)
(* the reuse of block_data across blocks all bear on it.                   *)
BlockListFaithful ==
  pc = "done" => size = Len(src) /\ Splits(blocks, src, Len(src))

(* Tamper detection (spec 8.2, blocks_to_stream's doc comment): when       *)
(* blocks_to_stream returns Ok, the output is exactly the split stream,    *)
(* whatever the attacker did to the stored blocks or to the list.          *)
JoinAuthentic == jpc = "ok" => out = src

(* Block round-trip (spec 8.1): without tampering, and unless an I/O call  *)
(* fails, blocks_to_stream succeeds on the stored blocks and writes back  *)
(* exactly the split stream.                                               *)
RoundTrip ==
  ~tampered /\ jpc \in {"ok", "hmac"} => jpc = "ok" /\ out = src
=============================================================================
