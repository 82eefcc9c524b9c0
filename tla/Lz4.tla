--------------------------------- MODULE Lz4 ---------------------------------
(***************************************************************************)
(* Lz4Compress (core/compress/lz4): one direction of a stream of blocks.   *)
(* The encoder cuts what it is given into blocks of at most MaxBytes and   *)
(* keeps the plain bytes in a ring, the dictionary of the blocks that      *)
(* follow; the decoder has a ring of its own.  A byte is its position in   *)
(* the stream above (lo..hi) or in the transport below (at): a stretch of  *)
(* bytes is an interval of positions, and that a block, a leftover or a    *)
(* length is the right one is for the invariants to say.                   *)
(***************************************************************************)
EXTENDS Integers, Sequences

CONSTANTS
  Prefix,    \* bytes of the length before a block, and before a cipher's frame
  MaxBytes,  \* lz4_compress_max_bytes
  Bound,     \* LZ4_compressBound(MaxBytes)
  Capacity,  \* of either ring
  Sizes,     \* what a block may be compressed to
  PipeMax    \* what the transport holds before a write is Pending

ASSUME Lz4Assumption ==
  /\ Prefix \in Nat \ {0} /\ MaxBytes \in Nat \ {0} /\ PipeMax \in Nat \ {0}
  /\ Bound \in Nat /\ Capacity \in Nat /\ MaxBytes <= Bound /\ Bound < Capacity
  /\ Sizes # {} /\ Sizes \subseteq 1 .. Bound

VARIABLES
  blocks,      \* what has been compressed; the last one is lz4_ebuf while ebuf
  ebuf,        \* lz4_ebuf is Some: the last block is not written in full
  woffset,     \* lz4_woffset
  compressed,  \* lz4_compressed_offset: of the buffer poll_write is called with
  ering,       \* lz4_ering_offset
  sent, got,   \* bytes the transport has taken and given
  dinit, dneed, doffset,  \* lz4_dinit, lz4_dneed, lz4_doffset
  dring,       \* lz4_dring_offset
  rbuf,        \* lz4_rbuf
  taken,       \* bytes poll_read has returned, in all
  decoded,     \* history: blocks decompressed
  apart        \* history: a block was put at another place in the decoder's ring

encoder == <<blocks, ebuf, woffset, compressed, ering, sent>>
decoder == <<got, dinit, dneed, doffset, dring, rbuf, taken, decoded, apart>>
lz4 == <<encoder, decoder>>

Least(a, b) == IF a < b THEN a ELSE b
Upto(lo, n) == [lo |-> lo, hi |-> lo + n]
Width(b) == b.hi - b.lo
Last(s) == s[Len(s)]

\* Both rings have come to offset o with what went through the connection before.
Lz4Init(o) ==
  /\ blocks = <<>> /\ ebuf = FALSE /\ woffset = 0 /\ compressed = 0 /\ ering = o
  /\ sent = 0 /\ got = 0 /\ taken = 0 /\ decoded = 0
  /\ dinit = FALSE /\ dneed = Prefix /\ doffset = 0 /\ dring = o
  /\ rbuf = Upto(0, 0) /\ apart = FALSE

\* Mutant: room is kept for what has been put into the ring, not for what comes next.
AdvanceLate(o, n, limit) == IF o + n >= Capacity THEN 0 ELSE o + n

\* Where a ring goes on after n bytes at offset o: room(Capacity - limit) is kept.
Advance(o, n, limit) == IF o + n >= Capacity - limit THEN 0 ELSE o + n

-----------------------------------------------------------------------------
(* poll_encode_write(buf).  The loop is one step per turn, since the other *)
(* end reads in between; buf is the same until it has been accepted.       *)

\* No block is left: the next piece of buf is copied into the ring and compressed.
Encode(buf) ==
  /\ ~ebuf
  /\ LET n == Least(MaxBytes, Width(buf) - compressed)
     IN /\ \E size \in Sizes :
             blocks' = Append(blocks, [lo |-> buf.lo + compressed, hi |-> buf.lo + compressed + n,
                                       ring |-> ering, at |-> sent, size |-> size])
        /\ compressed' = compressed + n
        /\ ering' = Advance(ering, n, MaxBytes)
  /\ ebuf' = TRUE
  /\ UNCHANGED <<woffset, sent, decoder>>

Room == PipeMax - (sent - got)
BlockLeft == Prefix + Last(blocks).size - woffset

\* The transport takes n bytes; the last byte of the last block of buf is what makes
\* poll_write return, with the whole length of buf.
Accepts(buf, n) == n = BlockLeft /\ compressed = Width(buf)

WriteOut(buf, n) ==
  /\ ebuf /\ n <= Room /\ n <= BlockLeft
  /\ sent' = sent + n
  /\ ebuf' = (n < BlockLeft)
  /\ woffset' = IF n < BlockLeft THEN woffset + n ELSE 0
  /\ compressed' = IF Accepts(buf, n) THEN 0 ELSE compressed
  /\ UNCHANGED <<blocks, ering, decoder>>

\* The transport takes nothing: poll_write returns Pending and keeps the block.
WouldBlock == ebuf /\ Room = 0

-----------------------------------------------------------------------------
(* poll_read with room for that many bytes.                                *)

HasLeftover == rbuf.lo < rbuf.hi

\* What an earlier block left over comes first.
ReadLeftover(room) ==
  /\ HasLeftover
  /\ LET n == Least(room, Width(rbuf))
     IN taken' = taken + n /\ rbuf' = [rbuf EXCEPT !.lo = @ + n]
  /\ UNCHANGED <<encoder, got, dinit, dneed, doffset, dring, decoded, apart>>

\* The length of a block, then the block, are gathered from what the transport gives.
ReadTransport(n) ==
  /\ ~HasLeftover
  /\ n <= dneed - doffset /\ n <= sent - got
  /\ got' = got + n /\ doffset' = doffset + n
  /\ UNCHANGED <<encoder, dinit, dneed, dring, rbuf, taken, decoded, apart>>

\* The block whose length the last Prefix bytes are, and the one the last dneed bytes are.
LengthOf(b) == b.at + Prefix = got
DataOf(b) == b.at + Prefix + b.size = got /\ b.size = dneed

ReadLength ==
  /\ ~HasLeftover /\ ~dinit /\ doffset = dneed
  /\ \E j \in DOMAIN blocks : LengthOf(blocks[j]) /\ dneed' = blocks[j].size
  /\ dinit' = TRUE /\ doffset' = 0
  /\ UNCHANGED <<encoder, got, dring, rbuf, taken, decoded, apart>>

\* Mutant: what does not fit in room is dropped.
DecompressDrops(room) ==
  /\ ~HasLeftover /\ dinit /\ doffset = dneed
  /\ \E j \in DOMAIN blocks :
       /\ DataOf(blocks[j])
       /\ apart' = (apart \/ blocks[j].ring # dring)
       /\ dring' = Advance(dring, Width(blocks[j]), Bound)
       /\ taken' = taken + Least(room, Width(blocks[j]))
       /\ rbuf' = Upto(taken', 0)
  /\ dinit' = FALSE /\ dneed' = Prefix /\ doffset' = 0 /\ decoded' = decoded + 1
  /\ UNCHANGED <<encoder, got>>

\* What does not fit in room is left over.  The place in the ring is kept back by Bound,
\* not by MaxBytes as in the encoder.
Decompress(room) ==
  /\ ~HasLeftover /\ dinit /\ doffset = dneed
  /\ \E j \in DOMAIN blocks :
       LET b == blocks[j]
           n == Least(room, Width(b))
       IN /\ DataOf(b)
          /\ apart' = (apart \/ b.ring # dring)
          /\ dring' = Advance(dring, Width(b), Bound)
          /\ taken' = taken + n
          /\ rbuf' = [lo |-> b.lo + n, hi |-> b.hi]
  /\ dinit' = FALSE /\ dneed' = Prefix /\ doffset' = 0 /\ decoded' = decoded + 1
  /\ UNCHANGED <<encoder, got>>

\* Mutant: the transport is asked before what is left over is given.
AtEndEarly == doffset < dneed /\ got = sent

\* Nothing came and nothing will: Ok(0).
AtEnd == ~HasLeftover /\ doffset < dneed /\ got = sent

=============================================================================
