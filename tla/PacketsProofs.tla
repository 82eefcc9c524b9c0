---------------------------- MODULE PacketsProofs ----------------------------
(***************************************************************************)
(* Packets, proved for any constants: what is read is what was written,    *)
(* when a packet is sent once, and when the rings of LZ4 agree.            *)
(***************************************************************************)
EXTENDS Packets, TLAPS

(* Where the j-th block begins, and where one after the last would: in the *)
(* stream, in the transport and in the ring, which the handshake may have  *)
(* advanced.  The same of frames.                                          *)
BlockStart(j) == IF j = 1 THEN 0 ELSE blocks[j - 1].hi
WireStart(j) == IF j = 1 THEN 0 ELSE blocks[j - 1].at + Prefix + blocks[j - 1].size
FirstRing == IF blocks = <<>> THEN ering ELSE blocks[1].ring
RingStart(j) ==
  IF j = 1 THEN FirstRing ELSE Advance(blocks[j - 1].ring, Width(blocks[j - 1]), MaxBytes)
FrameStart(k) == IF k = 1 THEN 0 ELSE frames[k - 1].hi
TextStart(k) == IF k = 1 THEN 0 ELSE frames[k - 1].phi

Block == [lo : Nat, hi : Nat, ring : Nat, at : Nat, size : Nat]
FrameSet == [by : Senders, lo : Nat, hi : Nat, plo : Nat, phi : Nat]
Interval == [lo : Nat, hi : Nat]

EncoderTypes ==
  /\ blocks \in Seq(Block) /\ ebuf \in BOOLEAN
  /\ woffset \in Nat /\ compressed \in Nat /\ ering \in Nat /\ sent \in Nat
DecoderTypes ==
  /\ got \in Nat /\ dinit \in BOOLEAN /\ dneed \in Nat /\ doffset \in Nat /\ dring \in Nat
  /\ rbuf \in Interval /\ taken \in Nat /\ decoded \in Nat /\ apart \in BOOLEAN
SealingTypes == kind \in Kinds /\ frames \in Seq(FrameSet) /\ pending \in BOOLEAN
OpeningTypes ==
  /\ cinit \in BOOLEAN /\ rpos \in Nat /\ cneed \in Nat
  /\ cache \in Interval /\ ptaken \in Nat /\ opened \in Nat
WriterTypes ==
  /\ len \in [Senders -> Lengths]
  /\ st \in [Senders -> {"idle", "sending", "done", "dropped", "failed"}]
  /\ turn \in Senders \union {NoSender}
  /\ swapped \in SUBSET (Senders \X Senders) /\ closed \in BOOLEAN
ReceiverTypes ==
  /\ pbody \in BOOLEAN /\ poffset \in Nat /\ pneed \in Nat
  /\ received \in Seq(Senders) /\ rstat \in {"open", "reset", "bad"}
Types ==
  EncoderTypes /\ DecoderTypes /\ SealingTypes /\ OpeningTypes /\ WriterTypes /\ ReceiverTypes

(* Blocks, and frames, lie one behind the other.                           *)
BlocksInv ==
  /\ \A j \in DOMAIN blocks :
       /\ blocks[j].lo = BlockStart(j) /\ blocks[j].at = WireStart(j)
       /\ blocks[j].ring = RingStart(j)
       /\ blocks[j].lo < blocks[j].hi /\ Width(blocks[j]) <= MaxBytes
       /\ blocks[j].size \in 1 .. Bound
  /\ \A i, j \in DOMAIN blocks : i < j =>
       blocks[i].hi <= blocks[j].lo /\ blocks[i].at + Prefix + blocks[i].size <= blocks[j].at
  /\ ering = RingStart(Len(blocks) + 1) /\ ering + MaxBytes <= Capacity

FramesInv ==
  /\ \A k \in DOMAIN frames :
       /\ frames[k].lo = FrameStart(k) /\ frames[k].plo = TextStart(k)
       /\ frames[k].lo + Prefix < frames[k].hi
       /\ frames[k].plo + PacketHead <= frames[k].phi
       /\ kind = "control" => Width(frames[k]) = Prefix + RsaKey
  /\ \A i, j \in DOMAIN frames : i < j =>
       frames[i].hi <= frames[j].lo /\ frames[i].phi <= frames[j].plo

(* The last frame is being written; or every frame has been.               *)
InFrame == turn # NoSender \/ pending

EncoderInv ==
  /\ sent = IF ebuf THEN blocks[Len(blocks)].at + woffset ELSE WireStart(Len(blocks) + 1)
  /\ ebuf => /\ InFrame /\ blocks # <<>>
             /\ woffset < Prefix + blocks[Len(blocks)].size
             /\ frames[Len(frames)].lo <= blocks[Len(blocks)].lo
  /\ ~ebuf => woffset = 0
  /\ InFrame => /\ frames # <<>>
                /\ frames[Len(frames)].lo + compressed = BlockStart(Len(blocks) + 1)
                /\ compressed <= Width(frames[Len(frames)])
                /\ ~ebuf => compressed < Width(frames[Len(frames)])
  /\ ~InFrame => compressed = 0 /\ BlockStart(Len(blocks) + 1) = FrameStart(Len(frames) + 1)
  /\ turn # NoSender => ~pending /\ st[turn] = "sending"

DecoderInv ==
  /\ got <= sent /\ decoded <= Len(blocks) /\ doffset <= dneed
  /\ IF dinit THEN /\ decoded < Len(blocks) /\ dneed = blocks[decoded + 1].size
                   /\ got = WireStart(decoded + 1) + Prefix + doffset
              ELSE dneed = Prefix /\ got = WireStart(decoded + 1) + doffset
  /\ rbuf.lo = taken /\ rbuf.hi = BlockStart(decoded + 1) /\ taken <= rbuf.hi

OpeningInv ==
  /\ opened <= Len(frames) /\ rpos <= cneed
  /\ IF cinit THEN /\ opened < Len(frames) /\ cneed = Width(frames[opened + 1]) - Prefix
                   /\ taken = FrameStart(opened + 1) + Prefix + rpos
              ELSE cneed = Prefix /\ taken = FrameStart(opened + 1) + rpos
  /\ cache.lo = ptaken /\ cache.hi = TextStart(opened + 1) /\ ptaken <= cache.hi

PacketInv ==
  kind = "control" =>
    /\ Len(received) <= Len(frames) /\ poffset <= pneed
    /\ \A i \in DOMAIN received : received[i] = frames[i].by
    /\ IF pbody THEN /\ Len(received) < Len(frames) /\ pneed > 0
                     /\ pneed = Text(frames[Len(received) + 1]) - PacketHead
                     /\ ptaken = TextStart(Len(received) + 1) + PacketHead + poffset
                ELSE pneed = PacketHead /\ ptaken = TextStart(Len(received) + 1) + poffset

DataInv == kind = "data" => received = <<>> /\ poffset = 0

Missed == \E j \in 1 .. decoded : Between(blocks[j])
RingsInv ==
  /\ dring + MaxBytes <= Capacity
  /\ dring = RingStart(decoded + 1) \/ Missed
  /\ apart => Missed
  /\ rstat = "bad" => apart

Finished(k) == k < Len(frames) \/ ~InFrame
SendersInv ==
  \A s \in Senders :
    /\ st[s] = "idle" => \A k \in DOMAIN frames : frames[k].by # s
    /\ st[s] \in {"sending", "dropped"} =>
         \A k \in DOMAIN frames : frames[k].by = s =>
           ~Finished(k) \/ \E t \in Senders : <<t, s>> \in swapped
    /\ st[s] = "done" =>
         \/ \E k \in DOMAIN frames : frames[k].by = s /\ Finished(k)
         \/ \E t \in Senders : <<s, t>> \in swapped
    /\ \A i, j \in DOMAIN frames :
         i < j /\ frames[i].by = s /\ frames[j].by = s => \E t \in Senders : <<t, s>> \in swapped

ControlInv ==
  kind = "control" /\ StepsOver =>
    /\ compressed \in {0, Prefix + RsaKey}
    /\ \A j \in DOMAIN blocks : Width(blocks[j]) = Prefix + RsaKey
    /\ \A j \in 1 .. Len(blocks) + 1 : \E first \in {Handshake, 0}, i \in 0 .. Capacity - 1 :
         RingStart(j) = first + i * (Prefix + RsaKey)

IInv ==
  /\ Types /\ BlocksInv /\ FramesInv /\ EncoderInv /\ DecoderInv /\ OpeningInv
  /\ PacketInv /\ DataInv /\ RingsInv /\ SendersInv /\ ControlInv

-----------------------------------------------------------------------------
(* Starting points.                                                        *)

\* Where blocks start is in order, and the next one starts where the last one ends.
LEMMA BlockStarts ==
  ASSUME EncoderTypes, BlocksInv
  PROVE  /\ \A j \in 1 .. Len(blocks) + 1 :
              /\ BlockStart(j) \in Nat /\ BlockStart(j) <= BlockStart(Len(blocks) + 1)
              /\ WireStart(j) \in Nat /\ WireStart(j) <= WireStart(Len(blocks) + 1)
         /\ \A j \in DOMAIN blocks :
              /\ BlockStart(j + 1) = blocks[j].hi
              /\ WireStart(j + 1) = blocks[j].at + Prefix + blocks[j].size
              /\ blocks[j] \in Block
<1> DEFINE n == Len(blocks)
<1>1. n \in Nat /\ DOMAIN blocks = 1 .. n /\ \A j \in 1 .. n : blocks[j] \in Block
  BY DEF EncoderTypes
<1>2. \A j \in DOMAIN blocks : /\ BlockStart(j + 1) = blocks[j].hi
                              /\ WireStart(j + 1) = blocks[j].at + Prefix + blocks[j].size
  BY <1>1 DEF BlockStart, WireStart
<1>3. BlockStart(1) = 0 /\ WireStart(1) = 0
  BY DEF BlockStart, WireStart
<1>4. ASSUME NEW j \in 1 .. n + 1
      PROVE  /\ BlockStart(j) \in Nat /\ WireStart(j) \in Nat
             /\ BlockStart(j) <= BlockStart(n + 1) /\ WireStart(j) <= WireStart(n + 1)
  <2> SUFFICES ASSUME n # 0
               PROVE  /\ BlockStart(j) \in Nat /\ WireStart(j) \in Nat
                      /\ BlockStart(j) <= BlockStart(n + 1) /\ WireStart(j) <= WireStart(n + 1)
    BY <1>1, <1>3, <1>4
  <2> HIDE DEF n
  <2>1. /\ BlockStart(n + 1) = blocks[n].hi /\ WireStart(n + 1) = blocks[n].at + Prefix + blocks[n].size
        /\ blocks[n] \in Block
    BY <1>1, <1>2
  <2>2. CASE j = 1
    BY <2>1, <2>2, <1>1, <1>3, Lz4Assumption DEF Block
  <2>3. CASE j # 1
    <3>1. /\ j - 1 \in DOMAIN blocks /\ BlockStart(j) = blocks[j - 1].hi
          /\ WireStart(j) = blocks[j - 1].at + Prefix + blocks[j - 1].size
          /\ blocks[j - 1] \in Block
      BY <1>1, <1>2, <1>4, <2>3
    <3>2. CASE j = n + 1
      BY <3>1, <3>2, <2>1, <1>1, Lz4Assumption DEF Block
    <3>3. CASE j # n + 1
      <4>1. j - 1 < n /\ n \in DOMAIN blocks
        BY <1>1, <1>4, <3>3
      <4>2. /\ blocks[j - 1].hi <= blocks[n].lo /\ blocks[n].lo < blocks[n].hi
            /\ blocks[j - 1].at + Prefix + blocks[j - 1].size <= blocks[n].at
            /\ blocks[n].size \in Nat
        BY <4>1, <3>1, Lz4Assumption DEF BlocksInv
      <4> QED BY <4>2, <3>1, <2>1, Lz4Assumption DEF Block
    <3> QED BY <3>2, <3>3
  <2> QED BY <2>2, <2>3
<1> QED BY <1>1, <1>2, <1>4

\* The same of frames, in the stream and in the text.
LEMMA FrameStarts ==
  ASSUME SealingTypes, FramesInv
  PROVE  /\ \A k \in 1 .. Len(frames) + 1 :
              /\ FrameStart(k) \in Nat /\ FrameStart(k) <= FrameStart(Len(frames) + 1)
              /\ TextStart(k) \in Nat /\ TextStart(k) <= TextStart(Len(frames) + 1)
         /\ \A k \in DOMAIN frames :
              /\ FrameStart(k + 1) = frames[k].hi /\ TextStart(k + 1) = frames[k].phi
              /\ frames[k] \in FrameSet
         /\ FrameEnd = FrameStart(Len(frames) + 1) /\ TextEnd = TextStart(Len(frames) + 1)
         /\ FrameEnd \in Nat /\ TextEnd \in Nat
<1> DEFINE n == Len(frames)
<1>1. n \in Nat /\ DOMAIN frames = 1 .. n /\ \A k \in 1 .. n : frames[k] \in FrameSet
  BY DEF SealingTypes
<1>2. \A k \in DOMAIN frames : FrameStart(k + 1) = frames[k].hi /\ TextStart(k + 1) = frames[k].phi
  BY <1>1 DEF FrameStart, TextStart
<1>3. FrameStart(1) = 0 /\ TextStart(1) = 0
  BY DEF FrameStart, TextStart
<1>4. FrameEnd = FrameStart(n + 1) /\ TextEnd = TextStart(n + 1)
  <2>1. CASE n = 0
    <3>1. frames = <<>>
      BY <2>1 DEF SealingTypes
    <3> QED BY <3>1, <2>1, <1>3 DEF FrameEnd, TextEnd
  <2>2. CASE n # 0
    <3>1. frames # <<>> /\ n \in DOMAIN frames
      BY <2>2, <1>1
    <3> QED BY <3>1, <1>2 DEF FrameEnd, TextEnd, Last
  <2> QED BY <2>1, <2>2
<1>5. ASSUME NEW k \in 1 .. n + 1
      PROVE  /\ FrameStart(k) \in Nat /\ TextStart(k) \in Nat
             /\ FrameStart(k) <= FrameStart(n + 1) /\ TextStart(k) <= TextStart(n + 1)
  <2> HIDE DEF n
  <2>1. CASE k = 1 /\ n = 0
    BY <2>1, <1>3
  <2>2. CASE k = n + 1 /\ n # 0
    BY <2>2, <1>1, <1>2 DEF FrameSet
  <2>3. CASE k = 1 /\ n # 0
    <3>1. /\ n \in DOMAIN frames /\ frames[n] \in FrameSet
          /\ FrameStart(n + 1) = frames[n].hi /\ TextStart(n + 1) = frames[n].phi
      BY <2>3, <1>1, <1>2
    <3> QED BY <3>1, <2>3, <1>3 DEF FrameSet
  <2>4. CASE k # 1 /\ k # n + 1
    <3>1. /\ k - 1 \in DOMAIN frames /\ n \in DOMAIN frames /\ k - 1 < n
          /\ FrameStart(k) = frames[k - 1].hi /\ TextStart(k) = frames[k - 1].phi
          /\ FrameStart(n + 1) = frames[n].hi /\ TextStart(n + 1) = frames[n].phi
          /\ frames[k - 1] \in FrameSet /\ frames[n] \in FrameSet
      BY <1>1, <1>2, <1>5, <2>4
    <3>2. /\ frames[k - 1].hi <= frames[n].lo /\ frames[n].lo + Prefix < frames[n].hi
          /\ frames[k - 1].phi <= frames[n].plo /\ frames[n].plo + PacketHead <= frames[n].phi
      BY <3>1 DEF FramesInv
    <3> QED BY <3>1, <3>2, Lz4Assumption, PacketsAssumption DEF FrameSet
  <2> QED BY <2>1, <2>2, <2>3, <2>4
<1>6. n + 1 \in 1 .. n + 1
  BY <1>1
<1> QED BY <1>1, <1>2, <1>4, <1>5, <1>6

\* What a block that is appended leaves as it was.
LEMMA BlockAppended ==
  ASSUME EncoderTypes, NEW b \in Block, blocks' = Append(blocks, b),
         b.ring = RingStart(Len(blocks) + 1), ering = RingStart(Len(blocks) + 1)
  PROVE  /\ blocks' \in Seq(Block) /\ Len(blocks') = Len(blocks) + 1
         /\ DOMAIN blocks' = 1 .. Len(blocks) + 1
         /\ blocks'[Len(blocks) + 1] = b
         /\ \A j \in DOMAIN blocks : blocks'[j] = blocks[j]
         /\ \A j \in 1 .. Len(blocks) + 1 :
              BlockStart(j)' = BlockStart(j) /\ WireStart(j)' = WireStart(j)
              /\ RingStart(j)' = RingStart(j)
         /\ BlockStart(Len(blocks) + 1)' = b.hi
         /\ WireStart(Len(blocks) + 1)' = b.at + Prefix + b.size
         /\ RingStart(Len(blocks) + 1)' = Advance(b.ring, Width(b), MaxBytes)
<1> DEFINE n == Len(blocks)
<1>1. /\ blocks' \in Seq(Block) /\ Len(blocks') = n + 1 /\ DOMAIN blocks' = 1 .. n + 1
      /\ blocks'[n + 1] = b /\ \A j \in DOMAIN blocks : blocks'[j] = blocks[j]
      /\ n \in Nat
  BY DEF EncoderTypes
<1>2. \A j \in 1 .. n + 1 : BlockStart(j)' = BlockStart(j) /\ WireStart(j)' = WireStart(j)
                            /\ RingStart(j)' = RingStart(j)
  <2>1. FirstRing' = FirstRing
    <3>1. CASE blocks = <<>>
      BY <3>1, <1>1 DEF FirstRing
    <3>2. CASE blocks # <<>>
      <4>1. 1 \in DOMAIN blocks /\ blocks' # <<>>
        BY <3>2, <1>1 DEF EncoderTypes
      <4> QED BY <4>1, <3>2, <1>1 DEF FirstRing
    <3> QED BY <3>1, <3>2
  <2> SUFFICES ASSUME NEW j \in 1 .. n + 1, j # 1
               PROVE  BlockStart(j)' = BlockStart(j) /\ WireStart(j)' = WireStart(j)
                      /\ RingStart(j)' = RingStart(j)
    BY <2>1 DEF BlockStart, WireStart, RingStart
  <2>2. blocks'[j - 1] = blocks[j - 1]
    BY <1>1 DEF EncoderTypes
  <2> QED BY <2>2 DEF BlockStart, WireStart, RingStart, Advance, Width
<1>3. /\ BlockStart(n + 1)' = b.hi /\ WireStart(n + 1)' = b.at + Prefix + b.size
      /\ RingStart(n + 1)' = Advance(b.ring, Width(b), MaxBytes)
  BY <1>1 DEF BlockStart, WireStart, RingStart, Advance, Width
<1> QED BY <1>1, <1>2, <1>3

\* A frame that is appended moves no other.
LEMMA FrameAppended ==
  ASSUME SealingTypes, NEW f \in FrameSet, frames' = Append(frames, f)
  PROVE  /\ frames' \in Seq(FrameSet) /\ Len(frames') = Len(frames) + 1
         /\ DOMAIN frames' = 1 .. Len(frames) + 1
         /\ frames'[Len(frames) + 1] = f
         /\ \A k \in DOMAIN frames : frames'[k] = frames[k]
         /\ \A k \in 1 .. Len(frames) + 1 :
              FrameStart(k)' = FrameStart(k) /\ TextStart(k)' = TextStart(k)
         /\ FrameStart(Len(frames) + 1)' = f.hi /\ TextStart(Len(frames) + 1)' = f.phi
<1> DEFINE n == Len(frames)
<1>1. /\ frames' \in Seq(FrameSet) /\ Len(frames') = n + 1 /\ DOMAIN frames' = 1 .. n + 1
      /\ frames'[n + 1] = f /\ \A k \in DOMAIN frames : frames'[k] = frames[k]
      /\ n \in Nat
  BY DEF SealingTypes
<1>2. \A k \in 1 .. n + 1 : FrameStart(k)' = FrameStart(k) /\ TextStart(k)' = TextStart(k)
  <2> SUFFICES ASSUME NEW k \in 1 .. n + 1, k # 1
               PROVE  FrameStart(k)' = FrameStart(k) /\ TextStart(k)' = TextStart(k)
    BY DEF FrameStart, TextStart
  <2>1. frames'[k - 1] = frames[k - 1]
    BY <1>1 DEF SealingTypes
  <2> QED BY <2>1 DEF FrameStart, TextStart
<1>3. FrameStart(n + 1)' = f.hi /\ TextStart(n + 1)' = f.phi
  BY <1>1 DEF FrameStart, TextStart
<1> QED BY <1>1, <1>2, <1>3

-----------------------------------------------------------------------------
(* What each part of the invariant depends on.                             *)

\* The blocks, as long as none is added.
LEMMA BlocksKept == BlocksInv /\ UNCHANGED <<blocks, ering>> => BlocksInv'
  BY DEF BlocksInv, BlockStart, WireStart, RingStart, FirstRing, Advance, Width

\* The frames, as long as none is added.
LEMMA FramesKept == FramesInv /\ UNCHANGED <<kind, frames>> => FramesInv'
  BY DEF FramesInv, FrameStart, TextStart, Width

\* How far the encoder is, as long as nobody writes.
LEMMA EncoderKept ==
  EncoderInv /\ UNCHANGED <<blocks, ebuf, woffset, compressed, sent, frames, pending, turn>>
    /\ (turn # NoSender => st'[turn] = st[turn]) => EncoderInv'
  BY DEF EncoderInv, InFrame, BlockStart, WireStart, FrameStart, Width

\* Where the decoder is, as long as nothing is read or written below.
LEMMA DecoderKept == DecoderInv /\ UNCHANGED <<blocks, sent, decoder>> => DecoderInv'
  BY DEF DecoderInv, decoder, BlockStart, WireStart

\* Where the cipher is, as long as it reads nothing.
LEMMA OpeningKept == OpeningInv /\ UNCHANGED <<frames, taken, opening>> => OpeningInv'
  BY DEF OpeningInv, opening, FrameStart, TextStart, Width

\* Where the packet is, as long as no text is read.
LEMMA PacketKept ==
  PacketInv /\ UNCHANGED <<kind, frames, ptaken, pbody, poffset, pneed, received>> => PacketInv'
  BY DEF PacketInv, TextStart, Text

\* A data connection has no packets.
LEMMA DataKept == DataInv /\ UNCHANGED <<kind, poffset, received>> => DataInv'
  BY DEF DataInv

\* The rings, as long as neither moves.
LEMMA RingsKept ==
  RingsInv /\ UNCHANGED <<blocks, ering, dring, decoded, apart, rstat>> => RingsInv'
  BY DEF RingsInv, RingStart, FirstRing, Missed, Between, Advance, Width

\* What senders have sent, as long as none of them moves.
LEMMA SendersKept ==
  SendersInv /\ UNCHANGED <<frames, pending, st, turn, swapped>> => SendersInv'
<1> SUFFICES ASSUME SendersInv, UNCHANGED <<frames, pending, st, turn, swapped>>
             PROVE  SendersInv'
  OBVIOUS
<1>1. \A k : Finished(k)' <=> Finished(k)
  BY DEF Finished, InFrame
<1>2. frames' = frames /\ st' = st /\ swapped' = swapped
  OBVIOUS
<1> QED BY <1>1, <1>2, Zenon DEF SendersInv

\* The shape of the blocks of a control connection.
LEMMA ControlKept == ControlInv /\ UNCHANGED <<kind, compressed, blocks, ering>> => ControlInv'
  BY DEF ControlInv, StepsOver, RingStart, FirstRing, Advance, Width

-----------------------------------------------------------------------------
(* Types.                                                                  *)

\* The last element of a sequence that has one.
LEMMA LastTyped ==
  ASSUME NEW S, NEW q \in Seq(S), q # <<>>
  PROVE  Len(q) \in DOMAIN q /\ Last(q) \in S /\ Last(q) = q[Len(q)]
  BY DEF Last

\* Nothing is written or read at first.
LEMMA InitIInv == Init => IInv
<1> SUFFICES ASSUME Init PROVE IInv
  OBVIOUS
<1> USE Lz4Assumption, CipherAssumption, PacketsAssumption
<1>0. PICK o \in Preface : Lz4Init(o)
  BY DEF Init
<1>0a. /\ o \in Nat /\ o < Capacity - Bound /\ o + MaxBytes <= Capacity
       /\ kind = "control" => o \in {Handshake, Handshake + 2 * RsaFrame}
  <2>1. /\ Prefix \in Nat /\ KeyDer \in Nat /\ RsaKey \in Nat /\ Capacity \in Nat /\ Bound \in Nat
        /\ MaxBytes \in Nat /\ MaxBytes <= Bound /\ Bound < Capacity
        /\ Prefix + KeyDer + 2 * (Prefix + RsaKey) < Capacity - Bound
    OBVIOUS
  <2>2. o \in {0, Handshake, Handshake + 2 * RsaFrame}
    BY DEF Preface
  <2>3. kind = "control" => o \in {Handshake, Handshake + 2 * RsaFrame}
    BY DEF Preface
  <2> QED BY ONLY <2>1, <2>2, <2>3 DEF Handshake, RsaFrame
<1>0b. /\ blocks = <<>> /\ ebuf = FALSE /\ woffset = 0 /\ compressed = 0 /\ ering = o /\ sent = 0
       /\ got = 0 /\ taken = 0 /\ decoded = 0 /\ dinit = FALSE /\ dneed = Prefix
       /\ doffset = 0 /\ dring = o /\ rbuf = [lo |-> 0, hi |-> 0] /\ apart = FALSE
  BY <1>0 DEF Lz4Init, Upto
<1>0c. RingStart(1) = o
  BY <1>0b DEF RingStart, FirstRing
<1> USE <1>0 DEF Init, Lz4Init, CipherInit, Upto
<1>1. Types
  <2> HIDE DEF Init, Lz4Init, CipherInit, Upto
  <2>0. <<>> \in Seq(Block) /\ <<>> \in Seq(FrameSet) /\ <<>> \in Seq(Senders)
    OBVIOUS
  <2>1. EncoderTypes
    BY <2>0, <1>0a, <1>0b DEF EncoderTypes
  <2>2. DecoderTypes
    BY <1>0a, <1>0b DEF DecoderTypes, Interval
  <2>3. SealingTypes
    <3>1. kind \in Kinds /\ frames = <<>> /\ pending = FALSE
      BY DEF Init, CipherInit
    <3> QED BY <2>0, <3>1 DEF SealingTypes
  <2>4. OpeningTypes
    <3>1. /\ cinit = FALSE /\ rpos = 0 /\ cneed = Prefix
          /\ cache = [lo |-> 0, hi |-> 0] /\ ptaken = 0 /\ opened = 0
      BY DEF Init, CipherInit, Upto
    <3> QED BY <3>1 DEF OpeningTypes, Interval
  <2>5. WriterTypes
    BY DEF Init, WriterTypes
  <2>6. ReceiverTypes
    <3>1. pbody = FALSE /\ poffset = 0 /\ pneed = PacketHead /\ received = <<>> /\ rstat = "open"
      BY DEF Init
    <3> QED BY <2>0, <3>1 DEF ReceiverTypes
  <2> QED BY <2>1, <2>2, <2>3, <2>4, <2>5, <2>6 DEF Types
<1>2. BlocksInv
  BY <1>0a, <1>0b, <1>0c DEF BlocksInv
<1>3. FramesInv
  BY DEF FramesInv
<1>4. EncoderInv
  BY DEF EncoderInv, InFrame, BlockStart, WireStart, FrameStart
<1>5. DecoderInv
  BY DEF DecoderInv, BlockStart, WireStart
<1>6. OpeningInv
  BY DEF OpeningInv, FrameStart, TextStart
<1>7. PacketInv /\ DataInv
  BY DEF PacketInv, DataInv, TextStart
<1>8. RingsInv
  BY <1>0a, <1>0b, <1>0c DEF RingsInv
<1>9. SendersInv
  BY DEF SendersInv
<1>10. ControlInv
  <2> SUFFICES ASSUME kind = "control", StepsOver PROVE ControlInv
    BY DEF ControlInv
  <2> DEFINE L == Prefix + RsaKey
  <2>1. /\ RingStart(1) = o /\ blocks = <<>> /\ compressed = 0
        /\ o \in {Handshake, Handshake + 2 * RsaFrame}
    BY <1>0a, <1>0b, <1>0c
  <2>2. L \in Nat \ {0} /\ RsaFrame = L /\ 2 * L >= 2 /\ 0 * L = 0
    BY DEF RsaFrame
  <2>3. 0 \in 0 .. Capacity - 1 /\ 2 \in 0 .. Capacity - 1
    <3>1. Prefix + KeyDer + 2 * (Prefix + RsaKey) < Capacity - Bound
      OBVIOUS
    <3>2. 2 < Capacity
      BY <3>1
    <3> QED BY <3>2
  <2>4. Handshake \in Nat
    BY DEF Handshake
  <2> HIDE DEF L
  <2>5. RingStart(1) = Handshake + 0 * L \/ RingStart(1) = Handshake + 2 * L
    BY <2>1, <2>2, <2>4
  <2>6. \E first \in {Handshake, 0}, i \in 0 .. Capacity - 1 : RingStart(1) = first + i * L
    BY <2>3, <2>5
  <2>7. 1 .. Len(blocks) + 1 = {1} /\ DOMAIN blocks = {}
    BY <2>1
  <2> QED BY <2>1, <2>6, <2>7 DEF ControlInv, L
<1> QED BY <1>1, <1>2, <1>3, <1>4, <1>5, <1>6, <1>7, <1>8, <1>9, <1>10 DEF IInv

-----------------------------------------------------------------------------
(* Steps of the writers.                                                   *)

\* A step that touches neither the blocks nor anything of the reader.
LEMMA ReaderKept ==
  ASSUME IInv, UNCHANGED <<lz4, kind, frames, opening, receiver>>
  PROVE  /\ BlocksInv' /\ FramesInv' /\ DecoderInv' /\ OpeningInv' /\ PacketInv' /\ DataInv'
         /\ RingsInv' /\ ControlInv'
         /\ EncoderTypes' /\ DecoderTypes' /\ OpeningTypes' /\ ReceiverTypes'
<1>1. /\ UNCHANGED <<blocks, ebuf, woffset, compressed, ering, sent>> /\ UNCHANGED decoder
      /\ UNCHANGED <<got, dinit, dneed, doffset, dring, rbuf, taken, decoded, apart>>
      /\ UNCHANGED <<kind, frames, opening, cinit, rpos, cneed, cache, ptaken, opened>>
      /\ UNCHANGED <<pbody, poffset, pneed, received, rstat>>
  BY DEF lz4, encoder, decoder, opening, receiver
<1>2. BlocksInv' /\ FramesInv' /\ DecoderInv' /\ OpeningInv'
  BY <1>1, BlocksKept, FramesKept, DecoderKept, OpeningKept DEF IInv
<1>3. PacketInv' /\ DataInv' /\ RingsInv' /\ ControlInv'
  BY <1>1, PacketKept, DataKept, RingsKept, ControlKept DEF IInv
<1>4. EncoderTypes' /\ DecoderTypes'
  BY <1>1 DEF IInv, Types, EncoderTypes, DecoderTypes
<1>5. OpeningTypes' /\ ReceiverTypes'
  BY <1>1 DEF IInv, Types, OpeningTypes, ReceiverTypes
<1> QED BY <1>2, <1>3, <1>4, <1>5

\* A sender that finds a frame left over is at that frame, or in the way of its owner.
LEMMA StepPollPending ==
  ASSUME IInv, NEW s \in Senders, PollPending(s)
  PROVE  IInv'
<1>1. UNCHANGED <<lz4, kind, frames, opening, receiver>>
  BY DEF PollPending
<1>2. /\ turn = NoSender /\ turn' = s /\ s # NoSender /\ st[s] \in {"idle", "sending"}
      /\ st' = [st EXCEPT ![s] = "sending"] /\ pending /\ pending' = FALSE
      /\ UNCHANGED <<len, swapped, closed>>
  BY PacketsAssumption DEF PollPending, MayPoll, Enter
<1>3. WriterTypes'
  BY <1>2 DEF IInv, Types, WriterTypes
<1>4. SealingTypes'
  BY <1>1, <1>2 DEF IInv, Types, SealingTypes
<1>5. InFrame /\ InFrame'
  BY <1>2 DEF InFrame
<1>6. EncoderInv'
  <2>1. UNCHANGED <<blocks, ebuf, woffset, compressed, sent, frames>>
    BY <1>1 DEF lz4, encoder
  <2>2. st'[turn'] = "sending"
    BY <1>2 DEF IInv, Types, WriterTypes
  <2> QED BY <1>2, <1>5, <2>1, <2>2 DEF IInv, EncoderInv, BlockStart, WireStart, FrameStart, Width
<1>7. SendersInv'
  <2> SUFFICES ASSUME NEW t \in Senders
               PROVE  SendersInv!(t)'
    BY DEF SendersInv
  <2>1. frames' = frames /\ swapped' = swapped /\ (\A k : Finished(k)' <=> Finished(k))
    BY <1>1, <1>2, <1>5 DEF Finished
  <2>2. SendersInv!(t)
    BY DEF IInv, SendersInv
  <2>3. CASE t # s
    <3>1. st'[t] = st[t]
      BY <1>2, <2>3 DEF IInv, Types, WriterTypes
    <3> QED BY <2>1, <2>2, <3>1, Zenon
  <2>4. CASE t = s
    <3>1. st'[t] = "sending" /\ st[t] \in {"idle", "sending"}
      BY <1>2, <2>4 DEF IInv, Types, WriterTypes
    <3> QED BY <2>1, <2>2, <3>1
  <2> QED BY <2>3, <2>4
<1> QED BY <1>1, <1>3, <1>4, <1>6, <1>7, ReaderKept DEF IInv, Types

\* A frame that is not finished is left over, whole as it was.
LEMMA StepPend ==
  ASSUME IInv, Pend
  PROVE  IInv'
<1>1. UNCHANGED <<lz4, kind, frames, opening, receiver>>
  BY DEF Pend
<1>2. turn # NoSender /\ turn' = NoSender /\ pending' = TRUE /\ UNCHANGED <<len, st, swapped, closed>>
  BY DEF Pend
<1>3. WriterTypes' /\ SealingTypes'
  BY <1>1, <1>2 DEF IInv, Types, WriterTypes, SealingTypes
<1>5. InFrame /\ InFrame'
  BY <1>2 DEF InFrame
<1>6. EncoderInv'
  <2>1. UNCHANGED <<blocks, ebuf, woffset, compressed, sent, frames>>
    BY <1>1 DEF lz4, encoder
  <2> QED BY <1>2, <1>5, <2>1 DEF IInv, EncoderInv, BlockStart, WireStart, FrameStart, Width
<1>7. SendersInv'
  <2>1. frames' = frames /\ swapped' = swapped /\ st' = st /\ (\A k : Finished(k)' <=> Finished(k))
    BY <1>1, <1>2, <1>5 DEF Finished
  <2> QED BY <2>1, Zenon DEF IInv, SendersInv
<1> QED BY <1>1, <1>3, <1>6, <1>7, ReaderKept DEF IInv, Types

\* Senders that end without a frame being touched.
LEMMA StepEnds ==
  ASSUME IInv, (\E s \in Senders : PollRefused(s) \/ Drop(s)) \/ Close
  PROVE  IInv'
<1>1. UNCHANGED <<lz4, kind, frames, opening, receiver>>
  BY DEF PollRefused, Drop, Close, cipher, sealing
<1>2. turn = NoSender /\ UNCHANGED <<turn, pending, len, swapped>> /\ closed' \in BOOLEAN
  BY DEF PollRefused, Drop, Close, cipher, sealing, MayPoll, IInv, Types, WriterTypes
<1>3. \/ UNCHANGED st
      \/ \E s \in Senders : st' = [st EXCEPT ![s] = "failed"]
      \/ \E s \in Senders : st[s] = "sending" /\ st' = [st EXCEPT ![s] = "dropped"]
  BY DEF PollRefused, Drop, Close
<1>4. WriterTypes' /\ SealingTypes'
  BY <1>1, <1>2, <1>3 DEF IInv, Types, WriterTypes, SealingTypes
<1>5. EncoderInv'
  <2>1. UNCHANGED <<blocks, ebuf, woffset, compressed, sent, frames, pending, turn>>
    BY <1>1, <1>2 DEF lz4, encoder
  <2> QED BY <1>2, <2>1, EncoderKept DEF IInv
<1>6. SendersInv'
  <2> SUFFICES ASSUME NEW t \in Senders
               PROVE  SendersInv!(t)'
    BY DEF SendersInv
  <2>1. frames' = frames /\ swapped' = swapped /\ (\A k : Finished(k)' <=> Finished(k))
    BY <1>1, <1>2 DEF Finished, InFrame
  <2>2. SendersInv!(t)
    BY DEF IInv, SendersInv
  <2>3. \/ st'[t] = st[t] \/ st'[t] = "failed" \/ (st[t] = "sending" /\ st'[t] = "dropped")
    BY <1>3 DEF IInv, Types, WriterTypes
  <2>4. CASE st'[t] = st[t]
    BY <2>1, <2>2, <2>4, Zenon
  <2>5. CASE st'[t] = "failed"
    BY <2>1, <2>2, <2>5
  <2>6. CASE st[t] = "sending" /\ st'[t] = "dropped"
    BY <2>1, <2>2, <2>6
  <2> QED BY <2>3, <2>4, <2>5, <2>6
<1> QED BY <1>1, <1>4, <1>5, <1>6, ReaderKept DEF IInv, Types

\* AES pads to a positive multiple of its block.
LEMMA AesLength ==
  ASSUME NEW n \in Nat, NEW b \in Nat \ {0}
  PROVE  (n \div b + 1) * b \in Nat \ {0}
<1>1. n \div b \in Nat
  OBVIOUS
<1>2. \A c \in Nat : (c + 1) * b \in Nat /\ (c + 1) * b >= b
  OBVIOUS
<1> QED BY <1>1, <1>2

\* The frame that is appended, whichever cipher made it.
LEMMA FreshFrame ==
  ASSUME IInv, NEW s \in Senders, PollFresh(s)
  PROVE  \E f \in FrameSet :
           /\ frames' = Append(frames, f) /\ f.by = s
           /\ f.lo = FrameEnd /\ f.lo + Prefix < f.hi
           /\ f.plo = TextEnd /\ f.plo + PacketHead <= f.phi
           /\ kind = "control" => Width(f) = Prefix + RsaKey
<1>1. len[s] \in Nat /\ len[s] >= PacketHead
  BY PacketsAssumption DEF IInv, Types, WriterTypes
<1>2. FrameEnd \in Nat /\ TextEnd \in Nat
  BY FrameStarts DEF IInv, Types
<1>3. \E length \in Nat \ {0} : Seal(s, len[s], length) /\ (kind = "control" => length = RsaKey)
  BY <1>1, AesLength, CipherAssumption DEF PollFresh, RsaEncrypt, AesEncrypt
<1>4. PICK length \in Nat \ {0} : Seal(s, len[s], length) /\ (kind = "control" => length = RsaKey)
  BY <1>3
<1> DEFINE f == [by |-> s, lo |-> FrameEnd, hi |-> FrameEnd + Prefix + length,
                 plo |-> TextEnd, phi |-> TextEnd + len[s]]
<1>5. f \in FrameSet /\ frames' = Append(frames, f)
  BY <1>1, <1>2, <1>4, Lz4Assumption DEF FrameSet, Seal
<1>6. /\ f.by = s /\ f.lo = FrameEnd /\ f.lo + Prefix < f.hi
      /\ f.plo = TextEnd /\ f.plo + PacketHead <= f.phi
      /\ Width(f) = Prefix + length
  BY <1>1, <1>2, <1>4, Lz4Assumption, PacketsAssumption DEF Width
<1> HIDE DEF f
<1> QED BY <1>4, <1>5, <1>6

\* A new frame lies behind the others and is of the sender that polls.
LEMMA StepPollFresh ==
  ASSUME IInv, NEW s \in Senders, PollFresh(s)
  PROVE  IInv'
<1> DEFINE n == Len(frames)
<1>1. PICK f \in FrameSet :
        /\ frames' = Append(frames, f) /\ f.by = s
        /\ f.lo = FrameEnd /\ f.lo + Prefix < f.hi
        /\ f.plo = TextEnd /\ f.plo + PacketHead <= f.phi
        /\ kind = "control" => Width(f) = Prefix + RsaKey
  BY FreshFrame
<1>2. /\ UNCHANGED <<lz4, kind, pending, opening, len, swapped, closed, receiver>>
      /\ turn = NoSender /\ turn' = s /\ s # NoSender /\ ~pending
      /\ st[s] \in {"idle", "sending"} /\ st' = [st EXCEPT ![s] = "sending"]
  BY PacketsAssumption DEF PollFresh, MayPoll, Enter
<1>3. /\ UNCHANGED <<blocks, ebuf, woffset, compressed, ering, sent>> /\ UNCHANGED decoder
      /\ UNCHANGED <<got, dinit, dneed, doffset, dring, rbuf, taken, decoded, apart>>
      /\ UNCHANGED <<cinit, rpos, cneed, cache, ptaken, opened>>
      /\ UNCHANGED <<pbody, poffset, pneed, received, rstat>>
  BY <1>2 DEF lz4, encoder, decoder, opening, receiver
<1>4. /\ frames' \in Seq(FrameSet) /\ Len(frames') = n + 1 /\ DOMAIN frames' = 1 .. n + 1
      /\ frames'[n + 1] = f /\ n \in Nat /\ DOMAIN frames = 1 .. n
      /\ \A k \in 1 .. n : frames'[k] = frames[k] /\ frames[k] \in FrameSet
      /\ \A k \in 1 .. n + 1 : FrameStart(k)' = FrameStart(k) /\ TextStart(k)' = TextStart(k)
  BY <1>1, FrameAppended DEF IInv, Types, SealingTypes
<1>5. FrameEnd = FrameStart(n + 1) /\ TextEnd = TextStart(n + 1)
  BY FrameStarts DEF IInv, Types
<1> HIDE DEF n
<1>6. Types'
  <2>1. EncoderTypes' /\ DecoderTypes'
    BY <1>3 DEF IInv, Types, EncoderTypes, DecoderTypes
  <2>2. OpeningTypes' /\ ReceiverTypes'
    BY <1>3 DEF IInv, Types, OpeningTypes, ReceiverTypes
  <2>3. SealingTypes'
    BY <1>2, <1>4 DEF IInv, Types, SealingTypes
  <2>4. WriterTypes'
    BY <1>2 DEF IInv, Types, WriterTypes
  <2> QED BY <2>1, <2>2, <2>3, <2>4 DEF Types
<1>7. BlocksInv' /\ DecoderInv' /\ RingsInv' /\ DataInv' /\ ControlInv'
  BY <1>2, <1>3, BlocksKept, DecoderKept, RingsKept, DataKept, ControlKept DEF IInv
<1>8. FramesInv'
  <2>1. ASSUME NEW k \in 1 .. n + 1
        PROVE  /\ frames'[k].lo = FrameStart(k) /\ frames'[k].plo = TextStart(k)
               /\ frames'[k].lo + Prefix < frames'[k].hi
               /\ frames'[k].plo + PacketHead <= frames'[k].phi
               /\ kind = "control" => Width(frames'[k]) = Prefix + RsaKey
    <3>1. CASE k = n + 1
      BY <3>1, <1>1, <1>4, <1>5
    <3>2. CASE k # n + 1
      BY <3>2, <1>4 DEF IInv, FramesInv
    <3> QED BY <3>1, <3>2
  <2>2. ASSUME NEW i \in 1 .. n + 1, NEW j \in 1 .. n + 1, i < j
        PROVE  frames'[i].hi <= frames'[j].lo /\ frames'[i].phi <= frames'[j].plo
    <3>1. i \in 1 .. n /\ frames'[i] = frames[i]
      BY <2>2, <1>4
    <3>2. CASE j = n + 1
      <4>1. frames[i].hi = FrameStart(i + 1) /\ frames[i].phi = TextStart(i + 1) /\ i + 1 \in 1 .. n + 1
        BY <3>1, <1>4, FrameStarts DEF IInv, Types
      <4>2. FrameStart(i + 1) <= FrameStart(n + 1) /\ TextStart(i + 1) <= TextStart(n + 1)
        BY <4>1, FrameStarts DEF IInv, Types, n
      <4> QED BY <4>1, <4>2, <3>1, <3>2, <1>1, <1>4, <1>5
    <3>3. CASE j # n + 1
      BY <3>1, <3>3, <2>2, <1>4 DEF IInv, FramesInv
    <3> QED BY <3>2, <3>3
  <2>3. \A k \in 1 .. n + 1 : FrameStart(k)' = FrameStart(k) /\ TextStart(k)' = TextStart(k)
    BY <1>4
  <2> QED BY <2>1, <2>2, <2>3, <1>2, <1>4 DEF FramesInv, Width
<1>9. EncoderInv'
  <2>1. ~InFrame /\ InFrame' /\ st'[s] = "sending"
    BY <1>2 DEF InFrame, IInv, Types, WriterTypes
  <2>2. ~ebuf /\ compressed = 0 /\ woffset = 0 /\ BlockStart(Len(blocks) + 1) = f.lo
        /\ sent = WireStart(Len(blocks) + 1)
    BY <2>1, <1>1, <1>5 DEF IInv, EncoderInv, n
  <2>3. frames' # <<>> /\ frames'[Len(frames')] = f /\ f.lo \in Nat /\ f.hi \in Nat /\ f.lo < f.hi
    <3>1. frames' # <<>> /\ frames'[Len(frames')] = f
      BY <1>4
    <3>2. f.lo \in Nat /\ f.hi \in Nat /\ f.lo + Prefix < f.hi /\ Prefix \in Nat
      BY <1>1, Lz4Assumption DEF FrameSet
    <3> QED BY <3>1, <3>2
  <2>4. BlockStart(Len(blocks) + 1)' = f.lo /\ (WireStart(Len(blocks) + 1))' = sent
    BY <2>2, <1>3 DEF BlockStart, WireStart
  <2> QED BY <1>2, <1>3, <2>1, <2>2, <2>3, <2>4 DEF EncoderInv, Width
<1>10. OpeningInv'
  <2>1. opened \in Nat /\ opened <= n
    BY DEF IInv, Types, OpeningTypes, OpeningInv, n
  <2>2. FrameStart(opened + 1)' = FrameStart(opened + 1) /\ TextStart(opened + 1)' = TextStart(opened + 1)
    BY <2>1, <1>3, <1>4 DEF FrameStart, TextStart
  <2>3. opened < n => frames'[opened + 1] = frames[opened + 1]
    BY <2>1, <1>4
  <2> QED BY <2>1, <2>2, <2>3, <1>3, <1>4 DEF IInv, OpeningInv, Width, n
<1>11. PacketInv'
  <2>1. SUFFICES ASSUME kind = "control" PROVE PacketInv'
    BY <1>2 DEF PacketInv
  <2>2. Len(received) \in Nat /\ Len(received) <= n /\ DOMAIN received = 1 .. Len(received)
    BY <2>1 DEF IInv, Types, ReceiverTypes, PacketInv, n
  <2>3. TextStart(Len(received) + 1)' = TextStart(Len(received) + 1)
    BY <2>2, <1>3, <1>4 DEF TextStart
  <2>4. Len(received) < n => frames'[Len(received) + 1] = frames[Len(received) + 1]
    BY <2>2, <1>4
  <2>5. \A i \in DOMAIN received : frames'[i] = frames[i]
    BY <2>2, <1>4
  <2> QED BY <2>1, <2>2, <2>3, <2>4, <2>5, <1>2, <1>3, <1>4 DEF IInv, PacketInv, Text, n
<1>12. SendersInv'
  <2>1. ~InFrame /\ InFrame'
    BY <1>2 DEF InFrame
  <2>2. \A k \in 1 .. n : Finished(k) /\ Finished(k)'
    BY <2>1, <1>4 DEF Finished
  <2>3. \A k \in DOMAIN frames' : k = n + 1 => ~(Finished(k)')
    BY <2>1, <1>4 DEF Finished
  <2> SUFFICES ASSUME NEW t \in Senders
               PROVE  SendersInv!(t)'
    BY DEF SendersInv
  <2>4. SendersInv!(t)
    BY DEF IInv, SendersInv
  <2>5. CASE t # s
    <3>1. st'[t] = st[t] /\ \A k \in DOMAIN frames' : frames'[k].by = t => k \in 1 .. n
      BY <1>1, <1>2, <1>4, <2>5 DEF IInv, Types, WriterTypes
    <3> QED BY <3>1, <2>2, <2>4, <1>2, <1>4
  <2>6. CASE t = s
    <3>1. st'[s] = "sending"
      BY <1>2 DEF IInv, Types, WriterTypes
    <3>2. \A k \in 1 .. n : frames[k].by = s => \E u \in Senders : <<u, s>> \in swapped
      BY <2>2, <2>4, <2>6, <1>2, <1>4
    <3>3. ASSUME NEW k \in DOMAIN frames', frames'[k].by = s
          PROVE  ~(Finished(k)') \/ \E u \in Senders : <<u, s>> \in swapped'
      <4>1. CASE k = n + 1
        BY <4>1, <2>3
      <4>2. CASE k # n + 1
        <5>1. k \in 1 .. n /\ frames[k].by = s
          BY <4>2, <3>3, <1>4
        <5> QED BY <5>1, <3>2, <1>2
      <4> QED BY <4>1, <4>2
    <3>4. ASSUME NEW i \in DOMAIN frames', NEW j \in DOMAIN frames', i < j, frames'[i].by = s
          PROVE  \E u \in Senders : <<u, s>> \in swapped'
      BY <3>2, <3>4, <1>2, <1>4
    <3> QED BY <3>1, <3>3, <3>4, <2>6
  <2> QED BY <2>5, <2>6
<1> QED BY <1>6, <1>7, <1>8, <1>9, <1>10, <1>11, <1>12 DEF IInv

\* Multiples grow with their factor.
LEMMA Multiples ==
  ASSUME NEW i \in Nat, NEW l \in Nat \ {0}
  PROVE  i * l \in Nat /\ (i + 1) * l = i * l + l /\ i <= i * l
  OBVIOUS

\* The block that is appended.
LEMMA NextBlock ==
  ASSUME IInv, Compress
  PROVE  \E b \in Block :
           /\ blocks' = Append(blocks, b)
           /\ b.lo = BlockStart(Len(blocks) + 1) /\ b.at = WireStart(Len(blocks) + 1)
           /\ b.ring = RingStart(Len(blocks) + 1) /\ b.size \in 1 .. Bound
           /\ b.lo < b.hi /\ Width(b) = Least(MaxBytes, Width(Frame) - compressed)
           /\ Width(b) <= MaxBytes
           /\ compressed' = compressed + Width(b) /\ compressed' <= Width(Frame)
           /\ ering' = Advance(ering, Width(b), MaxBytes)
           /\ b.hi = Frame.lo + compressed'
<1> DEFINE w == Least(MaxBytes, Width(Frame) - compressed)
<1>1. ~ebuf /\ InFrame
  BY DEF Compress, Encode, InFrame
<1>2. frames # <<>>
  BY <1>1 DEF IInv, EncoderInv
<1>3. Frame \in FrameSet /\ Frame = frames[Len(frames)]
  BY <1>2, LastTyped DEF IInv, Types, SealingTypes, Frame
<1>4. /\ Frame.lo + compressed = BlockStart(Len(blocks) + 1) /\ compressed < Width(Frame)
      /\ sent = WireStart(Len(blocks) + 1) /\ ering = RingStart(Len(blocks) + 1)
  BY <1>1, <1>3 DEF IInv, EncoderInv, BlocksInv
<1>5. PICK size \in Sizes :
        blocks' = Append(blocks, [lo |-> Frame.lo + compressed, hi |-> Frame.lo + compressed + w,
                                  ring |-> ering, at |-> sent, size |-> size])
  BY DEF Compress, Encode
<1>6. compressed \in Nat /\ ering \in Nat /\ sent \in Nat /\ Frame.lo \in Nat /\ Frame.hi \in Nat
  BY <1>3 DEF IInv, Types, EncoderTypes, FrameSet
<1>7. w \in Nat /\ w > 0 /\ w <= MaxBytes /\ compressed + w <= Width(Frame)
  <2> DEFINE left == Width(Frame) - compressed
  <2>1. Width(Frame) \in Int
    BY <1>6 DEF Width
  <2>2. left \in Nat /\ left > 0 /\ compressed + left = Width(Frame)
    BY <1>4, <1>6, <2>1
  <2>3. MaxBytes \in Nat /\ MaxBytes > 0
    BY Lz4Assumption
  <2>4. w = (IF MaxBytes < left THEN MaxBytes ELSE left)
    BY DEF Least
  <2> HIDE DEF w, left
  <2>5. w \in Nat /\ w > 0 /\ w <= MaxBytes /\ w <= left
    BY <2>2, <2>3, <2>4
  <2> QED BY <1>6, <2>1, <2>2, <2>5
<1>8. compressed' = compressed + w /\ ering' = Advance(ering, w, MaxBytes)
  BY DEF Compress, Encode
<1> HIDE DEF w
<1> DEFINE b == [lo |-> Frame.lo + compressed, hi |-> Frame.lo + compressed + w,
                 ring |-> ering, at |-> sent, size |-> size]
<1>9. b \in Block /\ size \in 1 .. Bound
  BY <1>6, <1>7, Lz4Assumption DEF Block
<1>10. Width(b) = w /\ b.lo < b.hi /\ b.hi = Frame.lo + compressed'
  BY <1>6, <1>7, <1>8 DEF Width
<1>11. /\ blocks' = Append(blocks, b)
       /\ b.lo = BlockStart(Len(blocks) + 1) /\ b.at = WireStart(Len(blocks) + 1)
       /\ b.ring = RingStart(Len(blocks) + 1) /\ b.size = size
  BY <1>4, <1>5
<1> HIDE DEF b
<1> QED BY <1>7, <1>8, <1>9, <1>10, <1>11 DEF w

\* A new block lies behind the others, in the frame, in the transport and in the ring.
LEMMA StepCompress ==
  ASSUME IInv, Compress
  PROVE  IInv'
<1> DEFINE n == Len(blocks)
<1>1. PICK b \in Block :
        /\ blocks' = Append(blocks, b)
        /\ b.lo = BlockStart(n + 1) /\ b.at = WireStart(n + 1)
        /\ b.ring = RingStart(n + 1) /\ b.size \in 1 .. Bound
        /\ b.lo < b.hi /\ Width(b) = Least(MaxBytes, Width(Frame) - compressed)
        /\ Width(b) <= MaxBytes
        /\ compressed' = compressed + Width(b) /\ compressed' <= Width(Frame)
        /\ ering' = Advance(ering, Width(b), MaxBytes)
        /\ b.hi = Frame.lo + compressed'
  BY NextBlock
<1>2. /\ UNCHANGED <<woffset, sent>> /\ UNCHANGED decoder
      /\ turn # NoSender /\ ~ebuf /\ ebuf' = TRUE
      /\ UNCHANGED <<cipher, writer, receiver>>
  BY DEF Compress, Encode
<1>3. /\ UNCHANGED <<got, dinit, dneed, doffset, dring, rbuf, taken, decoded, apart>>
      /\ UNCHANGED <<kind, frames, pending>> /\ UNCHANGED opening
      /\ UNCHANGED <<cinit, rpos, cneed, cache, ptaken, opened>>
      /\ UNCHANGED <<len, st, turn, swapped, closed>>
      /\ UNCHANGED <<pbody, poffset, pneed, received, rstat>>
  BY <1>2 DEF decoder, cipher, sealing, opening, writer, receiver
<1>4. /\ blocks' \in Seq(Block) /\ Len(blocks') = n + 1 /\ DOMAIN blocks' = 1 .. n + 1
      /\ blocks'[n + 1] = b /\ n \in Nat /\ DOMAIN blocks = 1 .. n
      /\ \A j \in 1 .. n : blocks'[j] = blocks[j] /\ blocks[j] \in Block
      /\ \A j \in 1 .. n + 1 : BlockStart(j)' = BlockStart(j) /\ WireStart(j)' = WireStart(j)
                               /\ RingStart(j)' = RingStart(j)
      /\ BlockStart(Len(blocks) + 1)' = b.hi
      /\ RingStart(Len(blocks) + 1)' = Advance(b.ring, Width(b), MaxBytes)
  BY <1>1, BlockAppended DEF IInv, Types, EncoderTypes, BlocksInv
<1>5. compressed \in Nat /\ ering \in Nat /\ b.lo \in Nat /\ b.hi \in Nat /\ Width(b) \in Nat
      /\ b.ring \in Nat /\ b.at \in Nat /\ b.size \in Nat
  <2>1. b.lo \in Nat /\ b.hi \in Nat /\ b.ring \in Nat /\ b.at \in Nat /\ b.size \in Nat
    BY DEF Block
  <2>2. Width(b) \in Nat
    BY <2>1, <1>1 DEF Width
  <2> QED BY <2>1, <2>2 DEF IInv, Types, EncoderTypes
<1>6. InFrame /\ InFrame' /\ frames # <<>> /\ Frame = frames[Len(frames)] /\ Frame' = Frame
  BY <1>2, <1>3 DEF InFrame, IInv, EncoderInv, Frame, Last
<1> HIDE DEF n
<1>7. Types'
  <2>1. EncoderTypes'
    <3>1. ering' \in Nat
      BY <1>1, <1>5 DEF Advance
    <3>2. compressed' \in Nat /\ woffset' \in Nat /\ sent' \in Nat
      BY <1>1, <1>2, <1>5 DEF IInv, Types, EncoderTypes
    <3> QED BY <1>2, <1>4, <3>1, <3>2 DEF EncoderTypes
  <2>2. DecoderTypes'
    BY <1>3 DEF IInv, Types, DecoderTypes
  <2>3. SealingTypes' /\ OpeningTypes'
    BY <1>3 DEF IInv, Types, SealingTypes, OpeningTypes
  <2>4. WriterTypes' /\ ReceiverTypes'
    BY <1>3 DEF IInv, Types, WriterTypes, ReceiverTypes
  <2> QED BY <2>1, <2>2, <2>3, <2>4 DEF Types
<1>8. FramesInv' /\ OpeningInv' /\ PacketInv' /\ DataInv' /\ SendersInv'
  BY <1>3, FramesKept, OpeningKept, PacketKept, DataKept, SendersKept DEF IInv
<1>9. BlocksInv'
  <2>1. ASSUME NEW j \in 1 .. n + 1
        PROVE  /\ blocks'[j].lo = BlockStart(j) /\ blocks'[j].at = WireStart(j)
               /\ blocks'[j].ring = RingStart(j)
               /\ blocks'[j].lo < blocks'[j].hi /\ Width(blocks'[j]) <= MaxBytes
               /\ blocks'[j].size \in 1 .. Bound
    <3>1. CASE j = n + 1
      BY <3>1, <1>1, <1>4
    <3>2. CASE j # n + 1
      BY <3>2, <1>4 DEF IInv, BlocksInv
    <3> QED BY <3>1, <3>2
  <2>2. ASSUME NEW i \in 1 .. n + 1, NEW j \in 1 .. n + 1, i < j
        PROVE  /\ blocks'[i].hi <= blocks'[j].lo
               /\ blocks'[i].at + Prefix + blocks'[i].size <= blocks'[j].at
    <3>1. i \in 1 .. n /\ blocks'[i] = blocks[i]
      BY <2>2, <1>4
    <3>2. CASE j = n + 1
      <4>1. /\ blocks[i].hi = BlockStart(i + 1) /\ i + 1 \in 1 .. n + 1
            /\ blocks[i].at + Prefix + blocks[i].size = WireStart(i + 1)
        <5>1. i \in DOMAIN blocks /\ i + 1 \in 1 .. n + 1
          BY <3>1, <1>4
        <5> QED BY <5>1, BlockStarts DEF IInv, Types
      <4>2. BlockStart(i + 1) <= BlockStart(n + 1) /\ WireStart(i + 1) <= WireStart(n + 1)
        BY <4>1, BlockStarts DEF IInv, Types, n
      <4> QED BY <4>1, <4>2, <3>1, <3>2, <1>1, <1>4
    <3>3. CASE j # n + 1
      BY <3>1, <3>3, <2>2, <1>4 DEF IInv, BlocksInv
    <3> QED BY <3>2, <3>3
  <2>3. ering = RingStart(n + 1) /\ ering + MaxBytes <= Capacity
    BY DEF IInv, BlocksInv, n
  <2>4. ering' = RingStart(Len(blocks) + 1)'
    BY <2>3, <1>1, <1>4
  <2>5. ering' + MaxBytes <= Capacity
    BY <1>1, <1>5, Lz4Assumption DEF Advance
  <2>6. \A j \in 1 .. n + 1 : BlockStart(j)' = BlockStart(j) /\ WireStart(j)' = WireStart(j)
                              /\ RingStart(j)' = RingStart(j)
    BY <1>4
  <2> QED BY <2>1, <2>2, <2>4, <2>5, <2>6, <1>4 DEF BlocksInv, Width
<1>10. EncoderInv'
  <2>1. woffset = 0 /\ sent = WireStart(n + 1) /\ Frame.lo + compressed = BlockStart(n + 1)
        /\ ~pending /\ st[turn] = "sending"
    BY <1>2, <1>6 DEF IInv, EncoderInv, n
  <2>2. Frame.lo \in Nat
    <3>1. Frame \in FrameSet
      BY <1>6, LastTyped DEF IInv, Types, SealingTypes, Frame
    <3> QED BY <3>1 DEF FrameSet
  <2>3. blocks'[Len(blocks')] = b /\ blocks' # <<>>
    BY <1>4
  <2>4. sent' = b.at + woffset' /\ woffset' < Prefix + b.size /\ Frame.lo <= b.lo
    <3>1. b.at = sent /\ b.lo = Frame.lo + compressed
      BY <2>1, <1>1
    <3> QED BY <3>1, <2>1, <2>2, <1>2, <1>5, Lz4Assumption
  <2> QED BY <2>1, <2>3, <2>4, <1>1, <1>2, <1>3, <1>4, <1>6 DEF EncoderInv
<1>11. DecoderInv'
  <2>1. decoded \in Nat /\ decoded <= n
    BY DEF IInv, Types, DecoderTypes, DecoderInv, n
  <2>2. BlockStart(decoded + 1)' = BlockStart(decoded + 1) /\ WireStart(decoded + 1)' = WireStart(decoded + 1)
    BY <2>1, <1>3, <1>4 DEF BlockStart, WireStart
  <2>3. decoded < n => blocks'[decoded + 1] = blocks[decoded + 1]
    BY <2>1, <1>4
  <2> QED BY <2>1, <2>2, <2>3, <1>2, <1>3, <1>4 DEF IInv, DecoderInv, n
<1>12. RingsInv'
  <2>1. decoded \in Nat /\ decoded <= n
    BY DEF IInv, Types, DecoderTypes, DecoderInv, n
  <2>2. RingStart(decoded + 1)' = RingStart(decoded + 1)
    BY <2>1, <1>3, <1>4
  <2>3. \A j \in 1 .. decoded : blocks'[j] = blocks[j]
    BY <2>1, <1>4
  <2>4. Missed => Missed'
    BY <2>3, <1>3 DEF Missed, Between, Width
  <2> QED BY <2>2, <2>4, <1>3 DEF IInv, RingsInv
<1>13. ControlInv'
  <2> SUFFICES ASSUME kind = "control", StepsOver PROVE ControlInv'
    BY <1>3 DEF ControlInv, StepsOver
  <2> DEFINE l == Prefix + RsaKey
  <2>1. l \in Nat \ {0} /\ l <= MaxBytes
    BY Lz4Assumption, CipherAssumption DEF StepsOver, RsaFrame
  <2>2. Width(Frame) = l
    BY <1>6, LastTyped DEF IInv, Types, SealingTypes, FramesInv, Frame
  <2>3. /\ compressed \in {0, l} /\ \A j \in 1 .. n : Width(blocks[j]) = l
        /\ \A j \in 1 .. n + 1 : \E first \in {Handshake, 0}, i \in 0 .. Capacity - 1 :
             RingStart(j) = first + i * l
    BY <1>4 DEF IInv, ControlInv, n
  <2>4. compressed < Width(Frame)
    BY <1>2, <1>6 DEF IInv, EncoderInv
  <2> HIDE DEF l
  <2>5. compressed = 0 /\ Width(b) = l /\ compressed' = l
    BY <2>1, <2>2, <2>3, <2>4, <1>1, Lz4Assumption DEF Least
  <2>6. PICK first \in {Handshake, 0}, i \in 0 .. Capacity - 1 : RingStart(n + 1) = first + i * l
    BY <2>3, <1>4
  <2>6a. first \in Nat
    BY Lz4Assumption, CipherAssumption DEF Handshake
  <2>7. \E f \in {Handshake, 0}, k \in 0 .. Capacity - 1 : Advance(b.ring, l, MaxBytes) = f + k * l
    <3>1. i * l \in Nat /\ (i + 1) * l = i * l + l /\ i + 1 <= (i + 1) * l /\ 0 * l = 0
      BY <2>1, Multiples, Lz4Assumption
    <3>2. CASE first + i * l + l >= Capacity - MaxBytes
      <4>1. Advance(b.ring, l, MaxBytes) = 0 + 0 * l /\ 0 \in 0 .. Capacity - 1
        BY <3>1, <3>2, <2>6, <1>1, Lz4Assumption DEF Advance
      <4> QED BY <4>1
    <3>3. CASE ~(first + i * l + l >= Capacity - MaxBytes)
      <4>1. Advance(b.ring, l, MaxBytes) = first + (i + 1) * l
        BY <3>1, <3>3, <2>6, <2>6a, <2>1, <1>1 DEF Advance
      <4>2. i + 1 \in 0 .. Capacity - 1
        BY <3>1, <3>3, <2>1, <2>6a, Lz4Assumption
      <4> QED BY <4>1, <4>2
    <3> QED BY <3>2, <3>3
  <2>8. ASSUME NEW j \in 1 .. n + 2
        PROVE  \E f \in {Handshake, 0}, k \in 0 .. Capacity - 1 : RingStart(j)' = f + k * l
    <3>1. CASE j = n + 2
      <4>1. RingStart(j)' = Advance(b.ring, l, MaxBytes)
        BY <3>1, <2>5, <1>4 DEF RingStart
      <4> QED BY <4>1, <2>7
    <3>2. CASE j # n + 2
      BY <3>2, <2>3, <1>4
    <3> QED BY <3>1, <3>2
  <2>9. \A j \in DOMAIN blocks' : Width(blocks'[j]) = l
    BY <2>3, <2>5, <1>4
  <2> QED BY <2>5, <2>8, <2>9, <1>4 DEF ControlInv, Width, l
<1> QED BY <1>7, <1>8, <1>9, <1>10, <1>11, <1>12, <1>13 DEF IInv

\* The frame is finished when its last block was written in full, and not before.
LEMMA StepWrite ==
  ASSUME IInv, NEW n \in 1 .. PipeMax, Write(n)
  PROVE  IInv'
<1> DEFINE b == blocks[Len(blocks)]
<1>1. /\ turn # NoSender /\ ebuf /\ n <= BlockLeft
      /\ sent' = sent + n /\ ebuf' = (n < BlockLeft)
      /\ woffset' = IF n < BlockLeft THEN woffset + n ELSE 0
      /\ compressed' = IF Accepts(Frame, n) THEN 0 ELSE compressed
      /\ UNCHANGED <<blocks, ering>> /\ UNCHANGED decoder
      /\ UNCHANGED cipher /\ UNCHANGED <<len, closed>> /\ UNCHANGED receiver
  BY DEF Write, WriteOut
<1>2. /\ UNCHANGED <<got, dinit, dneed, doffset, dring, rbuf, taken, decoded, apart>>
      /\ UNCHANGED <<kind, frames, pending>> /\ UNCHANGED opening
      /\ UNCHANGED <<cinit, rpos, cneed, cache, ptaken, opened>>
      /\ UNCHANGED <<pbody, poffset, pneed, received, rstat>>
  BY <1>1 DEF decoder, cipher, sealing, opening, receiver
<1>3. /\ InFrame /\ blocks # <<>> /\ frames # <<>> /\ ~pending /\ st[turn] = "sending"
      /\ woffset < Prefix + b.size /\ sent = b.at + woffset
      /\ frames[Len(frames)].lo + compressed = BlockStart(Len(blocks) + 1)
      /\ compressed <= Width(frames[Len(frames)])
      /\ frames[Len(frames)].lo <= b.lo
  BY <1>1 DEF InFrame, IInv, EncoderInv
<1>4. /\ Frame = frames[Len(frames)] /\ Frame \in FrameSet /\ b \in Block
      /\ BlockLeft = Prefix + b.size - woffset /\ Len(frames) \in DOMAIN frames
      /\ Len(blocks) \in DOMAIN blocks
  BY <1>3, LastTyped DEF Frame, BlockLeft, Last, IInv, Types, SealingTypes, EncoderTypes
<1>5. /\ b.at \in Nat /\ b.size \in Nat /\ woffset \in Nat /\ sent \in Nat /\ n \in Nat
      /\ compressed \in Nat /\ Frame.lo \in Nat /\ Frame.hi \in Nat /\ BlockLeft \in Int
  <2>1. b.at \in Nat /\ b.size \in Nat
    BY <1>4 DEF Block
  <2>2. Frame.lo \in Nat /\ Frame.hi \in Nat
    BY <1>4 DEF FrameSet
  <2>3. woffset \in Nat /\ compressed \in Nat /\ Prefix \in Nat
    BY Lz4Assumption DEF IInv, Types, EncoderTypes
  <2>4. n \in Nat
    BY Lz4Assumption, <2>3 DEF IInv, Types, EncoderTypes
  <2> HIDE DEF b
  <2>5. sent \in Nat
    BY <1>3, <2>1, <2>3
  <2>6. BlockLeft \in Int
    BY <1>4, <2>1, <2>3
  <2> QED BY <2>1, <2>2, <2>3, <2>4, <2>5, <2>6
<1>6. WireStart(Len(blocks) + 1) = b.at + Prefix + b.size
  BY <1>4, BlockStarts DEF IInv, Types
<1>7. turn \in Senders /\ Frame.by \in Senders
  BY <1>1, <1>4 DEF IInv, Types, WriterTypes, FrameSet
<1> HIDE DEF b
<1>7a. (ebuf' <=> n < BlockLeft) /\ (~ebuf' <=> n = BlockLeft)
  <2>1. ebuf' <=> n < BlockLeft
    BY <1>1, Zenon
  <2>2. ~(n < BlockLeft) <=> n = BlockLeft
    BY <1>1, <1>5
  <2> QED BY <2>1, <2>2, Zenon
<1>8. \/ /\ Accepts(Frame, n) /\ st' = [st EXCEPT ![turn] = "done"] /\ turn' = NoSender
         /\ swapped' = IF Frame.by = turn THEN swapped ELSE swapped \union {<<turn, Frame.by>>}
      \/ ~Accepts(Frame, n) /\ UNCHANGED <<st, turn, swapped>>
  BY DEF Write
<1>9. Types'
  <2>1. EncoderTypes'
    <3>1. sent' \in Nat /\ ebuf' \in BOOLEAN /\ woffset' \in Nat /\ compressed' \in Nat
      BY <1>1, <1>5
    <3> QED BY <3>1, <1>1 DEF IInv, Types, EncoderTypes
  <2>2. DecoderTypes'
    BY <1>2 DEF IInv, Types, DecoderTypes
  <2>3. SealingTypes' /\ OpeningTypes' /\ ReceiverTypes'
    BY <1>2 DEF IInv, Types, SealingTypes, OpeningTypes, ReceiverTypes
  <2>4. WriterTypes'
    <3>1. swapped' \in SUBSET (Senders \X Senders)
      BY <1>7, <1>8 DEF IInv, Types, WriterTypes
    <3>2. /\ st' \in [Senders -> {"idle", "sending", "done", "dropped", "failed"}]
          /\ turn' \in Senders \union {NoSender}
      BY <1>7, <1>8 DEF IInv, Types, WriterTypes
    <3> QED BY <3>1, <3>2, <1>1 DEF IInv, Types, WriterTypes
  <2> QED BY <2>1, <2>2, <2>3, <2>4 DEF Types
<1>10. BlocksInv' /\ FramesInv' /\ OpeningInv' /\ PacketInv' /\ DataInv' /\ RingsInv'
  BY <1>1, <1>2, BlocksKept, FramesKept, OpeningKept, PacketKept, DataKept, RingsKept DEF IInv
<1>11. DecoderInv'
  <2>1. got <= sent'
    BY <1>1, <1>5 DEF IInv, Types, DecoderTypes, DecoderInv
  <2> QED BY <2>1, <1>1, <1>2 DEF IInv, DecoderInv, BlockStart, WireStart
<1>12. EncoderInv'
  <2>1. /\ (BlockStart(Len(blocks) + 1))' = BlockStart(Len(blocks) + 1)
        /\ (WireStart(Len(blocks) + 1))' = WireStart(Len(blocks) + 1)
        /\ (FrameStart(Len(frames) + 1))' = FrameStart(Len(frames) + 1)
        /\ blocks'[Len(blocks')] = b /\ frames'[Len(frames')] = Frame
    BY <1>1, <1>2, <1>4 DEF BlockStart, WireStart, FrameStart, b
  <2>2. sent' = IF ebuf' THEN b.at + woffset' ELSE WireStart(Len(blocks) + 1)
    <3>1. CASE n < BlockLeft
      BY <3>1, <1>7a, <1>1, <1>3, <1>5
    <3>2. CASE n = BlockLeft
      <4>1. sent' = b.at + Prefix + b.size
        <5>1. sent' = sent + n /\ sent = b.at + woffset /\ BlockLeft = Prefix + b.size - woffset
          BY <1>1, <1>3, <1>4
        <5> QED BY <5>1, <3>2, <1>5, Lz4Assumption
      <4> QED BY <4>1, <3>2, <1>7a, <1>6
    <3> QED BY <3>1, <3>2, <1>7a
  <2>3. CASE Accepts(Frame, n)
    <3>1. ~ebuf' /\ woffset' = 0 /\ compressed' = 0 /\ compressed = Width(Frame)
      BY <2>3, <1>7a, <1>1, <1>5 DEF Accepts
    <3>2. ~InFrame' /\ turn' = NoSender
      BY <2>3, <1>2, <1>3, <1>8 DEF InFrame
    <3>3. BlockStart(Len(blocks) + 1) = FrameStart(Len(frames) + 1)
      <4>1. FrameStart(Len(frames) + 1) = Frame.hi
        BY <1>4, FrameStarts DEF IInv, Types
      <4> QED BY <4>1, <3>1, <1>3, <1>4, <1>5 DEF Width
    <3> QED BY <3>1, <3>2, <3>3, <2>1, <2>2 DEF EncoderInv
  <2>4. CASE ~Accepts(Frame, n)
    <3>1. InFrame' /\ turn' = turn /\ ~pending' /\ st'[turn'] = "sending" /\ compressed' = compressed
      BY <2>4, <1>1, <1>2, <1>3, <1>8 DEF InFrame
    <3>2. ~ebuf' => woffset' = 0 /\ compressed < Width(Frame)
      <4> SUFFICES ASSUME ~ebuf' PROVE woffset' = 0 /\ compressed < Width(Frame)
        OBVIOUS
      <4>1. n = BlockLeft
        BY <1>7a
      <4>2. compressed # Width(Frame) /\ compressed <= Width(Frame)
        BY <4>1, <2>4, <1>3, <1>4 DEF Accepts
      <4> QED BY <4>1, <4>2, <1>1, <1>5 DEF Width
    <3>3. ebuf' => woffset' < Prefix + b.size
      BY <1>7a, <1>1, <1>4, <1>5, Lz4Assumption
    <3> QED BY <3>1, <3>2, <3>3, <2>1, <2>2, <1>1, <1>2, <1>3, <1>4 DEF EncoderInv, Width
  <2> QED BY <2>3, <2>4
<1>13. SendersInv'
  <2>1. CASE ~Accepts(Frame, n)
    <3>1. UNCHANGED <<frames, pending, st, turn, swapped>>
      BY <2>1, <1>2, <1>8
    <3> QED BY <3>1, SendersKept DEF IInv
  <2>2. CASE Accepts(Frame, n)
    <3>1. \A k : Finished(k)'
      BY <2>2, <1>2, <1>3, <1>8 DEF Finished, InFrame
    <3>2. /\ swapped \subseteq swapped' /\ (Frame.by # turn => <<turn, Frame.by>> \in swapped')
          /\ frames' = frames
      BY <2>2, <1>2, <1>8
    <3>3. \A k \in DOMAIN frames : ~Finished(k) => frames[k] = Frame
      BY <1>3, <1>4 DEF Finished, IInv, Types, SealingTypes
    <3> SUFFICES ASSUME NEW t \in Senders
                 PROVE  SendersInv!(t)'
      BY DEF SendersInv
    <3>4. SendersInv!(t)
      BY DEF IInv, SendersInv
    <3>5. \A i, j \in DOMAIN frames' :
            i < j /\ frames'[i].by = t /\ frames'[j].by = t => \E u \in Senders : <<u, t>> \in swapped'
      BY <3>2, <3>4
    <3>6. CASE t # turn
      <4>1. st'[t] = st[t]
        BY <3>6, <2>2, <1>8 DEF IInv, Types, WriterTypes
      <4>2. st[t] = "idle" => \A k \in DOMAIN frames : frames[k].by # t
        BY <3>4
      <4>3. ASSUME st[t] \in {"sending", "dropped"}, NEW k \in DOMAIN frames, frames[k].by = t
            PROVE  \E u \in Senders : <<u, t>> \in swapped'
        <5>1. CASE Finished(k)
          BY <5>1, <4>3, <3>2, <3>4
        <5>2. CASE ~Finished(k)
          BY <5>2, <4>3, <3>2, <3>3, <3>6, <1>7
        <5> QED BY <5>1, <5>2
      <4>4. st[t] = "done" => \/ \E k \in DOMAIN frames : frames[k].by = t
                              \/ \E u \in Senders : <<t, u>> \in swapped'
        BY <3>2, <3>4
      <4> QED BY <4>1, <4>2, <4>3, <4>4, <3>1, <3>2, <3>5
    <3>7. CASE t = turn
      <4>1. st'[t] = "done"
        BY <3>7, <2>2, <1>7, <1>8 DEF IInv, Types, WriterTypes
      <4>2. \/ \E k \in DOMAIN frames : frames[k].by = t
            \/ \E u \in Senders : <<t, u>> \in swapped'
        BY <3>2, <3>7, <1>4, <1>7
      <4> QED BY <4>1, <4>2, <3>1, <3>2, <3>5
    <3> QED BY <3>6, <3>7
  <2> QED BY <2>1, <2>2
<1>14. ControlInv'
  <2>1. compressed' \in {0, compressed}
    BY <1>1
  <2> QED BY <2>1, <1>1, <1>2 DEF IInv, ControlInv, StepsOver, RingStart, FirstRing, Advance, Width
<1> QED BY <1>9, <1>10, <1>11, <1>12, <1>13, <1>14 DEF IInv

-----------------------------------------------------------------------------
(* What a reader looks for is where it looks.                              *)

\* The fields of blocks are numbers.
LEMMA BlocksTyped ==
  ASSUME EncoderTypes
  PROVE  /\ Len(blocks) \in Nat /\ DOMAIN blocks = 1 .. Len(blocks)
         /\ \A j \in DOMAIN blocks :
              /\ blocks[j] \in Block
              /\ blocks[j].lo \in Nat /\ blocks[j].hi \in Nat /\ blocks[j].ring \in Nat
              /\ blocks[j].at \in Nat /\ blocks[j].size \in Nat
<1>1. Len(blocks) \in Nat /\ DOMAIN blocks = 1 .. Len(blocks)
  BY DEF EncoderTypes
<1>2. \A j \in DOMAIN blocks : blocks[j] \in Block
  BY DEF EncoderTypes
<1> QED BY <1>1, <1>2 DEF Block

\* The fields of frames are numbers, and their owners senders.
LEMMA FramesTyped ==
  ASSUME SealingTypes
  PROVE  /\ Len(frames) \in Nat /\ DOMAIN frames = 1 .. Len(frames)
         /\ \A k \in DOMAIN frames :
              /\ frames[k] \in FrameSet /\ frames[k].by \in Senders
              /\ frames[k].lo \in Nat /\ frames[k].hi \in Nat
              /\ frames[k].plo \in Nat /\ frames[k].phi \in Nat
<1>1. Len(frames) \in Nat /\ DOMAIN frames = 1 .. Len(frames)
  BY DEF SealingTypes
<1>2. \A k \in DOMAIN frames : frames[k] \in FrameSet
  BY DEF SealingTypes
<1> QED BY <1>1, <1>2 DEF FrameSet

\* A block is known by the place where it starts in the transport.
LEMMA BlockFound ==
  ASSUME EncoderTypes, BlocksInv, NEW j \in DOMAIN blocks, NEW d \in 0 .. Len(blocks),
         blocks[j].at = WireStart(d + 1)
  PROVE  j = d + 1
<1>1. /\ j \in 1 .. Len(blocks) /\ Len(blocks) \in Nat /\ \A i \in DOMAIN blocks : blocks[i] \in Block
      /\ \A i \in DOMAIN blocks : blocks[i].at \in Nat /\ blocks[i].size \in Nat
  BY BlocksTyped
<1>2. CASE j < d + 1
  <2>1. d \in DOMAIN blocks /\ d >= j
    BY <1>1, <1>2
  <2>2. WireStart(d + 1) = blocks[d].at + Prefix + blocks[d].size
    BY <2>1, BlockStarts
  <2>3. blocks[j].at + Prefix + blocks[j].size <= blocks[d].at + Prefix + blocks[d].size
    <3>1. CASE j = d
      BY <3>1, <2>1, <1>1, Lz4Assumption
    <3>2. CASE j # d
      <4>1. blocks[j].at + Prefix + blocks[j].size <= blocks[d].at
        BY <3>2, <2>1, <1>1 DEF BlocksInv
      <4>2. /\ blocks[d].at \in Nat /\ blocks[d].size \in Nat /\ Prefix \in Nat
            /\ blocks[j].at \in Nat /\ blocks[j].size \in Nat
        BY <2>1, <1>1, Lz4Assumption
      <4> QED BY <4>1, <4>2
    <3> QED BY <3>1, <3>2
  <2> QED BY <2>1, <2>2, <2>3, <1>1, Lz4Assumption
<1>3. CASE d + 1 < j
  <2>1. d + 1 \in DOMAIN blocks
    BY <1>1, <1>3
  <2>2. blocks[d + 1].at = WireStart(d + 1) /\ blocks[d + 1].at + Prefix + blocks[d + 1].size <= blocks[j].at
    BY <2>1, <1>1, <1>3 DEF BlocksInv
  <2> QED BY <2>1, <2>2, <1>1, Lz4Assumption
<1> QED BY <1>1, <1>2, <1>3

\* A frame is known by the place where it, or its text, starts.
LEMMA FrameFound ==
  ASSUME SealingTypes, FramesInv, NEW k \in DOMAIN frames, NEW o \in 0 .. Len(frames)
  PROVE  /\ frames[k].lo = FrameStart(o + 1) => k = o + 1
         /\ frames[k].plo = TextStart(o + 1) => k = o + 1
<1>1. /\ k \in 1 .. Len(frames) /\ Len(frames) \in Nat
      /\ \A i \in DOMAIN frames : /\ frames[i].lo \in Nat /\ frames[i].hi \in Nat
                                  /\ frames[i].plo \in Nat /\ frames[i].phi \in Nat
  BY FramesTyped
<1>2. \A i \in DOMAIN frames : frames[i].lo < frames[i].hi /\ frames[i].plo < frames[i].phi
  BY <1>1, Lz4Assumption, PacketsAssumption DEF FramesInv
<1>3. CASE k < o + 1
  <2>1. o \in DOMAIN frames /\ o >= k
    BY <1>1, <1>3
  <2>2. FrameStart(o + 1) = frames[o].hi /\ TextStart(o + 1) = frames[o].phi
    BY <2>1, FrameStarts
  <2>3. frames[k].lo < frames[o].hi /\ frames[k].plo < frames[o].phi
    <3>1. CASE k = o
      BY <3>1, <2>1, <1>2
    <3>2. CASE k # o
      <4>1. frames[k].hi <= frames[o].lo /\ frames[k].phi <= frames[o].plo
        BY <3>2, <2>1, <1>1 DEF FramesInv
      <4> QED BY <4>1, <2>1, <1>1, <1>2
    <3> QED BY <3>1, <3>2
  <2> QED BY <2>1, <2>2, <2>3, <1>1
<1>4. CASE o + 1 < k
  <2>1. o + 1 \in DOMAIN frames
    BY <1>1, <1>4
  <2>2. /\ frames[o + 1].lo = FrameStart(o + 1) /\ frames[o + 1].plo = TextStart(o + 1)
        /\ frames[o + 1].hi <= frames[k].lo /\ frames[o + 1].phi <= frames[k].plo
    BY <2>1, <1>1, <1>4 DEF FramesInv
  <2> QED BY <2>1, <2>2, <1>1, <1>2
<1> QED BY <1>1, <1>3, <1>4

-----------------------------------------------------------------------------
(* Steps of the reader.                                                    *)

\* A step that touches nothing of the writers.
LEMMA WriterKept ==
  ASSUME IInv, UNCHANGED <<encoder, kind, sealing, writer>>
  PROVE  /\ BlocksInv' /\ FramesInv' /\ EncoderInv' /\ SendersInv' /\ ControlInv'
         /\ EncoderTypes' /\ SealingTypes' /\ WriterTypes'
<1>1. /\ UNCHANGED <<blocks, ebuf, woffset, compressed, ering, sent>>
      /\ UNCHANGED <<kind, frames, pending>>
      /\ UNCHANGED <<len, st, turn, swapped, closed>>
  BY DEF encoder, sealing, writer
<1>2. BlocksInv' /\ FramesInv' /\ SendersInv' /\ ControlInv'
  BY <1>1, BlocksKept, FramesKept, SendersKept, ControlKept DEF IInv
<1>3. EncoderInv'
  BY <1>1, EncoderKept DEF IInv
<1>4. EncoderTypes' /\ SealingTypes' /\ WriterTypes'
  BY <1>1 DEF IInv, Types, EncoderTypes, SealingTypes, WriterTypes
<1> QED BY <1>2, <1>3, <1>4

\* The end of the stream moves no reader.
LEMMA StepReset ==
  ASSUME IInv, Reset
  PROVE  IInv'
<1>1. /\ UNCHANGED <<encoder, kind, sealing, writer>> /\ UNCHANGED decoder /\ UNCHANGED opening
      /\ UNCHANGED <<got, dinit, dneed, doffset, dring, rbuf, taken, decoded, apart>>
      /\ UNCHANGED <<cinit, rpos, cneed, cache, ptaken, opened>>
      /\ UNCHANGED <<pbody, poffset, pneed, received>> /\ rstat' = "reset"
      /\ UNCHANGED <<blocks, ering, sent, frames>>
  BY DEF Reset, lz4, encoder, decoder, cipher, sealing, opening
<1>2. DecoderInv' /\ OpeningInv' /\ PacketInv' /\ DataInv'
  BY <1>1, DecoderKept, OpeningKept, PacketKept, DataKept DEF IInv
<1>3. DecoderTypes' /\ OpeningTypes' /\ ReceiverTypes'
  BY <1>1 DEF IInv, Types, DecoderTypes, OpeningTypes, ReceiverTypes
<1>4. RingsInv'
  BY <1>1 DEF IInv, RingsInv, RingStart, FirstRing, Missed, Between, Advance, Width
<1> QED BY <1>1, <1>2, <1>3, <1>4, WriterKept DEF IInv, Types

\* The head announces the rest of the packet it is the head of.
LEMMA StepReadHead ==
  ASSUME IInv, ReadHead
  PROVE  IInv'
<1>1. /\ UNCHANGED <<encoder, kind, sealing, writer>> /\ UNCHANGED decoder /\ UNCHANGED opening
      /\ UNCHANGED <<got, dinit, dneed, doffset, dring, rbuf, taken, decoded, apart>>
      /\ UNCHANGED <<cinit, rpos, cneed, cache, ptaken, opened>>
      /\ UNCHANGED <<received, rstat>> /\ UNCHANGED <<blocks, ering, sent, frames>>
      /\ kind = "control" /\ ~pbody /\ poffset = pneed /\ pbody' = TRUE /\ poffset' = 0
  BY DEF ReadHead, lz4, encoder, decoder, cipher, sealing, opening
<1>2. PICK k \in DOMAIN frames : /\ HeadOf(frames[k]) /\ Text(frames[k]) > PacketHead
                                 /\ pneed' = Text(frames[k]) - PacketHead
  BY DEF ReadHead
<1> DEFINE p == Len(received)
<1>3. p \in 0 .. Len(frames) /\ ptaken = TextStart(p + 1) + PacketHead /\ TextStart(p + 1) \in Nat
  <2>1. p \in Nat /\ p <= Len(frames) /\ Len(frames) \in Nat
    BY <1>1 DEF IInv, Types, ReceiverTypes, SealingTypes, PacketInv
  <2>2. p + 1 \in 1 .. Len(frames) + 1
    BY <2>1
  <2> QED BY <2>1, <2>2, <1>1, FrameStarts DEF IInv, Types, PacketInv
<1> HIDE DEF p
<1>4. frames[k] \in FrameSet /\ frames[k].plo \in Nat /\ frames[k].phi \in Nat
  BY FramesTyped DEF IInv, Types
<1>5. k = p + 1
  <2>1. frames[k].plo = TextStart(p + 1)
    BY <1>2, <1>3, <1>4, PacketsAssumption DEF HeadOf
  <2> QED BY <2>1, <1>3, FrameFound DEF IInv, Types
<1>6. pneed' \in Nat /\ pneed' > 0
  BY <1>2, <1>4, PacketsAssumption DEF Text
<1>7. DecoderInv' /\ OpeningInv' /\ RingsInv'
  BY <1>1, DecoderKept, OpeningKept, RingsKept DEF IInv
<1>8. DecoderTypes' /\ OpeningTypes' /\ ReceiverTypes'
  BY <1>1, <1>6 DEF IInv, Types, DecoderTypes, OpeningTypes, ReceiverTypes
<1>9. DataInv'
  BY <1>1 DEF DataInv
<1>10. PacketInv'
  <2>1. p < Len(frames) /\ TextStart(p + 1)' = TextStart(p + 1) /\ TextStart(p + 1) + PacketHead + 0 = ptaken
    BY <1>1, <1>3, <1>5, PacketsAssumption DEF TextStart, p
  <2> QED BY <2>1, <1>1, <1>2, <1>3, <1>5, <1>6 DEF IInv, PacketInv, Text, p, TextStart
<1> QED BY <1>1, <1>7, <1>8, <1>9, <1>10, WriterKept DEF IInv, Types

\* The packet that is complete is the next one.
LEMMA StepDeliver ==
  ASSUME IInv, Deliver
  PROVE  IInv'
<1>1. /\ UNCHANGED <<encoder, kind, sealing, writer>> /\ UNCHANGED decoder /\ UNCHANGED opening
      /\ UNCHANGED <<got, dinit, dneed, doffset, dring, rbuf, taken, decoded, apart>>
      /\ UNCHANGED <<cinit, rpos, cneed, cache, ptaken, opened>>
      /\ UNCHANGED rstat /\ UNCHANGED <<blocks, ering, sent, frames>>
      /\ kind = "control" /\ poffset = pneed /\ pbody' = FALSE /\ poffset' = 0 /\ pneed' = PacketHead
  BY DEF Deliver, lz4, encoder, decoder, cipher, sealing, opening
<1>2. PICK k \in DOMAIN frames : PacketOf(frames[k]) /\ received' = Append(received, frames[k].by)
  BY DEF Deliver
<1> DEFINE p == Len(received)
<1>3. p \in Nat /\ p <= Len(frames) /\ Len(frames) \in Nat /\ p \in 0 .. Len(frames)
  BY <1>1 DEF IInv, Types, ReceiverTypes, SealingTypes, PacketInv
<1>4. TextStart(p + 1) \in Nat
  BY <1>3, FrameStarts DEF IInv, Types
<1>5. /\ frames[k] \in FrameSet /\ frames[k].plo \in Nat /\ frames[k].phi \in Nat
      /\ frames[k].by \in Senders
  BY FramesTyped DEF IInv, Types
<1>6. ptaken = TextStart(p + 1) + PacketHead + (IF pbody THEN pneed ELSE 0) /\ pneed \in Nat
  BY <1>1, <1>4, PacketsAssumption DEF IInv, Types, ReceiverTypes, PacketInv
<1>7. k = p + 1
  <2>1. frames[k].plo = TextStart(p + 1)
    BY <1>2, <1>4, <1>5, <1>6, PacketsAssumption DEF PacketOf, Text
  <2> QED BY <2>1, <1>3, FrameFound DEF IInv, Types
<1>8. /\ received' \in Seq(Senders) /\ Len(received') = p + 1 /\ DOMAIN received' = 1 .. p + 1
      /\ received'[p + 1] = frames[k].by /\ DOMAIN received = 1 .. p
      /\ \A i \in 1 .. p : received'[i] = received[i]
  BY <1>2, <1>5 DEF IInv, Types, ReceiverTypes
<1>9. DecoderInv' /\ OpeningInv' /\ RingsInv'
  BY <1>1, DecoderKept, OpeningKept, RingsKept DEF IInv
<1>10. DecoderTypes' /\ OpeningTypes' /\ ReceiverTypes'
  BY <1>1, <1>8, PacketsAssumption DEF IInv, Types, DecoderTypes, OpeningTypes, ReceiverTypes
<1>11. DataInv'
  BY <1>1 DEF DataInv
<1>12. PacketInv'
  <2>1. TextStart(p + 2) = frames[k].phi
    BY <1>3, <1>7, FrameStarts DEF IInv, Types
  <2>2. TextStart(Len(received) + 1)' = ptaken
    BY <2>1, <1>1, <1>2, <1>8, <1>3 DEF PacketOf, TextStart
  <2>3. \A i \in DOMAIN received' : received'[i] = frames[i].by
    BY <1>1, <1>3, <1>7, <1>8 DEF IInv, PacketInv
  <2>4. Len(received') <= Len(frames)
    BY <1>3, <1>7, <1>8
  <2>5. ptaken \in Nat
    BY DEF IInv, Types, OpeningTypes
  <2> QED BY <2>2, <2>3, <2>4, <2>5, <1>1, PacketsAssumption DEF PacketInv
<1> QED BY <1>1, <1>9, <1>10, <1>11, <1>12, WriterKept DEF IInv, Types

\* What the packets are read from: text that comes into their room is counted.
LEMMA Gathered ==
  ASSUME IInv, Gather, NEW n \in Nat, ptaken' = ptaken + n, n <= ReadRoom,
         kind = "control" => poffset < pneed, rstat' \in {"open", "reset", "bad"},
         UNCHANGED <<kind, frames, pbody, pneed, received>>
  PROVE  PacketInv' /\ DataInv' /\ ReceiverTypes'
<1>1. /\ ptaken \in Nat /\ poffset \in Nat /\ pneed \in Nat /\ kind \in {"control", "data"}
      /\ pbody \in BOOLEAN /\ received \in Seq(Senders)
  BY CipherAssumption DEF IInv, Types, OpeningTypes, ReceiverTypes, SealingTypes
<1>2. CASE kind = "control"
  <2>1. poffset' = poffset + n /\ poffset' \in Nat /\ poffset' <= pneed
    <3>1. poffset' = poffset + n
      BY <1>1, <1>2 DEF Gather
    <3>2. ReadRoom = pneed - poffset
      BY <1>2 DEF ReadRoom
    <3> QED BY <3>1, <3>2, <1>1
  <2>2. ReceiverTypes'
    BY <2>1, <1>1 DEF ReceiverTypes
  <2>3. DataInv'
    BY <1>2 DEF DataInv
  <2>4. TextStart(Len(received) + 1) \in Nat
    <3>1. Len(received) \in Nat /\ Len(frames) \in Nat /\ Len(received) <= Len(frames)
      BY <1>2, <1>1 DEF IInv, PacketInv, Types, SealingTypes
    <3>2. Len(received) + 1 \in 1 .. Len(frames) + 1
      BY <3>1
    <3> QED BY <3>2, FrameStarts DEF IInv, Types
  <2>5. TextStart(Len(received) + 1)' = TextStart(Len(received) + 1)
    BY DEF TextStart
  <2>6. IF pbody THEN ptaken' = TextStart(Len(received) + 1) + PacketHead + poffset'
                 ELSE ptaken' = TextStart(Len(received) + 1) + poffset'
    <3>1. IF pbody THEN ptaken = TextStart(Len(received) + 1) + PacketHead + poffset
                   ELSE ptaken = TextStart(Len(received) + 1) + poffset
      BY <1>2 DEF IInv, PacketInv
    <3> QED BY <3>1, <2>1, <2>4, <1>1, PacketsAssumption
  <2>7. PacketInv'
    BY <2>1, <2>5, <2>6, <1>2 DEF IInv, PacketInv, Text
  <2> QED BY <2>2, <2>3, <2>7
<1>3. CASE kind = "data"
  <2>1. poffset' = 0 /\ received' = received /\ received = <<>>
    BY <1>3 DEF Gather, IInv, DataInv
  <2> QED BY <2>1, <1>1, <1>3 DEF PacketInv, DataInv, ReceiverTypes
<1> QED BY <1>1, <1>2, <1>3

\* What the frames are read from, in the same way.
LEMMA GatheredBelow ==
  ASSUME IInv, NEW n \in Nat, taken' = taken + n, n <= cneed - rpos,
         rpos' = rpos + (taken' - taken),
         UNCHANGED <<frames, cinit, cneed, cache, ptaken, opened>>
  PROVE  OpeningInv' /\ OpeningTypes'
<1>0. taken \in Nat /\ rpos \in Nat /\ cneed \in Nat /\ opened \in Nat
  BY DEF IInv, Types, DecoderTypes, OpeningTypes
<1>1. taken' \in Nat /\ rpos' = rpos + n /\ rpos' \in Nat /\ rpos' <= cneed
  BY <1>0
<1>2. opened + 1 \in 1 .. Len(frames) + 1
  BY <1>0 DEF IInv, OpeningInv, Types, SealingTypes
<1>3. /\ FrameStart(opened + 1) \in Nat
      /\ FrameStart(opened + 1)' = FrameStart(opened + 1) /\ TextStart(opened + 1)' = TextStart(opened + 1)
  BY <1>2, FrameStarts DEF IInv, Types, FrameStart, TextStart
<1>4. IF cinit THEN taken' = FrameStart(opened + 1) + Prefix + rpos'
               ELSE taken' = FrameStart(opened + 1) + rpos'
  <2>1. IF cinit THEN taken = FrameStart(opened + 1) + Prefix + rpos
                 ELSE taken = FrameStart(opened + 1) + rpos
    BY DEF IInv, OpeningInv
  <2> QED BY <2>1, <1>0, <1>1, <1>3, Lz4Assumption
<1>5. OpeningTypes'
  BY <1>1 DEF IInv, Types, OpeningTypes
<1> QED BY <1>1, <1>3, <1>4, <1>5 DEF IInv, OpeningInv, Width

\* What is taken for garbage moves no ring.
LEMMA RingsGarbled ==
  ASSUME RingsInv, Garbled, UNCHANGED <<blocks, ering, dring, decoded, apart>>
  PROVE  RingsInv'
BY DEF RingsInv, Garbled, RingStart, FirstRing, Missed, Between, Advance, Width

\* The decoder is within the blocks.
LEMMA DecodedStart ==
  ASSUME IInv
  PROVE  /\ decoded \in 0 .. Len(blocks)
         /\ WireStart(decoded + 1) \in Nat /\ BlockStart(decoded + 1) \in Nat
<1>1. decoded \in 0 .. Len(blocks) /\ decoded + 1 \in 1 .. Len(blocks) + 1
  BY DEF IInv, Types, EncoderTypes, DecoderTypes, DecoderInv
<1> QED BY <1>1, BlockStarts DEF IInv, Types

\* What is left of a block is given out from where it was left.
LEMMA StepReadLeftover ==
  ASSUME IInv, NEW room \in Nat, ReadLeftover(room), Garbled
  PROVE  /\ DecoderInv' /\ RingsInv' /\ DecoderTypes'
         /\ \E n \in Nat : taken' = taken + n /\ n <= room
<1> DEFINE n == Least(room, Width(rbuf))
<1>1. /\ UNCHANGED <<blocks, ebuf, woffset, compressed, ering, sent>>
      /\ UNCHANGED <<got, dinit, dneed, doffset, dring, decoded, apart>>
      /\ taken' = taken + n /\ rbuf' = [rbuf EXCEPT !.lo = @ + n]
  BY DEF ReadLeftover, encoder
<1>2. rbuf \in Interval /\ rbuf.lo \in Nat /\ rbuf.hi \in Nat /\ rbuf.lo < rbuf.hi /\ taken \in Nat
  BY DEF IInv, Types, DecoderTypes, Interval, ReadLeftover, HasLeftover
<1>3. n \in Nat /\ n <= room /\ n <= rbuf.hi - rbuf.lo
  BY <1>2 DEF Least, Width
<1> HIDE DEF n
<1>4. rbuf' \in Interval /\ rbuf'.lo = rbuf.lo + n /\ rbuf'.hi = rbuf.hi
  BY <1>1, <1>2, <1>3 DEF Interval
<1>5. DecoderTypes'
  BY <1>1, <1>2, <1>3, <1>4 DEF IInv, Types, DecoderTypes
<1>6. RingsInv'
  BY <1>1, RingsGarbled DEF IInv
<1>7. DecoderInv'
  BY <1>1, <1>2, <1>3, <1>4 DEF IInv, DecoderInv, BlockStart, WireStart
<1> QED BY <1>1, <1>2, <1>3, <1>5, <1>6, <1>7

\* Bytes from the transport count towards what the decoder waits for.
LEMMA StepReadTransport ==
  ASSUME IInv, NEW n \in Nat, ReadTransport(n), Garbled
  PROVE  DecoderInv' /\ RingsInv' /\ DecoderTypes' /\ taken' = taken
<1>1. /\ UNCHANGED <<blocks, ebuf, woffset, compressed, ering, sent>>
      /\ UNCHANGED <<dinit, dneed, dring, rbuf, taken, decoded, apart>>
      /\ got' = got + n /\ doffset' = doffset + n /\ n <= dneed - doffset /\ n <= sent - got
  BY DEF ReadTransport, encoder
<1>2. got \in Nat /\ doffset \in Nat /\ dneed \in Nat /\ sent \in Nat
  BY DEF IInv, Types, DecoderTypes, EncoderTypes
<1>3. got' \in Nat /\ doffset' \in Nat /\ got' <= sent /\ doffset' <= dneed
  BY <1>1, <1>2
<1>4. DecoderTypes'
  BY <1>1, <1>3 DEF IInv, Types, DecoderTypes
<1>5. RingsInv'
  BY <1>1, RingsGarbled DEF IInv
<1>6. WireStart(decoded + 1)' = WireStart(decoded + 1) /\ BlockStart(decoded + 1)' = BlockStart(decoded + 1)
  BY <1>1 DEF WireStart, BlockStart
<1>7. IF dinit THEN got' = WireStart(decoded + 1) + Prefix + doffset'
               ELSE got' = WireStart(decoded + 1) + doffset'
  <2>1. IF dinit THEN got = WireStart(decoded + 1) + Prefix + doffset
                 ELSE got = WireStart(decoded + 1) + doffset
    BY DEF IInv, DecoderInv
  <2>2. WireStart(decoded + 1) \in Nat /\ Prefix \in Nat
    BY DecodedStart, Lz4Assumption
  <2> QED BY <2>1, <2>2, <1>1, <1>2
<1>8. DecoderInv'
  BY <1>1, <1>3, <1>6, <1>7 DEF IInv, DecoderInv
<1> QED BY <1>1, <1>4, <1>5, <1>8

\* A complete length is the one of the next block.
LEMMA StepReadLength ==
  ASSUME IInv, ReadLength, Garbled
  PROVE  DecoderInv' /\ RingsInv' /\ DecoderTypes' /\ taken' = taken
<1>1. /\ UNCHANGED <<blocks, ebuf, woffset, compressed, ering, sent>>
      /\ UNCHANGED <<got, dring, rbuf, taken, decoded, apart>>
      /\ ~dinit /\ doffset = dneed /\ dinit' = TRUE /\ doffset' = 0
  BY DEF ReadLength, encoder
<1>2. PICK j \in DOMAIN blocks : LengthOf(blocks[j]) /\ dneed' = blocks[j].size
  BY DEF ReadLength
<1>3. got = WireStart(decoded + 1) + Prefix
  BY <1>1 DEF IInv, DecoderInv
<1>4. blocks[j].at \in Nat /\ blocks[j].size \in Nat /\ j \in 1 .. Len(blocks) /\ Len(blocks) \in Nat
  BY BlocksTyped DEF IInv, Types
<1>5. j = decoded + 1
  <2>1. blocks[j].at = WireStart(decoded + 1)
    BY <1>2, <1>3, <1>4, DecodedStart, Lz4Assumption DEF LengthOf
  <2> QED BY <2>1, BlockFound, DecodedStart DEF IInv, Types
<1>6. DecoderTypes'
  BY <1>1, <1>2, <1>4 DEF IInv, Types, DecoderTypes
<1>7. RingsInv'
  BY <1>1, RingsGarbled DEF IInv
<1>8. WireStart(decoded + 1)' = WireStart(decoded + 1) /\ BlockStart(decoded + 1)' = BlockStart(decoded + 1)
  BY <1>1 DEF WireStart, BlockStart
<1>9. /\ decoded < Len(blocks) /\ got = WireStart(decoded + 1) + Prefix + 0 /\ 0 <= blocks[j].size
  BY <1>3, <1>4, <1>5, DecodedStart, Lz4Assumption
<1>10. DecoderInv'
  BY <1>1, <1>2, <1>5, <1>8, <1>9 DEF IInv, DecoderInv
<1> QED BY <1>1, <1>6, <1>7, <1>10

\* A complete block is the next one, and goes where the ring of the decoder is.
LEMMA StepDecompress ==
  ASSUME IInv, NEW room \in Nat, Decompress(room), Garbled
  PROVE  /\ DecoderInv' /\ RingsInv' /\ DecoderTypes'
         /\ \E n \in Nat : taken' = taken + n /\ n <= room
<1> DEFINE d == decoded
<1>1. /\ UNCHANGED <<blocks, ebuf, woffset, compressed, ering, sent>> /\ got' = got
      /\ ~HasLeftover /\ dinit /\ doffset = dneed
      /\ dinit' = FALSE /\ dneed' = Prefix /\ doffset' = 0 /\ decoded' = d + 1
  BY DEF Decompress, encoder
<1>2. PICK j \in DOMAIN blocks :
        /\ DataOf(blocks[j])
        /\ apart' = (apart \/ blocks[j].ring # dring)
        /\ dring' = Advance(dring, Width(blocks[j]), Bound)
        /\ taken' = taken + Least(room, Width(blocks[j]))
        /\ rbuf' = [lo |-> blocks[j].lo + Least(room, Width(blocks[j])), hi |-> blocks[j].hi]
  BY DEF Decompress
<1>3. d \in 0 .. Len(blocks) /\ WireStart(d + 1) \in Nat /\ BlockStart(d + 1) \in Nat
  BY DecodedStart
<1>4. /\ Len(blocks) \in Nat /\ DOMAIN blocks = 1 .. Len(blocks)
      /\ blocks[j].lo \in Nat /\ blocks[j].hi \in Nat /\ blocks[j].ring \in Nat
      /\ blocks[j].at \in Nat /\ blocks[j].size \in Nat
  BY BlocksTyped DEF IInv, Types
<1>5. d < Len(blocks) /\ dneed = blocks[d + 1].size /\ got = WireStart(d + 1) + Prefix + dneed
  BY <1>1 DEF IInv, DecoderInv
<1>6. j = d + 1
  <2>1. blocks[j].at = WireStart(d + 1)
    <3>1. blocks[j].at + Prefix + blocks[j].size = got /\ blocks[j].size = dneed
      BY <1>2 DEF DataOf
    <3>2. WireStart(d + 1) + Prefix + blocks[j].size = got
      BY <3>1, <1>5
    <3> HIDE DEF d
    <3> QED BY <3>1, <3>2, <1>3, <1>4, Lz4Assumption
  <2> QED BY <2>1, <1>3, BlockFound DEF IInv, Types
<1> DEFINE b == blocks[d + 1]
           n == Least(room, Width(b))
<1>7. /\ b.lo \in Nat /\ b.hi \in Nat /\ b.ring \in Nat /\ b.at \in Nat /\ b.size \in Nat
      /\ b.lo < b.hi /\ Width(b) \in Nat /\ Width(b) <= MaxBytes
      /\ b.lo = BlockStart(d + 1) /\ b.at = WireStart(d + 1) /\ b.ring = RingStart(d + 1)
  BY <1>4, <1>6 DEF IInv, BlocksInv, Width
<1>8. n \in Nat /\ n <= room /\ n <= b.hi - b.lo
  BY <1>7 DEF Least, Width
<1>9. /\ DataOf(b) /\ apart' = (apart \/ b.ring # dring) /\ dring' = Advance(dring, Width(b), Bound)
      /\ taken' = taken + n /\ rbuf' = [lo |-> b.lo + n, hi |-> b.hi]
  BY <1>2, <1>6
<1>10. taken = b.lo /\ taken \in Nat
  <2>1. /\ taken \in Nat /\ rbuf.hi = BlockStart(d + 1) /\ rbuf.lo = taken /\ taken <= rbuf.hi
        /\ ~(rbuf.lo < rbuf.hi)
    BY <1>1 DEF HasLeftover, IInv, Types, DecoderTypes, DecoderInv
  <2> QED BY <2>1, <1>3, <1>7
<1>11. BlockStart(d + 2) = b.hi /\ WireStart(d + 2) = b.at + Prefix + b.size
  BY <1>3, <1>4, <1>5, BlockStarts DEF IInv, Types
<1>12. /\ BlockStart(decoded + 1)' = b.hi /\ WireStart(decoded + 1)' = b.at + Prefix + b.size
       /\ RingStart(decoded + 1)' = RingStart(d + 2)
  <2>1. blocks' = blocks /\ ering' = ering /\ decoded' + 1 = d + 2
    BY <1>1, <1>3
  <2> QED BY <2>1, <1>11 DEF BlockStart, WireStart, RingStart, FirstRing
<1>13. RingStart(d + 2) = Advance(b.ring, Width(b), MaxBytes)
  BY <1>3, <1>4 DEF RingStart
<1>14. dring \in Nat /\ dring + MaxBytes <= Capacity /\ apart \in BOOLEAN
  BY DEF IInv, RingsInv, Types, DecoderTypes
<1> HIDE DEF b, n, d
<1>15. dring' \in Nat /\ dring' + MaxBytes <= Capacity
  BY <1>7, <1>9, <1>14, Lz4Assumption DEF Advance
<1>16. rbuf' \in Interval /\ rbuf'.lo = b.lo + n /\ rbuf'.hi = b.hi
  BY <1>7, <1>8, <1>9 DEF Interval
<1>17. taken' \in Nat /\ taken' = b.lo + n /\ taken' <= b.hi
  BY <1>7, <1>8, <1>9, <1>10
<1>18. DecoderTypes'
  <2>1. decoded' \in Nat /\ dneed' \in Nat /\ apart' \in BOOLEAN /\ got' \in Nat
    BY <1>1, <1>3, <1>9, <1>14, Lz4Assumption DEF IInv, Types, DecoderTypes
  <2> QED BY <2>1, <1>1, <1>15, <1>16, <1>17 DEF DecoderTypes
<1>19. DecoderInv'
  <2>1. got' <= sent' /\ decoded' <= Len(blocks') /\ doffset' <= dneed'
    BY <1>1, <1>3, <1>4, <1>5, Lz4Assumption DEF IInv, DecoderInv
  <2>2. got' = b.at + Prefix + b.size + 0
    BY <1>1, <1>7, <1>9, Lz4Assumption DEF DataOf
  <2> QED BY <2>1, <2>2, <1>1, <1>12, <1>16, <1>17 DEF DecoderInv
<1>20. Missed => Missed'
  <2>1. \A i : Between(blocks[i])' <=> Between(blocks[i])
    BY <1>1 DEF Between, Width
  <2>2. 1 .. decoded \subseteq 1 .. decoded'
    BY <1>1, <1>3 DEF d
  <2> QED BY <2>1, <2>2 DEF Missed
<1>21. Between(b) => Missed'
  <2>1. \A i : Between(blocks[i])' <=> Between(blocks[i])
    BY <1>1 DEF Between, Width
  <2>2. d + 1 \in 1 .. decoded' /\ b = blocks[d + 1]
    BY <1>1, <1>3 DEF b
  <2> QED BY <2>1, <2>2 DEF Missed
<1>22. dring = b.ring \/ Missed
  BY <1>7 DEF IInv, RingsInv, d
<1>23. ASSUME ~Missed'
       PROVE  dring' = RingStart(d + 2) /\ ~apart'
  <2>1. dring = b.ring /\ ~Between(b) /\ ~apart
    BY <1>20, <1>21, <1>22, <1>23 DEF IInv, RingsInv
  <2>2. dring' = RingStart(d + 2)
    BY <2>1, <1>7, <1>9, <1>13, Lz4Assumption DEF Advance, Between
  <2> QED BY <2>1, <2>2, <1>9
<1>24. RingsInv'
  <2>1. rstat' = "bad" => apart'
    BY <1>9 DEF Garbled, IInv, RingsInv
  <2> QED BY <2>1, <1>1, <1>12, <1>15, <1>23 DEF RingsInv, d
<1>25. \E m \in Nat : taken' = taken + m /\ m <= room
  BY <1>8, <1>9
<1> QED BY <1>18, <1>19, <1>24, <1>25

\* One step below the cipher, whichever it is.
LEMMA StepReadBelow ==
  ASSUME IInv, ReadBelow, Garbled, UNCHANGED frames
  PROVE  /\ DecoderInv' /\ RingsInv' /\ DecoderTypes' /\ OpeningInv' /\ OpeningTypes'
         /\ UNCHANGED <<encoder, ptaken>>
<1>1. /\ rpos < cneed /\ rpos' = rpos + (taken' - taken)
      /\ UNCHANGED <<cinit, cneed, cache, ptaken, opened>>
  BY DEF ReadBelow
<1>2. rpos \in Nat /\ cneed \in Nat /\ cneed - rpos \in Nat /\ taken \in Nat
  <2>1. rpos \in Nat /\ cneed \in Nat /\ taken \in Nat
    BY DEF IInv, Types, OpeningTypes, DecoderTypes
  <2> QED BY <2>1, <1>1
<1>3. /\ DecoderInv' /\ RingsInv' /\ DecoderTypes' /\ UNCHANGED encoder
      /\ \E n \in Nat : taken' = taken + n /\ n <= cneed - rpos
  <2>1. CASE ReadLeftover(cneed - rpos)
    BY <2>1, <1>2, StepReadLeftover DEF ReadLeftover
  <2>2. CASE \E n \in 1 .. Bound + Prefix : ReadTransport(n)
    <3>1. PICK n \in Nat : ReadTransport(n)
      BY <2>2, Lz4Assumption
    <3>2. DecoderInv' /\ RingsInv' /\ DecoderTypes' /\ taken' = taken
      BY <3>1, StepReadTransport
    <3>3. UNCHANGED encoder
      BY <3>1 DEF ReadTransport
    <3>4. taken' = taken + 0 /\ 0 <= cneed - rpos
      BY <3>2, <1>2
    <3> QED BY <3>2, <3>3, <3>4
  <2>3. CASE ReadLength
    <3>1. DecoderInv' /\ RingsInv' /\ DecoderTypes' /\ taken' = taken
      BY <2>3, StepReadLength
    <3>2. UNCHANGED encoder
      BY <2>3 DEF ReadLength
    <3>3. taken' = taken + 0 /\ 0 <= cneed - rpos
      BY <3>1, <1>2
    <3> QED BY <3>1, <3>2, <3>3
  <2>4. CASE Decompress(cneed - rpos)
    BY <2>4, <1>2, StepDecompress DEF Decompress
  <2> QED BY <2>1, <2>2, <2>3, <2>4 DEF ReadBelow
<1>4. PICK n \in Nat : taken' = taken + n /\ n <= cneed - rpos
  BY <1>3
<1>5. OpeningInv' /\ OpeningTypes'
  BY <1>1, <1>4, GatheredBelow
<1> QED BY <1>1, <1>3, <1>5

\* What a step of the cipher leaves alone below.
LEMMA BelowKept ==
  ASSUME IInv, UNCHANGED <<lz4, rstat>>
  PROVE  DecoderInv' /\ RingsInv' /\ DecoderTypes' /\ UNCHANGED encoder
<1>1. /\ UNCHANGED encoder /\ UNCHANGED decoder /\ UNCHANGED <<blocks, ering, sent>>
      /\ UNCHANGED <<got, dinit, dneed, doffset, dring, rbuf, taken, decoded, apart>>
  BY DEF lz4, encoder, decoder
<1>2. DecoderInv' /\ RingsInv'
  BY <1>1, DecoderKept, RingsKept DEF IInv
<1>3. DecoderTypes'
  BY <1>1 DEF IInv, Types, DecoderTypes
<1> QED BY <1>1, <1>2, <1>3

\* The cipher is within the frames.
LEMMA OpenedStart ==
  ASSUME IInv
  PROVE  /\ opened \in 0 .. Len(frames)
         /\ FrameStart(opened + 1) \in Nat /\ TextStart(opened + 1) \in Nat
<1>1. opened \in 0 .. Len(frames) /\ opened + 1 \in 1 .. Len(frames) + 1
  BY DEF IInv, Types, SealingTypes, OpeningTypes, OpeningInv
<1> QED BY <1>1, FrameStarts DEF IInv, Types

\* What is left of a frame is given out from where it was left.
LEMMA StepReadCache ==
  ASSUME IInv, NEW room \in Nat, ReadCache(room), UNCHANGED frames
  PROVE  /\ OpeningInv' /\ OpeningTypes'
         /\ \E n \in Nat : ptaken' = ptaken + n /\ n <= room
<1> DEFINE n == Least(room, Width(cache))
<1>1. /\ UNCHANGED <<cinit, rpos, cneed, opened, taken>>
      /\ ptaken' = ptaken + n /\ cache' = [cache EXCEPT !.lo = @ + n]
  BY DEF ReadCache, lz4, decoder
<1>2. cache \in Interval /\ cache.lo \in Nat /\ cache.hi \in Nat /\ cache.lo < cache.hi /\ ptaken \in Nat
  BY DEF IInv, Types, OpeningTypes, Interval, ReadCache, HasCache
<1>3. n \in Nat /\ n <= room /\ n <= cache.hi - cache.lo
  BY <1>2 DEF Least, Width
<1> HIDE DEF n
<1>4. cache' \in Interval /\ cache'.lo = cache.lo + n /\ cache'.hi = cache.hi
  BY <1>1, <1>2, <1>3 DEF Interval
<1>5. OpeningTypes'
  BY <1>1, <1>2, <1>3, <1>4 DEF IInv, Types, OpeningTypes
<1>6. OpeningInv'
  BY <1>1, <1>2, <1>3, <1>4 DEF IInv, OpeningInv, FrameStart, TextStart, Width
<1> QED BY <1>1, <1>3, <1>5, <1>6

\* A complete length is the one of the next frame.
LEMMA StepReadFrameLength ==
  ASSUME IInv, ReadFrameLength, UNCHANGED frames
  PROVE  OpeningInv' /\ OpeningTypes' /\ UNCHANGED ptaken
<1> DEFINE o == opened
<1>1. /\ UNCHANGED <<cache, ptaken, opened, taken>>
      /\ ~cinit /\ rpos = cneed /\ cinit' = TRUE /\ rpos' = 0
  BY DEF ReadFrameLength, lz4, decoder
<1>2. PICK k \in DOMAIN frames : frames[k].lo + Prefix = taken /\ cneed' = Width(frames[k]) - Prefix
  BY DEF ReadFrameLength
<1>3. taken = FrameStart(o + 1) + Prefix
  BY <1>1 DEF IInv, OpeningInv
<1>4. /\ frames[k].lo \in Nat /\ frames[k].hi \in Nat /\ k \in 1 .. Len(frames) /\ Len(frames) \in Nat
      /\ frames[k].lo + Prefix < frames[k].hi
  BY FramesTyped DEF IInv, Types, FramesInv
<1>5. k = o + 1
  <2>1. frames[k].lo = FrameStart(o + 1)
    <3>1. frames[k].lo + Prefix = FrameStart(o + 1) + Prefix /\ FrameStart(o + 1) \in Nat
      BY <1>2, <1>3, OpenedStart
    <3> HIDE DEF o
    <3> QED BY <3>1, <1>4, Lz4Assumption
  <2> QED BY <2>1, FrameFound, OpenedStart DEF IInv, Types
<1>6. cneed' \in Nat
  BY <1>2, <1>4, Lz4Assumption DEF Width
<1>7. OpeningTypes'
  BY <1>1, <1>6 DEF IInv, Types, OpeningTypes
<1>8. FrameStart(opened + 1)' = FrameStart(opened + 1) /\ TextStart(opened + 1)' = TextStart(opened + 1)
  BY <1>1 DEF FrameStart, TextStart
<1>9. opened < Len(frames) /\ taken = FrameStart(opened + 1) + Prefix + 0
  BY <1>3, <1>4, <1>5, OpenedStart, Lz4Assumption
<1>10. OpeningInv'
  BY <1>1, <1>2, <1>5, <1>6, <1>8, <1>9 DEF IInv, OpeningInv, Width
<1> QED BY <1>1, <1>7, <1>10

\* A complete frame is the next one, and its text goes on where the last one ended.
LEMMA StepDecrypt ==
  ASSUME IInv, NEW room \in Nat, Decrypt(room), UNCHANGED frames
  PROVE  /\ OpeningInv' /\ OpeningTypes'
         /\ \E n \in Nat : ptaken' = ptaken + n /\ n <= room
<1> DEFINE o == opened
<1>1. /\ ~HasCache /\ cinit /\ rpos = cneed /\ taken' = taken
      /\ cinit' = FALSE /\ rpos' = 0 /\ cneed' = Prefix /\ opened' = o + 1
  BY DEF Decrypt, lz4, decoder
<1>2. PICK k \in DOMAIN frames :
        /\ CipherTextOf(frames[k])
        /\ ptaken' = ptaken + Least(room, Text(frames[k]))
        /\ cache' = [lo |-> frames[k].plo + Least(room, Text(frames[k])), hi |-> frames[k].phi]
  BY DEF Decrypt
<1>3. o \in 0 .. Len(frames) /\ FrameStart(o + 1) \in Nat /\ TextStart(o + 1) \in Nat
  BY OpenedStart
<1>4. /\ frames[k].lo \in Nat /\ frames[k].hi \in Nat /\ frames[k].plo \in Nat /\ frames[k].phi \in Nat
      /\ frames[k].plo + PacketHead <= frames[k].phi /\ frames[k].plo = TextStart(k)
      /\ Len(frames) \in Nat /\ DOMAIN frames = 1 .. Len(frames)
  BY FramesTyped DEF IInv, Types, FramesInv
<1>5. o < Len(frames) /\ taken = FrameStart(o + 1) + Prefix + cneed /\ cneed \in Nat
  BY <1>1 DEF IInv, OpeningInv, Types, OpeningTypes
<1>6. k = o + 1
  <2>1. frames[k].hi = taken /\ frames[k].hi - frames[k].lo - Prefix = cneed
    BY <1>2 DEF CipherTextOf, Width
  <2>2. frames[k].lo = FrameStart(o + 1)
    <3> DEFINE lo == frames[k].lo
               hi == frames[k].hi
               start == FrameStart(o + 1)
    <3>1. hi = start + Prefix + cneed /\ hi - lo - Prefix = cneed
      BY <2>1, <1>5
    <3>2. lo \in Nat /\ hi \in Nat /\ start \in Nat /\ cneed \in Nat /\ Prefix \in Nat
      BY <1>3, <1>4, <1>5, Lz4Assumption
    <3> HIDE DEF lo, hi, start
    <3>3. lo = start
      BY <3>1, <3>2
    <3> QED BY <3>3 DEF lo, start
  <2> QED BY <2>2, <1>3, FrameFound DEF IInv, Types
<1> DEFINE f == frames[o + 1]
           n == Least(room, Text(f))
<1>7. /\ f.hi \in Nat /\ f.plo \in Nat /\ f.phi \in Nat /\ f.plo <= f.phi /\ f.plo = TextStart(o + 1)
      /\ f.hi = taken /\ ptaken' = ptaken + n /\ cache' = [lo |-> f.plo + n, hi |-> f.phi]
  BY <1>2, <1>4, <1>6, PacketsAssumption DEF CipherTextOf
<1>8. n \in Nat /\ n <= room /\ n <= f.phi - f.plo
  BY <1>7 DEF Least, Text
<1>9. ptaken = f.plo /\ ptaken \in Nat
  <2>1. /\ ptaken \in Nat /\ cache.hi = TextStart(o + 1) /\ cache.lo = ptaken /\ ptaken <= cache.hi
        /\ ~(cache.lo < cache.hi)
    BY <1>1 DEF HasCache, IInv, Types, OpeningTypes, OpeningInv
  <2> QED BY <2>1, <1>3, <1>7
<1>10. FrameStart(opened + 1)' = f.hi /\ TextStart(opened + 1)' = f.phi
  <2>1. FrameStart(o + 2) = f.hi /\ TextStart(o + 2) = f.phi
    <3>1. o + 1 \in DOMAIN frames /\ (o + 1) + 1 = o + 2
      BY <1>3, <1>4, <1>5
    <3> QED BY <3>1, FrameStarts DEF IInv, Types
  <2>2. frames' = frames /\ opened' + 1 = o + 2
    BY <1>1, <1>3
  <2> QED BY <2>1, <2>2 DEF FrameStart, TextStart
<1> HIDE DEF f, n, o
<1>11. cache' \in Interval /\ cache'.lo = f.plo + n /\ cache'.hi = f.phi
  BY <1>7, <1>8 DEF Interval
<1>12. ptaken' \in Nat /\ ptaken' = f.plo + n /\ ptaken' <= f.phi
  BY <1>7, <1>8, <1>9
<1>13. OpeningTypes'
  <2>1. opened' \in Nat /\ rpos' \in Nat /\ cneed' \in Nat /\ cinit' \in BOOLEAN
    <3>1. opened' \in Nat
      BY <1>1, <1>3, <1>4
    <3>2. Prefix \in Nat
      BY Lz4Assumption
    <3> QED BY <3>1, <3>2, <1>1
  <2> QED BY <2>1, <1>11, <1>12 DEF OpeningTypes
<1>13a. opened' <= Len(frames') /\ rpos' <= cneed' /\ taken' = f.hi + rpos'
  <2>1. rpos' = 0 /\ cneed' = Prefix /\ taken' = f.hi /\ frames' = frames /\ opened' = o + 1
    BY <1>1, <1>7
  <2>2. o \in Nat /\ o + 1 <= Len(frames)
    BY <1>3, <1>4, <1>5
  <2>3. Prefix \in Nat /\ f.hi \in Nat
    BY <1>7, Lz4Assumption
  <2> QED BY <2>1, <2>2, <2>3
<1>14. OpeningInv'
  <2> QED BY <1>13a, <1>1, <1>10, <1>11, <1>12 DEF OpeningInv
<1>15. \E m \in Nat : ptaken' = ptaken + m /\ m <= room
  BY <1>7, <1>8
<1> QED BY <1>13, <1>14, <1>15

\* Reading, in each of its layers.
LEMMA StepReceive ==
  ASSUME IInv, Receive
  PROVE  IInv'
<1>1. /\ rstat = "open" /\ (kind = "control" => poffset < pneed) /\ Gather
      /\ UNCHANGED <<kind, sealing, writer, pbody, pneed, received>>
      /\ UNCHANGED <<frames, pending>>
  BY DEF Receive, sealing
<1>2. ReadRoom \in Nat /\ ptaken \in Nat /\ rstat \in {"open", "reset", "bad"}
  <2>1. poffset \in Nat /\ pneed \in Nat /\ ptaken \in Nat /\ rstat \in {"open", "reset", "bad"}
    BY DEF IInv, Types, ReceiverTypes, OpeningTypes
  <2> QED BY <2>1, <1>1, PacketsAssumption DEF ReadRoom
<1>3. /\ DecoderInv' /\ RingsInv' /\ DecoderTypes' /\ OpeningInv' /\ OpeningTypes' /\ UNCHANGED encoder
      /\ rstat' \in {"open", "reset", "bad"}
      /\ \E n \in Nat : ptaken' = ptaken + n /\ n <= ReadRoom
  <2>1. CASE ReadBelow /\ Garbled
    <3>1. ptaken' = ptaken + 0 /\ rstat' \in {"open", "reset", "bad"} /\ 0 <= ReadRoom
      BY <2>1, <1>1, <1>2 DEF ReadBelow, Garbled
    <3> QED BY <3>1, <2>1, <1>1, StepReadBelow
  <2>2. CASE ReadFrameLength /\ UNCHANGED rstat
    <3>1. UNCHANGED <<lz4, rstat>>
      BY <2>2 DEF ReadFrameLength
    <3>2. OpeningInv' /\ OpeningTypes' /\ ptaken' = ptaken + 0 /\ 0 <= ReadRoom
      BY <2>2, <1>1, <1>2, StepReadFrameLength
    <3> QED BY <3>1, <3>2, <1>1, <1>2, BelowKept
  <2>3. CASE ReadCache(ReadRoom) /\ UNCHANGED rstat
    <3>1. UNCHANGED <<lz4, rstat>>
      BY <2>3 DEF ReadCache
    <3> QED BY <3>1, <2>3, <1>1, <1>2, BelowKept, StepReadCache
  <2>4. CASE (RsaDecrypt(ReadRoom) \/ AesDecrypt(ReadRoom)) /\ UNCHANGED rstat
    <3>1. UNCHANGED <<lz4, rstat>> /\ Decrypt(ReadRoom)
      BY <2>4 DEF RsaDecrypt, AesDecrypt, Decrypt
    <3> QED BY <3>1, <1>1, <1>2, BelowKept, StepDecrypt
  <2> QED BY <2>1, <2>2, <2>3, <2>4 DEF Receive
<1>4. PICK n \in Nat : ptaken' = ptaken + n /\ n <= ReadRoom
  BY <1>3
<1>5. PacketInv' /\ DataInv' /\ ReceiverTypes'
  BY <1>1, <1>3, <1>4, Gathered
<1> QED BY <1>1, <1>3, <1>5, WriterKept DEF IInv, Types

-----------------------------------------------------------------------------
(* The invariant, and what it is for.                                      *)

\* Stuttering.
LEMMA Stutter ==
  ASSUME IInv, UNCHANGED vars
  PROVE  IInv'
<1>1. /\ UNCHANGED <<lz4, rstat>> /\ UNCHANGED <<frames, taken, opening>>
      /\ UNCHANGED <<cinit, rpos, cneed, cache, ptaken, opened>>
      /\ UNCHANGED <<encoder, kind, sealing, writer>>
      /\ UNCHANGED <<pbody, poffset, pneed, received>>
  BY DEF vars, lz4, decoder, cipher, sealing, opening, receiver
<1>2. OpeningInv' /\ PacketInv' /\ DataInv'
  <2>1. kind' = kind
    BY <1>1
  <2> QED BY <1>1, <2>1, OpeningKept, PacketKept, DataKept DEF IInv
<1>3. OpeningTypes' /\ ReceiverTypes'
  BY <1>1 DEF IInv, Types, OpeningTypes, ReceiverTypes
<1> QED BY <1>1, <1>2, <1>3, BelowKept, WriterKept DEF IInv, Types

\* The invariant of the whole stack: blocks, frames and packets lie one behind the other,
\* every reader is where its own counters say, and every send is accounted for.
THEOREM Invariance == Spec => []IInv
<1>1. IInv /\ [Next]_vars => IInv'
  <2> SUFFICES ASSUME IInv, [Next]_vars PROVE IInv'
    OBVIOUS
  <2>1. ASSUME NEW s \in Senders, PollFresh(s)
        PROVE  IInv'
    BY <2>1, StepPollFresh
  <2>2. ASSUME NEW s \in Senders, PollPending(s)
        PROVE  IInv'
    BY <2>2, StepPollPending
  <2>3. ASSUME NEW s \in Senders, PollRefused(s) \/ Drop(s) \/ Close
        PROVE  IInv'
    BY <2>3, StepEnds
  <2>4. CASE Close
    BY <2>4, StepEnds
  <2>5. CASE Compress
    BY <2>5, StepCompress
  <2>6. ASSUME NEW n \in 1 .. PipeMax, Write(n)
        PROVE  IInv'
    BY <2>6, StepWrite
  <2>7. CASE Pend
    BY <2>7, StepPend
  <2>8. CASE Receive
    BY <2>8, StepReceive
  <2>9. CASE ReadHead
    BY <2>9, StepReadHead
  <2>10. CASE Deliver
    BY <2>10, StepDeliver
  <2>11. CASE Reset
    BY <2>11, StepReset
  <2>12. CASE UNCHANGED vars
    BY <2>12, Stutter
  <2> QED BY <2>1, <2>2, <2>3, <2>4, <2>5, <2>6, <2>7, <2>8, <2>9, <2>10, <2>11, <2>12
         DEF Next, WriteStep, ReadStep
<1> QED BY <1>1, InitIInv, PTL DEF Spec

\* Nothing is sent, and no text taken, beyond what has been compressed and sealed.
LEMMA Ends ==
  ASSUME IInv
  PROVE  /\ got <= WireStart(Len(blocks) + 1) /\ got \in Nat
         /\ BlockStart(Len(blocks) + 1) <= FrameStart(Len(frames) + 1)
         /\ taken <= FrameStart(Len(frames) + 1) /\ taken \in Nat
         /\ ptaken <= TextStart(Len(frames) + 1) /\ ptaken \in Nat
         /\ WireStart(Len(blocks) + 1) \in Nat /\ FrameStart(Len(frames) + 1) \in Nat
         /\ TextStart(Len(frames) + 1) \in Nat
<1> DEFINE n == Len(blocks)
           m == Len(frames)
<1>1. got \in Nat /\ taken \in Nat /\ ptaken \in Nat /\ sent \in Nat /\ n \in Nat /\ m \in Nat
      /\ woffset \in Nat /\ compressed \in Nat
  BY DEF IInv, Types, DecoderTypes, OpeningTypes, EncoderTypes, SealingTypes
<1>2. /\ n + 1 \in 1 .. n + 1 /\ m + 1 \in 1 .. m + 1
      /\ decoded + 1 \in 1 .. n + 1 /\ opened + 1 \in 1 .. m + 1
  BY <1>1, DecodedStart, OpenedStart
<1>3. WireStart(n + 1) \in Nat /\ BlockStart(n + 1) \in Nat /\ BlockStart(decoded + 1) \in Nat
      /\ BlockStart(decoded + 1) <= BlockStart(n + 1)
  BY <1>2, BlockStarts DEF IInv, Types
<1>4. FrameStart(m + 1) \in Nat /\ TextStart(m + 1) \in Nat /\ TextStart(opened + 1) \in Nat
      /\ TextStart(opened + 1) <= TextStart(m + 1)
  BY <1>2, FrameStarts DEF IInv, Types
<1>5. sent <= WireStart(n + 1)
  <2>1. CASE ebuf
    <3>1. n \in DOMAIN blocks
      BY <2>1, <1>1, BlocksTyped DEF IInv, EncoderInv, Types, EncoderTypes
    <3>2. /\ WireStart(n + 1) = blocks[n].at + Prefix + blocks[n].size
          /\ blocks[n].at \in Nat /\ blocks[n].size \in Nat
      BY <3>1, BlockStarts, BlocksTyped DEF IInv, Types
    <3>3. sent = blocks[n].at + woffset /\ woffset < Prefix + blocks[n].size
      BY <2>1 DEF IInv, EncoderInv
    <3> HIDE DEF n
    <3> QED BY <3>2, <3>3, <1>1, Lz4Assumption
  <2>2. CASE ~ebuf
    BY <2>2, <1>3 DEF IInv, EncoderInv
  <2> QED BY <2>1, <2>2
<1>6. BlockStart(n + 1) <= FrameStart(m + 1)
  <2>1. CASE InFrame
    <3>1. m \in DOMAIN frames
      BY <2>1, <1>1, FramesTyped DEF IInv, EncoderInv, Types, SealingTypes
    <3>2. FrameStart(m + 1) = frames[m].hi /\ frames[m].lo \in Nat /\ frames[m].hi \in Nat
      BY <3>1, FrameStarts, FramesTyped DEF IInv, Types
    <3>3. /\ frames[m].lo + compressed = BlockStart(n + 1)
          /\ compressed <= frames[m].hi - frames[m].lo
      BY <2>1 DEF IInv, EncoderInv, Width
    <3> HIDE DEF n, m
    <3> QED BY <3>2, <3>3, <1>1
  <2>2. CASE ~InFrame
    BY <2>2, <1>3 DEF IInv, EncoderInv
  <2> QED BY <2>1, <2>2
<1>7. /\ got <= sent /\ taken <= rbuf.hi /\ rbuf.hi = BlockStart(decoded + 1)
      /\ ptaken <= cache.hi /\ cache.hi = TextStart(opened + 1)
  BY DEF IInv, DecoderInv, OpeningInv
<1> HIDE DEF n, m
<1>8. got <= WireStart(n + 1) /\ taken <= FrameStart(m + 1) /\ ptaken <= TextStart(m + 1)
  BY <1>1, <1>3, <1>4, <1>5, <1>6, <1>7
<1> QED BY <1>1, <1>3, <1>4, <1>6, <1>8 DEF n, m

\* A reader that is where its counters say finds there what was written.
LEMMA IInvReadsAsWritten ==
  ASSUME IInv
  PROVE  ReadsAsWritten
<1>1. ASSUME ~HasLeftover, doffset = dneed
      PROVE  \E j \in DOMAIN blocks :
               IF dinit THEN DataOf(blocks[j]) /\ blocks[j].lo = taken ELSE LengthOf(blocks[j])
  <2> DEFINE d == decoded
  <2>1. d \in 0 .. Len(blocks) /\ WireStart(d + 1) \in Nat /\ Len(blocks) \in Nat
    BY DecodedStart DEF IInv, Types, EncoderTypes
  <2>2. d < Len(blocks)
    <3>1. CASE dinit
      BY <3>1 DEF IInv, DecoderInv
    <3>2. CASE ~dinit
      <4>1. got = WireStart(d + 1) + Prefix
        BY <1>1, <3>2 DEF IInv, DecoderInv
      <4>2. d # Len(blocks)
        BY <4>1, Ends, Lz4Assumption
      <4> QED BY <4>2, <2>1
    <3> QED BY <3>1, <3>2
  <2>3. d + 1 \in DOMAIN blocks
    BY <2>1, <2>2, BlocksTyped DEF IInv, Types
  <2>4. blocks[d + 1].at = WireStart(d + 1) /\ blocks[d + 1].lo = BlockStart(d + 1)
    BY <2>3 DEF IInv, BlocksInv
  <2>5. CASE dinit
    <3>1. DataOf(blocks[d + 1])
      <4>1. dneed = blocks[d + 1].size /\ got = blocks[d + 1].at + Prefix + dneed
        BY <1>1, <2>4, <2>5 DEF IInv, DecoderInv
      <4> QED BY <4>1 DEF DataOf
    <3>2. taken = BlockStart(d + 1)
      <4>1. /\ rbuf.lo = taken /\ rbuf.hi = BlockStart(d + 1) /\ taken <= rbuf.hi
            /\ ~(rbuf.lo < rbuf.hi) /\ taken \in Nat
        BY <1>1, Ends DEF IInv, DecoderInv, HasLeftover
      <4> QED BY <4>1, DecodedStart
    <3> QED BY <3>1, <3>2, <2>3, <2>4, <2>5
  <2>6. CASE ~dinit
    <3>1. LengthOf(blocks[d + 1])
      BY <1>1, <2>4, <2>6 DEF IInv, DecoderInv, LengthOf
    <3> QED BY <3>1, <2>3, <2>6
  <2> QED BY <2>5, <2>6
<1>2. ASSUME ~HasCache, rpos = cneed
      PROVE  \E k \in DOMAIN frames :
               IF cinit THEN CipherTextOf(frames[k]) /\ frames[k].plo = ptaken
                        ELSE frames[k].lo + Prefix = taken
  <2> DEFINE o == opened
  <2>1. o \in 0 .. Len(frames) /\ FrameStart(o + 1) \in Nat /\ Len(frames) \in Nat
    BY OpenedStart DEF IInv, Types, SealingTypes
  <2>2. o < Len(frames)
    <3>1. CASE cinit
      BY <3>1 DEF IInv, OpeningInv
    <3>2. CASE ~cinit
      <4>1. taken = FrameStart(o + 1) + Prefix
        BY <1>2, <3>2 DEF IInv, OpeningInv
      <4>2. o # Len(frames)
        BY <4>1, Ends, Lz4Assumption
      <4> QED BY <4>2, <2>1
    <3> QED BY <3>1, <3>2
  <2>3. o + 1 \in DOMAIN frames
    BY <2>1, <2>2, FramesTyped DEF IInv, Types
  <2>4. /\ frames[o + 1].lo = FrameStart(o + 1) /\ frames[o + 1].plo = TextStart(o + 1)
        /\ frames[o + 1].lo \in Nat /\ frames[o + 1].hi \in Nat
    BY <2>3, FramesTyped DEF IInv, FramesInv, Types
  <2>5. CASE cinit
    <3>1. CipherTextOf(frames[o + 1])
      <4> DEFINE lo == frames[o + 1].lo
                 hi == frames[o + 1].hi
      <4>1. cneed = hi - lo - Prefix /\ taken = lo + Prefix + cneed
        BY <1>2, <2>4, <2>5 DEF IInv, OpeningInv, Width
      <4>2. lo \in Nat /\ hi \in Nat /\ Prefix \in Nat
        BY <2>4, Lz4Assumption
      <4> HIDE DEF lo, hi
      <4>3. hi = taken
        BY <4>1, <4>2
      <4> QED BY <4>1, <4>3 DEF CipherTextOf, Width, lo, hi
    <3>2. ptaken = TextStart(o + 1)
      <4>1. /\ cache.lo = ptaken /\ cache.hi = TextStart(o + 1) /\ ptaken <= cache.hi
            /\ ~(cache.lo < cache.hi) /\ ptaken \in Nat
        BY <1>2, Ends DEF IInv, OpeningInv, HasCache
      <4> QED BY <4>1, OpenedStart
    <3> QED BY <3>1, <3>2, <2>3, <2>4, <2>5
  <2>6. CASE ~cinit
    <3>1. frames[o + 1].lo + Prefix = taken
      BY <1>2, <2>4, <2>6 DEF IInv, OpeningInv
    <3> QED BY <3>1, <2>3, <2>6
  <2> QED BY <2>5, <2>6
<1>3. ASSUME kind = "control", poffset = pneed
      PROVE  \E k \in DOMAIN frames : PacketOf(frames[k]) \/ (~pbody /\ HeadOf(frames[k]))
  <2> DEFINE p == Len(received)
  <2>1. p \in Nat /\ Len(frames) \in Nat /\ p <= Len(frames)
    BY <1>3 DEF IInv, PacketInv, Types, ReceiverTypes, SealingTypes
  <2>2. TextStart(p + 1) \in Nat
    <3>1. p + 1 \in 1 .. Len(frames) + 1
      BY <2>1
    <3> QED BY <3>1, FrameStarts DEF IInv, Types
  <2>3. p < Len(frames)
    <3>1. CASE pbody
      BY <3>1, <1>3 DEF IInv, PacketInv
    <3>2. CASE ~pbody
      <4>1. ptaken = TextStart(p + 1) + PacketHead
        BY <1>3, <3>2 DEF IInv, PacketInv
      <4>2. p # Len(frames)
        BY <4>1, Ends, PacketsAssumption
      <4> QED BY <4>2, <2>1
    <3> QED BY <3>1, <3>2
  <2>4. p + 1 \in DOMAIN frames
    BY <2>1, <2>3, FramesTyped DEF IInv, Types
  <2>5. /\ frames[p + 1].plo = TextStart(p + 1)
        /\ frames[p + 1].plo \in Nat /\ frames[p + 1].phi \in Nat
    BY <2>4, FramesTyped DEF IInv, FramesInv, Types
  <2>6. CASE pbody
    <3> DEFINE lo == frames[p + 1].plo
               hi == frames[p + 1].phi
    <3>1. pneed = hi - lo - PacketHead /\ ptaken = lo + PacketHead + pneed
      BY <1>3, <2>5, <2>6 DEF IInv, PacketInv, Text
    <3>2. lo \in Nat /\ hi \in Nat /\ PacketHead \in Nat
      BY <2>5, PacketsAssumption
    <3> HIDE DEF lo, hi
    <3>3. hi = ptaken /\ hi - lo = PacketHead + pneed
      BY <3>1, <3>2
    <3>4. PacketOf(frames[p + 1])
      BY <3>3, <2>6 DEF PacketOf, Text, lo, hi
    <3> QED BY <3>4, <2>4
  <2>7. CASE ~pbody
    <3>1. HeadOf(frames[p + 1])
      BY <1>3, <2>5, <2>7 DEF IInv, PacketInv, HeadOf
    <3> QED BY <3>1, <2>4, <2>7
  <2> QED BY <2>6, <2>7
<1>4. Len(received) <= Len(frames) /\ \A i \in DOMAIN received : received[i] = frames[i].by
  <2>1. kind \in {"control", "data"}
    BY CipherAssumption DEF IInv, Types, SealingTypes
  <2>2. CASE kind = "control"
    BY <2>2 DEF IInv, PacketInv
  <2>3. CASE kind = "data"
    <3>1. received = <<>> /\ Len(received) = 0 /\ Len(frames) \in Nat
      BY <2>3 DEF IInv, DataInv, Types, SealingTypes
    <3> QED BY <3>1
  <2> QED BY <2>1, <2>2, <2>3
<1>5. (HasLeftover => rbuf.lo = taken) /\ (HasCache => cache.lo = ptaken)
  BY DEF IInv, DecoderInv, OpeningInv
<1> QED BY <1>1, <1>2, <1>3, <1>4, <1>5 DEF ReadsAsWritten

\* Whatever the lengths of blocks, frames and packets, however short the reads and writes
\* and however little room each reader has, every one of them finds its length where it
\* looks, and packets come whole and in order.
THEOREM ReadersAgree == Spec => []ReadsAsWritten
<1>1. IInv => ReadsAsWritten
  BY IInvReadsAsWritten
<1> QED BY <1>1, Invariance, PTL

\* A frame that is finished was written in full by the encoder below.
LEMMA FinishedOnTheWire ==
  ASSUME IInv, NEW k \in DOMAIN frames, Finished(k)
  PROVE  OnTheWire(k)
<1> DEFINE n == Len(blocks)
           m == Len(frames)
<1>1. n \in Nat /\ m \in Nat /\ k \in 1 .. m /\ DOMAIN frames = 1 .. m
      /\ frames[k].hi \in Nat /\ FrameStart(k + 1) = frames[k].hi
  BY BlocksTyped, FramesTyped, FrameStarts DEF IInv, Types
<1>2. ~ebuf => Written = BlockStart(n + 1)
  <2>1. CASE n = 0
    <3>1. blocks = <<>>
      BY <2>1 DEF IInv, Types, EncoderTypes
    <3> QED BY <3>1, <2>1 DEF Written, BlockStart
  <2>2. CASE n # 0
    <3>1. blocks # <<>> /\ n \in DOMAIN blocks
      BY <2>2, <1>1, BlocksTyped DEF IInv, Types
    <3> QED BY <3>1, BlockStarts DEF Written, Last, IInv, Types
  <2> QED BY <2>1, <2>2
<1>3. CASE InFrame
  <2>1. k < m /\ m \in DOMAIN frames
    BY <1>1, <1>3 DEF Finished
  <2>2. frames[k].hi <= frames[m].lo /\ frames[m].lo \in Nat
    BY <2>1, FramesTyped DEF IInv, FramesInv, Types
  <2>3. frames[m].lo <= Written /\ Written \in Nat
    <3>1. CASE ebuf
      <4>1. blocks # <<>> /\ frames[m].lo <= blocks[n].lo
        BY <3>1 DEF IInv, EncoderInv
      <4>2. n \in DOMAIN blocks
        BY <4>1, <1>1, BlocksTyped DEF IInv, Types, EncoderTypes
      <4> QED BY <4>1, <4>2, <3>1, BlocksTyped DEF Written, Last, IInv, Types
    <3>2. CASE ~ebuf
      <4>1. frames[m].lo + compressed = BlockStart(n + 1) /\ compressed \in Nat
        BY <1>3 DEF IInv, EncoderInv, Types, EncoderTypes
      <4> QED BY <4>1, <3>2, <2>2, <1>2
    <3> QED BY <3>1, <3>2
  <2> QED BY <2>2, <2>3, <1>1 DEF OnTheWire
<1>4. CASE ~InFrame
  <2>1. ~ebuf /\ BlockStart(n + 1) = FrameStart(m + 1)
    BY <1>4 DEF IInv, EncoderInv
  <2>2. FrameStart(k + 1) <= FrameStart(m + 1)
    <3>1. k + 1 \in 1 .. m + 1
      BY <1>1
    <3> QED BY <3>1, FrameStarts DEF IInv, Types
  <2> QED BY <2>1, <2>2, <1>1, <1>2 DEF OnTheWire
<1> QED BY <1>3, <1>4

\* A send that was reported done is on the wire, once, unless the calls of two senders got
\* into each other's way, for any number of senders and any interleaving of them.
THEOREM SendsAccountedFor == Spec => []SentOnce
<1>1. IInv => SentOnce
  <2> SUFFICES ASSUME IInv PROVE SentOnce
    OBVIOUS
  <2> SUFFICES ASSUME NEW s \in Senders PROVE SentOnce!(s)
    BY DEF SentOnce
  <2>1. SendersInv!(s)
    BY DEF IInv, SendersInv
  <2>2. ASSUME NEW k \in DOMAIN frames, frames[k].by = s, Finished(k)
        PROVE  frames[k].by = s /\ OnTheWire(k)
    BY <2>2, FinishedOnTheWire
  <2> QED BY <2>1, <2>2
<1> QED BY <1>1, Invariance, PTL

\* Both rings start again before their end, and agree while no offset falls between.
LEMMA IInvRingsAgree ==
  ASSUME IInv
  PROVE  RingsAgree
<1>1. apart => \E j \in DOMAIN blocks : Between(blocks[j])
  <2>1. 1 .. decoded \subseteq DOMAIN blocks
    <3>1. decoded \in 0 .. Len(blocks) /\ DOMAIN blocks = 1 .. Len(blocks) /\ Len(blocks) \in Nat
      BY DecodedStart, BlocksTyped DEF IInv, Types
    <3> QED BY <3>1
  <2> QED BY <2>1 DEF IInv, RingsInv, Missed
<1>2. kind = "control" /\ StepsOver => ~apart
  <2> SUFFICES ASSUME kind = "control", StepsOver, NEW j \in DOMAIN blocks, Between(blocks[j])
               PROVE  FALSE
    BY <1>1
  <2>1. j \in 1 .. Len(blocks) + 1 /\ blocks[j].ring = RingStart(j) /\ Width(blocks[j]) = Prefix + RsaKey
    BY BlocksTyped DEF IInv, Types, BlocksInv, ControlInv
  <2>2. PICK first \in {Handshake, 0}, i \in 0 .. Capacity - 1 :
          RingStart(j) = first + i * (Prefix + RsaKey)
    BY <2>1 DEF IInv, ControlInv
  <2> DEFINE L == Prefix + RsaKey
  <2>3. L \in Nat /\ i \in Nat /\ i + 1 \in 0 .. Capacity /\ first \in Nat /\ RsaFrame = L
    BY Lz4Assumption, CipherAssumption DEF Handshake, RsaFrame
  <2>4. i * L \in Nat /\ (i + 1) * L = i * L + L
    <3> HIDE DEF L
    <3> QED BY <2>3
  <2>5. ~(Capacity - Bound <= first + (i + 1) * L /\ first + (i + 1) * L < Capacity - MaxBytes)
    BY <2>3 DEF StepsOver
  <2> HIDE DEF L
  <2>6. blocks[j].ring + Width(blocks[j]) = first + (i + 1) * L
    <3>1. blocks[j].ring = first + i * L /\ Width(blocks[j]) = L
      BY <2>1, <2>2 DEF L
    <3> QED BY <3>1, <2>3, <2>4
  <2> QED BY <2>5, <2>6 DEF Between
<1> QED BY <1>1, <1>2 DEF RingsAgree, IInv, BlocksInv, RingsInv

\* The rings of LZ4 never overflow, and agree unless an offset falls between the places
\* where the two start again, which on a control connection it cannot.
THEOREM RingsStayTogether == Spec => []RingsAgree
<1>1. IInv => RingsAgree
  BY IInvRingsAgree
<1> QED BY <1>1, Invariance, PTL

\* With the numbers of the code (blocks of 1024 bytes, LZ4_compressBound(1024) = 1044, rings of
\* three blocks, RSA keys of 1024 bits, 162 bytes when sent, lengths of four bytes), a control
\* connection never puts a block at another place in one ring than in the other: its offsets
\* are 166 + 132 * i until the ring starts again, and 132 * i from then on, and the places
\* where the decoder starts again and the encoder does not are 2028 .. 2047.
THEOREM ControlRingsAgree ==
  ASSUME Prefix = 4, RsaKey = 128, KeyDer = 162, MaxBytes = 1024, Bound = 1044, Capacity = 3072
  PROVE  Spec => [](kind = "control" => ~apart)
<1>1. StepsOver
  <2>1. \A i \in 0 .. 3072 : ~(2028 <= i * 132 /\ i * 132 < 2048)
    OBVIOUS
  <2>2. \A i \in 0 .. 3072 : ~(2028 <= 166 + i * 132 /\ 166 + i * 132 < 2048)
    OBVIOUS
  <2>3. RsaFrame = 132 /\ Handshake = 166 /\ Capacity - Bound = 2028 /\ Capacity - MaxBytes = 2048
    BY DEF RsaFrame, Handshake
  <2>4. \A i \in 0 .. 3072 : 0 + i * 132 = i * 132
    OBVIOUS
  <2> QED BY <2>1, <2>2, <2>3, <2>4 DEF StepsOver
<1>2. StepsOver /\ RingsAgree => (kind = "control" => ~apart)
  BY DEF RingsAgree
<1>3. RingsAgree => (kind = "control" => ~apart)
  BY <1>1, <1>2
<1> QED BY <1>3, RingsStayTogether, PTL

=============================================================================
