------------------------------- MODULE Packets -------------------------------
(***************************************************************************)
(* What is sent through an encrypted connection (core/protocol, async/ext  *)
(* over Cipher over Lz4).  On a control connection, futures of one session *)
(* share clones of the write half: each sends one packet with SendPacket   *)
(* and is dropped by its timer if that takes too long; the other end reads *)
(* packets with RecvPacket.  On a data connection, one copy loop writes    *)
(* chunk after chunk with WriteAll and the other end reads what comes.     *)
(***************************************************************************)
EXTENDS Cipher, FiniteSets

CONSTANTS
  Senders,     \* futures that send a packet each, or chunks
  NoSender,
  Lengths,     \* of what they send
  PacketHead,  \* head_size(): magic and length of a packet
  BufSize      \* of the copy loop's buffer

ASSUME PacketsAssumption ==
  /\ NoSender \notin Senders /\ IsFiniteSet(Senders)
  /\ PacketHead \in Nat \ {0} /\ BufSize \in Nat \ {0}
  /\ \A n \in Lengths : n \in Nat /\ n >= PacketHead

VARIABLES
  len,       \* what each sender has to send
  st,        \* how far each has come
  turn,      \* who is inside poll_write, under the lock of the write half
  swapped,   \* history: <<s, t>> when the call of s wrote the end of a frame of t
  closed,    \* the sending session is over
  pbody, poffset, pneed,  \* state, offset and buf.len() of RecvPacket
  received,  \* the packets received, by sender
  rstat      \* "open", "reset" at the end of the stream, "bad": not what was written

writer == <<len, st, turn, swapped, closed>>
receiver == <<pbody, poffset, pneed, received, rstat>>
vars == <<lz4, cipher, writer, receiver>>

Init ==
  /\ CipherInit /\ \E o \in Preface : Lz4Init(o)
  /\ len \in [Senders -> Lengths]
  /\ st = [s \in Senders |-> "idle"] /\ turn = NoSender
  /\ swapped = {} /\ closed = FALSE
  /\ pbody = FALSE /\ poffset = 0 /\ pneed = PacketHead
  /\ received = <<>> /\ rstat = "open"

-----------------------------------------------------------------------------
(* Writing.                                                                *)

Frame == Last(frames)

\* The copy loop of a data connection writes one chunk after the other.
MayPoll(s) ==
  /\ turn = NoSender /\ ~closed /\ st[s] \in {"idle", "sending"}
  /\ kind = "data" => \A t \in Senders \ {s} : st[t] # "sending"

Enter(s) == turn' = s /\ st' = [st EXCEPT ![s] = "sending"]

\* A call finds no frame left over: its own buffer is encrypted.
PollFresh(s) ==
  /\ MayPoll(s) /\ ~pending /\ Enter(s)
  /\ RsaEncrypt(s, len[s]) \/ AesEncrypt(s, len[s])
  /\ UNCHANGED <<lz4, kind, pending, opening, len, swapped, closed, receiver>>

\* A frame is left over, whoever it belongs to: it is written first, and its end is
\* reported as the end of the buffer of this call.
PollPending(s) ==
  /\ MayPoll(s) /\ pending /\ Enter(s) /\ pending' = FALSE
  /\ UNCHANGED <<lz4, kind, frames, opening, len, swapped, closed, receiver>>

\* The error of encrypt ends the session of the sender.
PollRefused(s) ==
  /\ MayPoll(s) /\ ~pending /\ RsaRefuses(len[s])
  /\ st' = [st EXCEPT ![s] = "failed"] /\ closed' = TRUE
  /\ UNCHANGED <<lz4, cipher, len, turn, swapped, receiver>>

Compress ==
  /\ turn # NoSender /\ Encode(Frame)
  /\ UNCHANGED <<cipher, writer, receiver>>

Write(n) ==
  /\ turn # NoSender /\ WriteOut(Frame, n)
  /\ IF Accepts(Frame, n)
     THEN /\ st' = [st EXCEPT ![turn] = "done"] /\ turn' = NoSender
          /\ swapped' = IF Frame.by = turn THEN swapped ELSE swapped \union {<<turn, Frame.by>>}
     ELSE UNCHANGED <<st, turn, swapped>>
  /\ UNCHANGED <<cipher, len, closed, receiver>>

\* Mutant: the frame is not kept when the transport takes nothing.
PendForgets ==
  /\ turn # NoSender /\ WouldBlock
  /\ turn' = NoSender
  /\ UNCHANGED <<lz4, cipher, len, st, swapped, closed, receiver>>

Pend ==
  /\ turn # NoSender /\ WouldBlock
  /\ pending' = TRUE /\ turn' = NoSender
  /\ UNCHANGED <<lz4, kind, frames, opening, len, st, swapped, closed, receiver>>

\* wait_for drops the future of a sender that is Pending.
Drop(s) ==
  /\ kind = "control" /\ turn = NoSender /\ ~closed /\ st[s] = "sending"
  /\ st' = [st EXCEPT ![s] = "dropped"]
  /\ UNCHANGED <<lz4, cipher, len, turn, swapped, closed, receiver>>

Close ==
  /\ turn = NoSender /\ ~closed /\ closed' = TRUE
  /\ UNCHANGED <<lz4, cipher, len, st, turn, swapped, receiver>>

-----------------------------------------------------------------------------
(* Reading: RecvPacket on a control connection, read on a data connection. *)

ReadRoom == IF kind = "control" THEN pneed - poffset ELSE BufSize

\* What was decompressed while the rings disagree may be something else; the cipher or
\* the packet then makes no sense of it.
Garbled == rstat' = rstat \/ (apart' /\ rstat' = "bad")

\* Text that has come is counted by RecvPacket; a copy loop passes it on.
Gather == poffset' = IF kind = "control" THEN poffset + (ptaken' - ptaken) ELSE 0

Receive ==
  /\ rstat = "open" /\ (kind = "control" => poffset < pneed)
  /\ \/ ReadBelow /\ Garbled
     \/ ReadFrameLength /\ UNCHANGED rstat
     \/ (ReadCache(ReadRoom) \/ RsaDecrypt(ReadRoom) \/ AesDecrypt(ReadRoom)) /\ UNCHANGED rstat
  /\ Gather
  /\ UNCHANGED <<kind, sealing, writer, pbody, pneed, received>>

PacketOf(f) == f.phi = ptaken /\ Text(f) = PacketHead + (IF pbody THEN pneed ELSE 0)
HeadOf(f) == f.plo + PacketHead = ptaken

\* The head is complete and announces a body.
ReadHead ==
  /\ rstat = "open" /\ kind = "control" /\ ~pbody /\ poffset = pneed
  /\ \E k \in DOMAIN frames : HeadOf(frames[k]) /\ Text(frames[k]) > PacketHead
                              /\ pneed' = Text(frames[k]) - PacketHead
  /\ pbody' = TRUE /\ poffset' = 0
  /\ UNCHANGED <<lz4, cipher, writer, received, rstat>>

\* The body is complete, or the head announces none.
Deliver ==
  /\ rstat = "open" /\ kind = "control" /\ poffset = pneed
  /\ \E k \in DOMAIN frames : PacketOf(frames[k]) /\ received' = Append(received, frames[k].by)
  /\ pbody' = FALSE /\ poffset' = 0 /\ pneed' = PacketHead
  /\ UNCHANGED <<lz4, cipher, writer, rstat>>

\* The stream ends: ConnectionReset for RecvPacket, an end like any other for read.
Reset ==
  /\ rstat = "open" /\ closed /\ ~HasCache /\ rpos < cneed /\ AtEnd
  /\ kind = "control" => poffset < pneed
  /\ rstat' = "reset"
  /\ UNCHANGED <<lz4, cipher, writer, pbody, poffset, pneed, received>>

-----------------------------------------------------------------------------
ReadStep == Receive \/ ReadHead \/ Deliver \/ Reset
WriteStep ==
  \/ \E s \in Senders : PollFresh(s) \/ PollPending(s) \/ PollRefused(s)
  \/ Compress \/ (\E n \in 1 .. PipeMax : Write(n)) \/ Pend
Next == WriteStep \/ ReadStep \/ Close \/ \E s \in Senders : Drop(s)

Spec == Init /\ [][Next]_vars

\* The transport goes on, and whoever is woken polls again.
FairSpec == Spec /\ WF_vars(ReadStep) /\ WF_vars(WriteStep)

-----------------------------------------------------------------------------
(* Properties.                                                             *)

\* Three readers each find the length they wait for, and then what it announces, where
\* the writer put it, however the bytes are cut up and whatever each layer keeps back:
\* blocks from the transport, frames from blocks, packets from frames.  Packets are
\* received whole, in the order of their frames (poll_decode_read, poll_decrypt_read,
\* RecvPacket::poll).
ReadsAsWritten ==
  /\ ~HasLeftover /\ doffset = dneed =>
       \E j \in DOMAIN blocks :
         IF dinit THEN DataOf(blocks[j]) /\ blocks[j].lo = taken ELSE LengthOf(blocks[j])
  /\ HasLeftover => rbuf.lo = taken
  /\ ~HasCache /\ rpos = cneed =>
       \E k \in DOMAIN frames :
         IF cinit THEN CipherTextOf(frames[k]) /\ frames[k].plo = ptaken
                  ELSE frames[k].lo + Prefix = taken
  /\ HasCache => cache.lo = ptaken
  /\ kind = "control" /\ poffset = pneed =>
       \E k \in DOMAIN frames : PacketOf(frames[k]) \/ (~pbody /\ HeadOf(frames[k]))
  /\ Len(received) <= Len(frames)
  /\ \A i \in DOMAIN received : received[i] = frames[i].by

\* Bytes of the stream whose blocks have been written in full.
Written == IF ebuf THEN Last(blocks).lo ELSE IF blocks = <<>> THEN 0 ELSE Last(blocks).hi
OnTheWire(k) == k \in DOMAIN frames /\ frames[k].hi <= Written

\* A send that was reported done has put its packet on the wire, once, unless two senders
\* got into each other's way: the call of one wrote the rest of the other's frame, and is
\* then reported done for a packet that was never written, or the other, polled again,
\* has its own written a second time (poll_write of both ciphers returns the length of
\* the buffer it is called with, not of the one it kept).
SentOnce ==
  \A s \in Senders :
    /\ st[s] = "done" =>
         \/ \E k \in DOMAIN frames : frames[k].by = s /\ OnTheWire(k)
         \/ \E t \in Senders : <<s, t>> \in swapped
    /\ \A i, j \in DOMAIN frames :
         i < j /\ frames[i].by = s /\ frames[j].by = s => \E t \in Senders : <<t, s>> \in swapped

Between(b) == Capacity - Bound <= b.ring + Width(b) /\ b.ring + Width(b) < Capacity - MaxBytes

\* An RSA frame is one block, and frame after frame neither the first lap of the ring,
\* which begins behind the handshake, nor a later one comes between the two places.
StepsOver ==
  /\ RsaFrame <= MaxBytes
  /\ \A first \in {Handshake, 0}, i \in 0 .. Capacity :
       LET o == first + i * RsaFrame IN ~(Capacity - Bound <= o /\ o < Capacity - MaxBytes)

\* The copies into both rings stay inside them.  The rings put a block at the same place,
\* which LZ4 asks for of rings this small (lz4.h, "synchronized mode"), unless an offset
\* fell between the place where the decoder starts again and the one where the encoder
\* does; the frames of a control connection step over it.
RingsAgree ==
  /\ ering + MaxBytes <= Capacity /\ dring + MaxBytes <= Capacity
  /\ apart => \E j \in DOMAIN blocks : Between(blocks[j])
  /\ kind = "control" /\ StepsOver => ~apart
  /\ rstat = "bad" => apart

Arrived(k) ==
  IF kind = "control" THEN k <= Len(received) ELSE k \in DOMAIN frames /\ frames[k].phi <= ptaken

\* Nothing stays behind in a buffer of a layer: what is on the wire in full arrives
\* without another byte being sent, and a send that is begun comes to an end.
Arrives ==
  /\ \A k \in 1 .. Cardinality(Senders) : OnTheWire(k) ~> (Arrived(k) \/ rstat = "bad")
  /\ \A s \in Senders : st[s] = "sending" ~> (st[s] # "sending" \/ closed \/ rstat = "bad")

=============================================================================
