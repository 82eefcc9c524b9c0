-------------------------------- MODULE Cipher --------------------------------
(***************************************************************************)
(* RSAEncryptor and AESEncryptor (core/encryption) over Lz4Compress: each  *)
(* buffer that is written becomes one frame, its length and then the       *)
(* cipher text, and each frame is opened as a whole.  RSA is that of the   *)
(* control connection ("control"), AES that of a data connection ("data"). *)
(***************************************************************************)
EXTENDS Lz4

CONSTANTS
  Kinds,      \* of connections, out of "control" and "data"
  RsaKey,     \* bytes of an RSA cipher text
  RsaMax,     \* the longest text RSA with this padding takes
  KeyDer,     \* bytes of an RSA public key, as the handshake sends it
  AesBlock    \* AES pads to a multiple of this, by one byte at least

ASSUME CipherAssumption ==
  /\ Kinds \subseteq {"control", "data"}
  /\ RsaKey \in Nat \ {0} /\ RsaMax \in Nat /\ AesBlock \in Nat \ {0} /\ KeyDer \in Nat
  /\ Prefix + KeyDer + 2 * (Prefix + RsaKey) < Capacity - Bound

VARIABLES
  kind,      \* of this connection
  frames,    \* what has been encrypted: by whom, where the frame and where its text lies
  pending,   \* wbuf, aes_ebuf: the last frame is not written in full, and nobody is at it
  cinit, rpos, cneed,  \* dinit, rpos, rbuf.len(): of the frame being read
  cache,     \* cache, aes_dbuf: text that did not fit
  ptaken,    \* bytes of text poll_read has returned, in all
  opened     \* history: frames decrypted

sealing == <<frames, pending>>
opening == <<cinit, rpos, cneed, cache, ptaken, opened>>
cipher == <<kind, sealing, opening>>

RsaFrame == Prefix + RsaKey

\* The handshake sends a public key and its length through the same Lz4Compress each way;
\* the client then sends iv and key, a frame each.
Handshake == Prefix + KeyDer
Preface == IF kind = "control" THEN {Handshake, Handshake + 2 * RsaFrame} ELSE {0}

CipherInit ==
  /\ kind \in Kinds
  /\ frames = <<>> /\ pending = FALSE
  /\ cinit = FALSE /\ rpos = 0 /\ cneed = Prefix
  /\ cache = Upto(0, 0) /\ ptaken = 0 /\ opened = 0

Text(f) == f.phi - f.plo
FrameEnd == IF frames = <<>> THEN 0 ELSE Last(frames).hi
TextEnd == IF frames = <<>> THEN 0 ELSE Last(frames).phi

-----------------------------------------------------------------------------
(* poll_write.                                                             *)

Seal(s, n, length) ==
  frames' = Append(frames, [by |-> s, lo |-> FrameEnd, hi |-> FrameEnd + Prefix + length,
                            plo |-> TextEnd, phi |-> TextEnd + n])

\* encrypt fails for a text that is too long, before anything is written.
RsaRefuses(n) == kind = "control" /\ n > RsaMax
RsaEncrypt(s, n) == kind = "control" /\ n <= RsaMax /\ Seal(s, n, RsaKey)

AesEncrypt(s, n) == kind = "data" /\ Seal(s, n, (n \div AesBlock + 1) * AesBlock)

-----------------------------------------------------------------------------
(* poll_read with room for that many bytes.                                *)

HasCache == cache.lo < cache.hi

ReadCache(room) ==
  /\ HasCache
  /\ LET n == Least(room, Width(cache))
     IN ptaken' = ptaken + n /\ cache' = [cache EXCEPT !.lo = @ + n]
  /\ UNCHANGED <<cinit, rpos, cneed, opened, lz4>>

\* The rest of the length or of the cipher text is read through the decompression.
ReadBelow ==
  /\ ~HasCache /\ rpos < cneed
  /\ \/ ReadLeftover(cneed - rpos)
     \/ \E n \in 1 .. Bound + Prefix : ReadTransport(n)
     \/ ReadLength
     \/ Decompress(cneed - rpos)
  /\ rpos' = rpos + (taken' - taken)
  /\ UNCHANGED <<cinit, cneed, cache, ptaken, opened>>

ReadFrameLength ==
  /\ ~HasCache /\ ~cinit /\ rpos = cneed
  /\ \E k \in DOMAIN frames : frames[k].lo + Prefix = taken /\ cneed' = Width(frames[k]) - Prefix
  /\ cinit' = TRUE /\ rpos' = 0
  /\ UNCHANGED <<cache, ptaken, opened, lz4>>

\* The bytes gathered are the cipher text of this frame.
CipherTextOf(f) == f.hi = taken /\ Width(f) - Prefix = cneed

Decrypt(room) ==
  /\ ~HasCache /\ cinit /\ rpos = cneed
  /\ \E k \in DOMAIN frames :
       LET f == frames[k]
           n == Least(room, Text(f))
       IN /\ CipherTextOf(f)
          /\ ptaken' = ptaken + n
          /\ cache' = [lo |-> f.plo + n, hi |-> f.phi]
  /\ cinit' = FALSE /\ rpos' = 0 /\ cneed' = Prefix /\ opened' = opened + 1
  /\ UNCHANGED lz4

RsaDecrypt(room) == kind = "control" /\ Decrypt(room)
AesDecrypt(room) == kind = "data" /\ Decrypt(room)

=============================================================================
