\* Two futures that share a connection, or two chunks, through a transport that is
\* easily full.
SPECIFICATION FairSpec
CONSTANTS
  Prefix = 1
  MaxBytes = 4
  Bound = 5
  Capacity = 16
  Sizes = {1, 3}
  PipeMax = 3
  Kinds = {"control", "data"}
  RsaKey = 3
  RsaMax = 2
  KeyDer = 1
  AesBlock = 3
  s1 = s1
  s2 = s2
  Senders = {s1, s2}
  NoSender = NoSender
  Lengths = {1, 2, 3}
  PacketHead = 1
  BufSize = 2
CHECK_DEADLOCK FALSE
INVARIANTS ReadsAsWritten SentOnce RingsAgree
PROPERTIES Arrives
