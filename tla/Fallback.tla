------------------------------ MODULE Fallback ------------------------------
(***************************************************************************)
(* The read-ahead guard around a visitor's stream (core/guard/fallback.rs, *)
(* over the byte queue of core/guard/buffer.rs): between mark() and        *)
(* backward() what is read is remembered, and afterwards it is read again. *)
(*                                                                         *)
(* A byte is its position in what the visitor sends, so that the order in  *)
(* which bytes come out can be told.  Writes are those of a guard that is  *)
(* not strict, as every selector builds it (selector.rs:46).               *)
(***************************************************************************)
EXTENDS Naturals, Sequences

VARIABLES
  wire,     \* sent by the visitor and not yet read from its connection
  fin,      \* has the visitor closed its side
  marked,   \* marked_buf
  backed    \* backed_buf

fallbackVars == <<wire, fin, marked, backed>>

\* Option<Buffer>: a sequence of at most one buffer.
None == <<>>
Some(buf) == <<buf>>
Data(opt) == IF opt = None THEN <<>> ELSE opt[1]

\* Fallback::new, and the mark of async_penetrate_handle.
Marked(sent) ==
  /\ wire = sent
  /\ fin = FALSE
  /\ marked = Some(<<>>)
  /\ backed = None

\* The mark that is in place after mark(), and what is backed after backward()
\* with mark m.
Placed == IF marked = None THEN Some(<<>>) ELSE marked

\* Mutant: what an earlier adapter gave back is replaced, not extended.
GivenBackReplaces(m) == IF m = None THEN backed ELSE m

GivenBack(m) == IF m = None THEN backed ELSE Some(Data(backed) \o m[1])

Mark ==
  /\ marked' = Placed
  /\ UNCHANGED <<wire, fin, backed>>

Backward ==
  /\ backed' = GivenBack(marked)
  /\ marked' = None
  /\ UNCHANGED <<wire, fin>>

\* consume_back_data, and what a write does to the buffers first.
DropBuffers ==
  /\ marked' = None
  /\ backed' = None
  /\ UNCHANGED <<wire, fin>>

\* How many bytes a read with this much room may return: a given-back buffer
\* fills the room as far as it goes, a connection returns what has arrived.
ReadSizes(room) ==
  IF backed # None
  THEN {n \in {room, Len(Data(backed))} : n <= room /\ n <= Len(Data(backed))} \ {0}
  ELSE {n \in 1 .. room : n <= Len(wire)}

ReadBytes(n) == SubSeq(IF backed # None THEN Data(backed) ELSE wire, 1, n)

\* poll_read returns n > 0 bytes.
Read(n) ==
  /\ LET rest == SubSeq(Data(backed), n + 1, Len(Data(backed)))
     IN IF backed # None
        THEN backed' = (IF rest = <<>> THEN None ELSE Some(rest)) /\ UNCHANGED wire
        ELSE wire' = SubSeq(wire, n + 1, Len(wire)) /\ UNCHANGED backed
  /\ marked' = IF marked = None THEN None ELSE Some(marked[1] \o ReadBytes(n))
  /\ UNCHANGED fin

\* poll_read returns 0: no room, an empty given-back buffer, or the end.
ReadsNothing(room) ==
  \/ room = 0
  \/ backed # None /\ Data(backed) = <<>>
  \/ backed = None /\ wire = <<>> /\ fin

\* A read of a given-back buffer never waits.
ReadPends == backed = None
=============================================================================
