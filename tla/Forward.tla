------------------------------- MODULE Forward -------------------------------
(***************************************************************************)
(* io::forward (async/io.rs): two streams copied into each other.  Two     *)
(* futures, one for each direction, read a buffer and write it out before  *)
(* they read again; when one of them returns, Forward returns and drops    *)
(* the other with both streams.  The buffers of a direction are counted as *)
(* they are sent by one end, read and written by the copy, and got by the  *)
(* other end; what they hold is left out.                                  *)
(***************************************************************************)
EXTENDS Integers

CONSTANTS
  Links,     \* pairs of streams
  MaxSend    \* bound: buffers an end writes

ASSUME ForwardAssumption == MaxSend \in Nat

Sides == Links \X {"near", "far"}
Other(s) == <<s[1], IF s[2] = "near" THEN "far" ELSE "near">>
Both(l) == {<<l, "near">>, <<l, "far">>}

VARIABLES
  phase,     \* phase[l]: "none", what comes before, "on", then "off"
  sent, read, written, got,  \* of side s, towards Other(s)
  closed,    \* closed[s]: the end at side s has closed its stream
  over,      \* over[s]: what that end was told: nothing, end of file or reset
  cut        \* history: links that were dropped before a direction had ended

streams == <<sent, read, written, got, closed, over>>
forward == <<phase, streams, cut>>

ForwardInit ==
  /\ phase = [l \in Links |-> "none"]
  /\ sent = [s \in Sides |-> 0] /\ read = sent /\ written = sent /\ got = sent
  /\ closed = [s \in Sides |-> FALSE] /\ over = [s \in Sides |-> "no"]
  /\ cut = {}

-----------------------------------------------------------------------------
(* The ends: a client or a server, behind a stream of bytes.               *)

Put(s) ==
  /\ phase[s[1]] = "on" /\ ~closed[s] /\ sent[s] < MaxSend
  /\ sent' = [sent EXCEPT ![s] = @ + 1]
  /\ UNCHANGED <<phase, read, written, got, closed, over, cut>>

Get(s) ==
  /\ got[Other(s)] < written[Other(s)] /\ ~closed[s] /\ over[s] = "no"
  /\ got' = [got EXCEPT ![Other(s)] = @ + 1]
  /\ UNCHANGED <<phase, sent, read, written, closed, over, cut>>

\* A stream that is dropped with something unread in it is reset, and what is under
\* way to its end may be lost; else that end receives all and the end of file.
Told(s) ==
  /\ phase[s[1]] = "off" /\ over[s] = "no"
  /\ \/ got[Other(s)] = written[Other(s)] /\ over' = [over EXCEPT ![s] = "eof"]
     \/ read[s] < sent[s] /\ over' = [over EXCEPT ![s] = "reset"]
  /\ UNCHANGED <<phase, sent, read, written, got, closed, cut>>

CloseEnd(s) ==
  /\ phase[s[1]] # "none" /\ ~closed[s]
  /\ closed' = [closed EXCEPT ![s] = TRUE]
  /\ UNCHANGED <<phase, sent, read, written, got, over, cut>>

-----------------------------------------------------------------------------
(* copy                                                                    *)

Off(l) == phase' = [phase EXCEPT ![l] = "off"]

CopyRead(s) ==
  /\ phase[s[1]] = "on" /\ read[s] = written[s] /\ read[s] < sent[s]
  /\ read' = [read EXCEPT ![s] = @ + 1]
  /\ UNCHANGED <<phase, sent, written, got, closed, over, cut>>

\* write_all fails once the other end is known to be closed.
CopyWrite(s) ==
  /\ phase[s[1]] = "on" /\ written[s] < read[s]
  /\ \/ written' = [written EXCEPT ![s] = @ + 1] /\ UNCHANGED <<phase, cut>>
     \/ /\ closed[Other(s)] /\ Off(s[1]) /\ cut' = cut \union {s[1]}
        /\ UNCHANGED written
  /\ UNCHANGED <<sent, read, got, closed, over>>

\* Mutant: the end of file is acted on while a buffer is still being written.
CopyEofEarly(s) ==
  /\ phase[s[1]] = "on" /\ closed[s] /\ read[s] = sent[s]
  /\ Off(s[1])
  /\ UNCHANGED <<streams, cut>>

\* A read of nothing: the writer is flushed and closed, and Forward is done.
CopyEof(s) ==
  /\ phase[s[1]] = "on" /\ closed[s] /\ read[s] = sent[s] /\ written[s] = read[s]
  /\ Off(s[1])
  /\ UNCHANGED <<streams, cut>>

Forwards(l) == \E s \in Both(l) : CopyRead(s) \/ CopyWrite(s) \/ CopyEof(s)
Ends(l) == \E s \in Both(l) : Put(s) \/ Get(s) \/ Told(s) \/ CloseEnd(s)

-----------------------------------------------------------------------------
ForwardTypeOK ==
  /\ phase \in [Links -> {"none", "offered", "joining", "on", "off"}]
  /\ \A f \in {sent, read, written, got} : f \in [Sides -> 0..MaxSend]
  /\ \A s \in Sides : got[s] <= written[s] /\ written[s] <= read[s] /\ read[s] <= sent[s]
  /\ closed \in [Sides -> BOOLEAN] /\ over \in [Sides -> {"no", "eof", "reset"}]
  /\ cut \subseteq Links

\* An end that reads the end of file has had everything the other end ever wrote,
\* unless it closed first itself, or the link was cut.  A write towards an end that has
\* closed cuts it: what goes towards the end that is still open may then be lost as well,
\* as the order has it in which the two copies are polled.
EofComplete ==
  \A s \in Sides :
    over[s] = "eof" /\ ~closed[s] /\ s[1] \notin cut => got[Other(s)] = sent[Other(s)]
=============================================================================
