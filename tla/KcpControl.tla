----------------------------- MODULE KcpControl -----------------------------
(***************************************************************************)
(* The control block of one end of a KCP conversation                      *)
(* (net/kcp/third_party/mod.rs) as operators over a record: what send,     *)
(* recv, input, update and the two closes do to it and what they put on    *)
(* the wire.  It keeps no state of its own; KcpLink holds one per end.     *)
(*                                                                         *)
(* A segment carries one unit of data or none: the unit is a full mss.     *)
(* Every segment is a datagram of its own.  Time is left out: which        *)
(* segments are due for a repeat is an argument of Update, so fast         *)
(* retransmission, rto and the congestion window, which Session::new       *)
(* switches off, have no place here.                                       *)
(***************************************************************************)
EXTENDS Integers, SequencesExt

CONSTANTS
  SndWnd,     \* snd_wnd, 1024 in Session::new
  RcvWnd,     \* rcv_wnd, 1024 in Session::new
  WndRcv,     \* KCP_WND_RCV: the peer's window at first; a message that long is refused
  DeadLink,   \* transmissions of one segment that kill the link
  SnMod      \* sequence numbers are counted modulo this, 2^32 in the code

ASSUME WindowsFit ==
  /\ {SndWnd, RcvWnd, WndRcv, DeadLink, SnMod} \subseteq Nat \ {0}
  /\ WndRcv <= RcvWnd               \* set_wndsize: never below KCP_WND_RCV
  /\ 2 * (SndWnd + RcvWnd) <= SnMod

Cmd == {"PUSH", "ACK", "WASK", "WINS", "CLS", "CLF"}
CloseState == {"no", "yes", "wsnd", "wrcv", "wait"}

\* wnd, una and sn are 0 in the segments made with ..Default::default().
Bare(cmd) == [cmd |-> cmd, frg |-> 0, wnd |-> 0, sn |-> 0, una |-> 0, data |-> <<>>]

\* Kcp::construct; s is 0, or where a long conversation has got to.
Construct(s) ==
  [close_state |-> "no", dead |-> FALSE, snd_una |-> s, snd_nxt |-> s, rcv_nxt |-> s,
   rmt_wnd |-> WndRcv, probe |-> {}, probe_wait |-> FALSE,
   snd_queue |-> <<>>, snd_buf |-> <<>>, rcv_buf |-> <<>>, rcv_queue |-> <<>>,
   acklist |-> <<>>, buf |-> <<>>]

\* timediff of a release build: the difference as a signed word.
TimeDiff(later, earlier) ==
  LET d == (later - earlier) % SnMod IN IF 2 * d < SnMod THEN d ELSE d - SnMod

WaitSnd(k) == Len(k.snd_buf) + Len(k.snd_queue)
WndUnused(k) == IF Len(k.rcv_queue) < RcvWnd THEN RcvWnd - Len(k.rcv_queue) ELSE 0

-----------------------------------------------------------------------------
(* Receiving side.                                                         *)

\* Mutant: whatever is next in rcv_buf is taken for the continuation.
MoveBufUnordered(k) ==
  LET n == Min({Len(k.rcv_buf), RcvWnd - Len(k.rcv_queue)})
  IN [k EXCEPT !.rcv_nxt = (@ + n) % SnMod,
               !.rcv_queue = @ \o SubSeq(k.rcv_buf, 1, n),
               !.rcv_buf = SubSeq(@, n + 1, Len(@))]

\* move_buf: segments that continue the stream go to the queue of the reader.
MoveBuf(k) ==
  LET Moves(n) == \A i \in 1..n : /\ k.rcv_buf[i].sn = (k.rcv_nxt + i - 1) % SnMod
                                  /\ Len(k.rcv_queue) + i - 1 < RcvWnd
      n == Max({i \in 0..Len(k.rcv_buf) : Moves(i)})
  IN [k EXCEPT !.rcv_nxt = (@ + n) % SnMod,
               !.rcv_queue = @ \o SubSeq(k.rcv_buf, 1, n),
               !.rcv_buf = SubSeq(@, n + 1, Len(@))]

ParseData(k, seg) ==
  LET repeat == \E i \in DOMAIN k.rcv_buf : k.rcv_buf[i].sn = seg.sn
      place == Cardinality({i \in DOMAIN k.rcv_buf : TimeDiff(seg.sn, k.rcv_buf[i].sn) > 0})
  IN MoveBuf(IF repeat THEN k ELSE [k EXCEPT !.rcv_buf = InsertAt(@, place + 1, seg)])

\* Segments of the message at the front of rcv_queue: up to the first with frg = 0.
FrontMessage(k) ==
  LET ends == {i \in DOMAIN k.rcv_queue : k.rcv_queue[i].frg = 0}
  IN SubSeq(k.rcv_queue, 1, IF ends = {} THEN Len(k.rcv_queue) ELSE Min(ends))

\* peeksize is Ok: a whole message can be read.
Peek(k) == k.rcv_queue # <<>> /\ Len(k.rcv_queue) > Head(k.rcv_queue).frg

DataOf(segs) == FlattenSeq([i \in DOMAIN segs |-> segs[i].data])

\* recv, where it returns Ok: the control block after it.  It merges FrontMessage.
Recv(k) ==
  LET full == Len(k.rcv_queue) >= RcvWnd
      n == Len(FrontMessage(k))
      moved == MoveBuf([k EXCEPT !.rcv_queue = SubSeq(@, n + 1, Len(@))])
  IN IF full /\ Len(moved.rcv_queue) < RcvWnd
     THEN [moved EXCEPT !.probe = @ \union {"tell"}] ELSE moved

-----------------------------------------------------------------------------
(* Sending side.                                                           *)

\* send in message mode; an empty buffer still makes one segment.
Send(k, units) ==
  LET count == Max({1, Len(units)})
      Seg(i) == [Bare("PUSH") EXCEPT !.frg = count - i,
                                     !.data = SubSeq(units, i, Min({i, Len(units)}))]
  IN [k EXCEPT !.snd_queue = @ \o [i \in 1..count |-> Seg(i)]]

ShrinkBuf(k) ==
  [k EXCEPT !.snd_una = IF k.snd_buf = <<>> THEN k.snd_nxt ELSE Head(k.snd_buf).sn]

\* parse_ack: the search stops at the first number above sn, compared unsigned.
ParseAck(k, sn) ==
  LET found == {i \in DOMAIN k.snd_buf : /\ k.snd_buf[i].sn = sn
                                         /\ \A j \in 1..(i - 1) : k.snd_buf[j].sn < sn}
      known == TimeDiff(sn, k.snd_una) >= 0 /\ TimeDiff(sn, k.snd_nxt) < 0
  IN IF known /\ found # {}
     THEN [k EXCEPT !.snd_buf = RemoveAt(@, CHOOSE i \in found : TRUE)] ELSE k

\* Mutant: una itself is taken for acknowledged.
ParseUnaInclusive(k, una) ==
  LET Acked(n) == \A i \in 1..n : TimeDiff(una, k.snd_buf[i].sn) >= 0
      n == Max({i \in 0..Len(k.snd_buf) : Acked(i)})
  IN [k EXCEPT !.snd_buf = SubSeq(@, n + 1, Len(@))]

ParseUna(k, una) ==
  LET Acked(n) == \A i \in 1..n : TimeDiff(una, k.snd_buf[i].sn) > 0
      n == Max({i \in 0..Len(k.snd_buf) : Acked(i)})
  IN [k EXCEPT !.snd_buf = SubSeq(@, n + 1, Len(@))]

-----------------------------------------------------------------------------
(* One datagram from the peer.                                             *)

InputPush(k, seg) ==
  IF TimeDiff(seg.sn, k.rcv_nxt + RcvWnd) >= 0 THEN k
  ELSE LET acked == [k EXCEPT !.acklist = Append(@, seg.sn)]
       IN IF TimeDiff(seg.sn, k.rcv_nxt) >= 0 THEN ParseData(acked, seg) ELSE acked

\* Mutant: only an end that closed first takes part in the handshake.
InputCloseFirst(k) ==
  [k EXCEPT !.close_state = IF @ = "wait" THEN "yes" ELSE @]

InputClose(k) ==
  [k EXCEPT !.close_state = CASE @ = "wait" -> "yes" [] @ = "no" -> "wrcv" [] OTHER -> @]

Input(k, seg) ==
  LET heard == ShrinkBuf(ParseUna([k EXCEPT !.rmt_wnd = seg.wnd], seg.una))
  IN CASE seg.cmd = "ACK"  -> ShrinkBuf(ParseAck(heard, seg.sn))
       [] seg.cmd = "PUSH" -> InputPush(heard, seg)
       [] seg.cmd = "WASK" -> [heard EXCEPT !.probe = @ \union {"tell"}]
       [] seg.cmd = "WINS" -> heard
       [] seg.cmd = "CLS"  -> InputClose(heard)
       [] seg.cmd = "CLF"  -> [heard EXCEPT !.close_state = "yes"]

-----------------------------------------------------------------------------
(* The periodic update.  Wire operators return [k |-> block, out |-> sent]. *)

Answer(k, cmd, sn) ==
  [Bare(cmd) EXCEPT !.wnd = WndUnused(k), !.una = k.rcv_nxt, !.sn = sn]

\* _flush_ack: acknowledgements go to the output buffer.
FlushAck(k) ==
  [k EXCEPT !.buf = @ \o [i \in DOMAIN k.acklist |-> Answer(k, "ACK", k.acklist[i])],
            !.acklist = <<>>]

\* Mutant: a shut window is never asked about.
ProbeWndSizeNever(k) == [k EXCEPT !.probe_wait = (k.rmt_wnd = 0)]

\* probe_wnd_size: from the second flush on that finds the peer's window shut, ask.
ProbeWndSize(k) ==
  IF k.rmt_wnd # 0 THEN [k EXCEPT !.probe_wait = FALSE]
  ELSE [k EXCEPT !.probe_wait = TRUE, !.probe = @ \union (IF k.probe_wait THEN {"ask"} ELSE {})]

FlushProbeCommands(k) ==
  [k EXCEPT !.buf = @ \o (IF "ask" \in k.probe THEN <<Answer(k, "WASK", 0)>> ELSE <<>>)
                      \o (IF "tell" \in k.probe THEN <<Answer(k, "WINS", 0)>> ELSE <<>>),
            !.probe = {}]

\* Mutant: the window of the peer alone bounds what is under way.
FillWindowRemote(k) ==
  LET room == k.rmt_wnd - TimeDiff(k.snd_nxt, k.snd_una)
      n == Max({0, Min({room, Len(k.snd_queue)})})
      Numbered(i) == [frg |-> k.snd_queue[i].frg, sn |-> (k.snd_nxt + i - 1) % SnMod,
                      data |-> k.snd_queue[i].data, xmit |-> 0]
  IN [k EXCEPT !.snd_buf = @ \o [i \in 1..n |-> Numbered(i)],
               !.snd_queue = SubSeq(@, n + 1, Len(@)),
               !.snd_nxt = (@ + n) % SnMod]

\* snd_queue -> snd_buf while the window has room; every segment becomes a PUSH,
\* whose wnd and una are filled in when it is sent.
FillWindow(k) ==
  LET room == Min({SndWnd, k.rmt_wnd}) - TimeDiff(k.snd_nxt, k.snd_una)
      n == Max({0, Min({room, Len(k.snd_queue)})})
      Numbered(i) == [frg |-> k.snd_queue[i].frg, sn |-> (k.snd_nxt + i - 1) % SnMod,
                      data |-> k.snd_queue[i].data, xmit |-> 0]
  IN [k EXCEPT !.snd_buf = @ \o [i \in 1..n |-> Numbered(i)],
               !.snd_queue = SubSeq(@, n + 1, Len(@)),
               !.snd_nxt = (@ + n) % SnMod]

OnWire(k, seg) == [Answer(k, "PUSH", seg.sn) EXCEPT !.frg = seg.frg, !.data = seg.data]

\* Mutant: a repetition is not counted.
TransmitUncounted(k, late) ==
  LET Due(s) == s.xmit = 0 \/ s.sn \in late
      Sent(s) == IF Due(s) THEN [s EXCEPT !.xmit = 1] ELSE s
      buf == [i \in DOMAIN k.snd_buf |-> Sent(k.snd_buf[i])]
  IN [k EXCEPT !.snd_buf = buf,
               !.buf = @ \o FlattenSeq([i \in DOMAIN buf |->
                          IF Due(k.snd_buf[i]) THEN <<OnWire(k, buf[i])>> ELSE <<>>]),
               !.dead = @ \/ \E i \in DOMAIN buf : Due(k.snd_buf[i]) /\ buf[i].xmit >= DeadLink]

\* What the loop over snd_buf sends: new segments and the late ones.
Transmit(k, late) ==
  LET Due(s) == s.xmit = 0 \/ s.sn \in late
      Sent(s) == IF Due(s) THEN [s EXCEPT !.xmit = @ + 1] ELSE s
      buf == [i \in DOMAIN k.snd_buf |-> Sent(k.snd_buf[i])]
  IN [k EXCEPT !.snd_buf = buf,
               !.buf = @ \o FlattenSeq([i \in DOMAIN buf |->
                          IF Due(k.snd_buf[i]) THEN <<OnWire(k, buf[i])>> ELSE <<>>]),
               !.dead = @ \/ \E i \in DOMAIN buf : Due(k.snd_buf[i]) /\ buf[i].xmit >= DeadLink]

Flush(k, late) ==
  LET full == Transmit(FillWindow(FlushProbeCommands(ProbeWndSize(FlushAck(k)))), late)
  IN [k |-> [full EXCEPT !.buf = <<>>], out |-> full.buf]

\* Closing, half one: all is acknowledged.  The copy of CLS queued for repetition
\* goes through FillWindow, which makes a PUSH without data of it.
CloseSend(w) ==
  LET k == IF w.k.close_state = "wsnd" THEN FlushAck(w.k) ELSE w.k
  IN IF k.close_state = "wsnd" /\ WaitSnd(k) = 0
     THEN [k |-> [k EXCEPT !.snd_queue = Append(@, Bare("CLS")), !.close_state = "wait"],
           out |-> Append(w.out, Bare("CLS"))]
     ELSE [k |-> k, out |-> w.out]

\* Closing, half two: the peer's CLS is answered at once, whatever is unsent or unread.
CloseAnswer(w) ==
  IF w.k.close_state = "wrcv"
  THEN [k |-> [w.k EXCEPT !.close_state = "yes"], out |-> Append(w.out, Bare("CLS"))]
  ELSE w

\* update, where close_state is not yes; it flushes when the interval has passed.
Update(k, flushes, late) ==
  CloseAnswer(CloseSend(IF flushes THEN Flush(k, late) ELSE [k |-> k, out |-> <<>>]))

Close(k) == IF k.close_state = "no" THEN [k EXCEPT !.close_state = "wsnd"] ELSE k
ForceClose(k) == [k EXCEPT !.close_state = "yes"]
=============================================================================
