------------------------------- MODULE KcpLink -------------------------------
(***************************************************************************)
(* One KCP conversation between a connector, end "a", and a listener, end  *)
(* "b" (net/kcp/mod.rs, net/kcp/stream.rs), over a network that loses,     *)
(* repeats and reorders datagrams: the control blocks of KcpControl, the   *)
(* task that updates each of them, the streams that programs read, write   *)
(* and close, and what is left of a session once its task has ended.       *)
(***************************************************************************)
EXTENDS KcpControl

CONSTANTS
  Messages,   \* Messages[e]: sizes of the messages the program at e writes
  Closers,    \* ends whose program may close its stream
  BufSizes,   \* units a read may ask for
  Start,      \* where sequence numbers stand; 0 unless the link is an old one
  Faults,     \* kinds of fault that may happen
  MaxFaults,  \* how many of them in a behaviour
  Backlog     \* an update waits while more datagrams than this are under way to an end

VARIABLES
  kcp,        \* kcp[e]: the control block
  life,       \* life[e]: the session of e and its update task
  reader,     \* reader[e]: "run", "wait" for read_waker, or how it ended
  kbuf,       \* kbuf[e]: rest of a message larger than the reader's buffer
  handle,     \* handle[e]: the stream is "none", "open", "closing" or "closed"
  todo,       \* todo[e]: messages still to be written
  sent,       \* sent[e]: units written so far
  got,        \* got[e]: units read so far
  net,        \* net[e]: datagrams under way to e
  faults      \* faults so far

vars == <<kcp, life, reader, kbuf, handle, todo, sent, got, net, faults>>

Ends == {"a", "b"}
Far(e) == IF e = "a" THEN "b" ELSE "a"

\* The task of a session is "updating" until it has "ended"; after clean_callback
\* the session is "dead", and is kept for 30 seconds to refuse what still comes.
Life == {"absent", "updating", "ended", "dead", "gone"}
Active(e) == life[e] \in {"updating", "ended"}

FaultKinds == {"lose", "repeat", "reorder", "early", "io", "crash", "restart"}

ASSUME LinkAssumption ==
  /\ Messages \in [Ends -> Seq(1..(WndRcv - 1))]
  /\ Closers \subseteq Ends
  /\ BufSizes \subseteq Nat \ {0} /\ BufSizes # {}
  /\ Start \in 0..(SnMod - 1)
  /\ Faults \subseteq FaultKinds /\ MaxFaults \in Nat /\ Backlog \in Nat
  /\ "restart" \in Faults => Start = 0 /\ Messages["b"] = <<>>

Init ==
  /\ kcp = [e \in Ends |-> Construct(Start)]
  /\ life = [e \in Ends |-> IF e = "a" \/ Start # 0 THEN "updating" ELSE "absent"]
  /\ handle = [e \in Ends |-> IF e = "a" \/ Start # 0 THEN "open" ELSE "none"]
  /\ reader = [e \in Ends |-> "run"]
  /\ kbuf = [e \in Ends |-> <<>>]
  /\ todo = Messages
  /\ sent = [e \in Ends |-> 0]
  /\ got = [e \in Ends |-> <<>>]
  /\ net = [e \in Ends |-> <<>>]
  /\ faults = 0

Fault(kind) == kind \in Faults /\ faults < MaxFaults /\ faults' = faults + 1

Wake(e, k) == IF Peek(k) /\ reader[e] = "wait" THEN [reader EXCEPT ![e] = "run"] ELSE reader
WakeAlways(e) == IF reader[e] = "wait" THEN [reader EXCEPT ![e] = "run"] ELSE reader

-----------------------------------------------------------------------------
(* The programs at the ends, through KcpStream.                            *)

\* poll_write: a message is accepted whole, whatever the window.
Write(e) ==
  /\ handle[e] # "none" /\ todo[e] # <<>> /\ life[e] # "gone"
  /\ IF kcp[e].close_state = "no"
     THEN LET n == Head(todo[e])
          IN /\ kcp' = [kcp EXCEPT ![e] = Send(@, [i \in 1..n |-> sent[e] + i])]
             /\ sent' = [sent EXCEPT ![e] = @ + n]
             /\ todo' = [todo EXCEPT ![e] = Tail(@)]
     ELSE todo' = [todo EXCEPT ![e] = <<>>] /\ UNCHANGED <<kcp, sent>>
  /\ UNCHANGED <<life, reader, kbuf, handle, got, net, faults>>

\* poll_read with a buffer of size units.
ReadRest(e, size) ==
  /\ kbuf[e] # <<>>
  /\ got' = [got EXCEPT ![e] = @ \o SubSeq(kbuf[e], 1, Min({size, Len(kbuf[e])}))]
  /\ kbuf' = [kbuf EXCEPT ![e] = SubSeq(@, size + 1, Len(@))]
  /\ UNCHANGED <<kcp, reader>>

ReadMessage(e, size) ==
  /\ kbuf[e] = <<>> /\ kcp[e].close_state = "no" /\ Peek(kcp[e])
  /\ LET data == DataOf(FrontMessage(kcp[e]))
     IN /\ got' = [got EXCEPT ![e] = @ \o SubSeq(data, 1, Min({size, Len(data)}))]
        /\ kbuf' = [kbuf EXCEPT ![e] = SubSeq(data, size + 1, Len(data))]
        /\ reader' = [reader EXCEPT ![e] = IF data = <<>> THEN "eof" ELSE "run"]
  /\ kcp' = [kcp EXCEPT ![e] = Recv(@)]

ReadNothing(e) ==
  /\ kbuf[e] = <<>>
  /\ \/ kcp[e].close_state # "no" /\ reader' = [reader EXCEPT ![e] = "reset"]
     \/ kcp[e].close_state = "no" /\ ~Peek(kcp[e]) /\ reader' = [reader EXCEPT ![e] = "wait"]
  /\ UNCHANGED <<kcp, kbuf, got>>

Read(e, size) ==
  /\ handle[e] # "none" /\ reader[e] = "run" /\ life[e] # "gone"
  /\ ReadRest(e, size) \/ ReadMessage(e, size) \/ ReadNothing(e)
  /\ UNCHANGED <<life, handle, todo, sent, net, faults>>

\* poll_close or drop: the first of them spawns the close of the session.
CloseStream(e) ==
  /\ e \in Closers /\ handle[e] = "open" /\ life[e] # "gone"
  /\ handle' = [handle EXCEPT ![e] = "closing"]
  /\ UNCHANGED <<kcp, life, reader, kbuf, todo, sent, got, net, faults>>

RunClose(e) ==
  /\ handle[e] = "closing" /\ life[e] # "gone"
  /\ handle' = [handle EXCEPT ![e] = "closed"]
  /\ kcp' = IF Active(e) THEN [kcp EXCEPT ![e] = Close(@)] ELSE kcp
  /\ UNCHANGED <<life, reader, kbuf, todo, sent, got, net, faults>>

-----------------------------------------------------------------------------
(* KcpUpdate.                                                              *)

\* The block was closed while the task slept.  Most often update is called on it:
\* the error ends the task and wakes nobody.  If the task looked at it just before
\* it went to sleep, it wakes the streams first.
EndClosed(e) ==
  /\ life[e] = "updating" /\ kcp[e].close_state = "yes"
  /\ life' = [life EXCEPT ![e] = "ended"]
  /\ reader' \in {reader, WakeAlways(e)}
  /\ UNCHANGED <<kcp, kbuf, handle, todo, sent, got, net, faults>>

\* A segment whose copy or acknowledgement is still under way.
Outstanding(e, sn) ==
  \/ \E i \in DOMAIN net[Far(e)] : net[Far(e)][i].cmd = "PUSH" /\ net[Far(e)][i].sn = sn
  \/ \E i \in DOMAIN net[e] : \/ net[e][i].cmd = "ACK" /\ net[e][i].sn = sn
                              \/ TimeDiff(net[e][i].una, sn) > 0
  \/ /\ life[Far(e)] = "updating" /\ kcp[Far(e)].close_state # "yes"
     /\ sn \in Range(kcp[Far(e)].acklist)

Sns(e) == {kcp[e].snd_buf[i].sn : i \in DOMAIN kcp[e].snd_buf}
Overdue(e) == {sn \in Sns(e) : ~Outstanding(e, sn)}

CanUpdate(e) ==
  life[e] = "updating" /\ kcp[e].close_state # "yes" /\ \A f \in Ends : Len(net[f]) <= Backlog

UpdateOpen(e, flushes, late) ==
  /\ CanUpdate(e)
  /\ IF late \in {{}, Overdue(e)} THEN UNCHANGED faults ELSE Fault("early")
  /\ LET u == Update(kcp[e], flushes, late)
     IN /\ net' = [net EXCEPT ![Far(e)] = @ \o u.out]
        /\ kcp' = [kcp EXCEPT ![e] = IF u.k.dead THEN ForceClose(u.k) ELSE u.k]
        /\ IF u.k.dead \/ u.k.close_state = "yes"
           THEN life' = [life EXCEPT ![e] = "ended"] /\ reader' = WakeAlways(e)
           ELSE reader' = Wake(e, u.k) /\ UNCHANGED life
  /\ UNCHANGED <<kbuf, handle, todo, sent, got>>

\* A flush now would change something: what is sent, the block, or a waiting reader.
HasWork(e) ==
  CanUpdate(e) /\ (\/ Update(kcp[e], TRUE, Overdue(e)) # [k |-> kcp[e], out |-> <<>>]
                   \/ Wake(e, kcp[e]) # reader)

\* The socket refuses to send: the error ends the task as well.
UpdateFails(e) ==
  /\ life[e] = "updating" /\ kcp[e].close_state # "yes"
  /\ Fault("io")
  /\ life' = [life EXCEPT ![e] = "ended"]
  /\ kcp' = [kcp EXCEPT ![e] = Flush(@, {}).k]
  /\ UNCHANGED <<reader, kbuf, handle, todo, sent, got, net>>

\* More than ten seconds in KCP_CLS_WAIT: nothing of the handshake is under way.
WaitExpires(e) ==
  /\ life[e] = "updating" /\ kcp[e].close_state = "wait"
  /\ \A f \in Ends : net[f] = <<>>
  /\ life' = [life EXCEPT ![e] = "ended"]
  /\ UNCHANGED <<kcp, reader, kbuf, handle, todo, sent, got, net, faults>>

\* clean_callback: force_close of Session is Kcp::close.
Clean(e) ==
  /\ life[e] = "ended"
  /\ life' = [life EXCEPT ![e] = "dead"]
  /\ kcp' = [kcp EXCEPT ![e] = Close(@)]
  /\ UNCHANGED <<reader, kbuf, handle, todo, sent, got, net, faults>>

-----------------------------------------------------------------------------
(* run_accept and run_connect: a datagram arrives.                         *)

Without(s, i) == RemoveAt(s, i)

\* The listener takes any datagram of a conversation it does not know for a new one.
Accept(e, p) ==
  /\ life[e] = "absent"
  /\ life' = [life EXCEPT ![e] = "updating"]
  /\ handle' = [handle EXCEPT ![e] = "open"]
  /\ kcp' = [kcp EXCEPT ![e] = Input(Construct(0), p)]
  /\ UNCHANGED reader

InputActive(e, p) ==
  /\ Active(e)
  /\ kcp' = [kcp EXCEPT ![e] = Input(@, p)]
  /\ reader' = Wake(e, kcp'[e])
  /\ UNCHANGED <<life, handle>>

Receive(e, i) ==
  /\ IF i = 1 THEN UNCHANGED faults ELSE Fault("reorder")
  /\ LET p == net[e][i]
         taken == [net EXCEPT ![e] = Without(@, i)]
     IN \/ (Accept(e, p) \/ InputActive(e, p)) /\ net' = taken
        \/ /\ life[e] = "dead"
           /\ net' = [taken EXCEPT ![Far(e)] = Append(@, Bare("CLF"))]
           /\ UNCHANGED <<kcp, life, handle, reader>>
        \/ life[e] = "gone" /\ net' = taken /\ UNCHANGED <<kcp, life, handle, reader>>
  /\ UNCHANGED <<kbuf, todo, sent, got>>

-----------------------------------------------------------------------------
(* Faults.                                                                 *)

Lose(e, i) ==
  /\ Fault("lose") /\ life[e] # "gone"
  /\ net' = [net EXCEPT ![e] = Without(@, i)]
  /\ UNCHANGED <<kcp, life, reader, kbuf, handle, todo, sent, got>>

Repeat(e, i) ==
  /\ Fault("repeat")
  /\ net' = [net EXCEPT ![e] = Append(@, @[i])]
  /\ UNCHANGED <<kcp, life, reader, kbuf, handle, todo, sent, got>>

\* The process of an end is killed and does not come back.
Crash(e) ==
  /\ Fault("crash") /\ life[e] # "gone"
  /\ life' = [life EXCEPT ![e] = "gone"]
  /\ UNCHANGED <<kcp, reader, kbuf, handle, todo, sent, got, net>>

\* The listener is started again on the same port, with no sessions.
Restart ==
  /\ Fault("restart") /\ life["b"] # "absent"
  /\ life' = [life EXCEPT !["b"] = "absent"]
  /\ handle' = [handle EXCEPT !["b"] = "none"]
  /\ reader' = [reader EXCEPT !["b"] = "run"]
  /\ kbuf' = [kbuf EXCEPT !["b"] = <<>>]
  /\ got' = [got EXCEPT !["b"] = <<>>]
  /\ kcp' = [kcp EXCEPT !["b"] = Construct(0)]
  /\ UNCHANGED <<todo, sent, net>>

-----------------------------------------------------------------------------
Next ==
  \E e \in Ends :
    \/ Write(e) \/ CloseStream(e) \/ RunClose(e)
    \/ \E size \in BufSizes : Read(e, size)
    \/ EndClosed(e) \/ UpdateFails(e) \/ WaitExpires(e) \/ Clean(e)
    \/ \E flushes \in BOOLEAN, late \in SUBSET Sns(e) : UpdateOpen(e, flushes, late)
    \/ \E i \in DOMAIN net[e] : Receive(e, i) \/ Lose(e, i) \/ Repeat(e, i)
    \/ Crash(e)
    \/ Restart

Spec == Init /\ [][Next]_vars

\* The tasks of an end are scheduled, its timers fire, its program goes on
\* writing and reading, and a datagram that is not lost arrives.
\* (The two that compute most are written out, with the condition under which
\* they can change something: TLC is slow at ENABLED of them.)
Fairness ==
  \A e \in Ends :
    /\ WF_vars(Write(e)) /\ WF_vars(RunClose(e))
    /\ WF_vars(\E size \in BufSizes : Read(e, size))
    /\ WF_vars(EndClosed(e)) /\ WF_vars(Clean(e))
    /\ (<>[]~HasWork(e) \/ []<><<UpdateOpen(e, TRUE, Overdue(e))>>_vars)
    /\ SF_vars(WaitExpires(e))      \* the timer runs whatever else is sent
    /\ ([]<>(net[e] = <<>>) \/ []<><<net[e] # <<>> /\ Receive(e, 1)>>_vars)

FairSpec == Spec /\ Fairness

-----------------------------------------------------------------------------
(* Properties.                                                             *)

Unit(e) == 1..sent[e]
Segment == [cmd : Cmd, frg : 0..(WndRcv - 1), wnd : 0..RcvWnd, sn : 0..(SnMod - 1),
            una : 0..(SnMod - 1), data : {<<>>} \union {<<u>> : u \in 1..(sent["a"] + sent["b"])}]

TypeOK ==
  /\ \A e \in Ends :
       /\ kcp[e].close_state \in CloseState /\ kcp[e].rmt_wnd \in 0..RcvWnd
       /\ {kcp[e].snd_una, kcp[e].snd_nxt, kcp[e].rcv_nxt} \subseteq 0..(SnMod - 1)
       /\ Range(kcp[e].rcv_buf) \union Range(kcp[e].rcv_queue) \subseteq Segment
       /\ Range(kcp[e].snd_queue) \union Range(net[e]) \subseteq Segment
       /\ Len(kcp[e].rcv_queue) <= RcvWnd /\ Len(kcp[e].snd_buf) <= SndWnd
       /\ kbuf[e] \in Seq(Unit(Far(e))) /\ got[e] \in Seq(Unit(Far(e)))
  /\ life \in [Ends -> Life]
  /\ reader \in [Ends -> {"run", "wait", "eof", "reset"}]
  /\ handle \in [Ends -> {"none", "open", "closing", "closed"}]
  /\ faults \in 0..MaxFaults

\* What was written is in one of the queues, or read: an acknowledgement is never
\* given for a unit the receiving end does not hold (parse_una, parse_ack, move_buf).
UnitsOf(segs) == UNION {Range(segs[i].data) : i \in DOMAIN segs}
NothingForgotten ==
  \A e \in Ends :
    LET k == kcp[e]  far == kcp[Far(e)]
    IN Unit(e) = UnitsOf(k.snd_queue) \union UnitsOf(k.snd_buf)
                 \union UnitsOf(far.rcv_buf) \union UnitsOf(far.rcv_queue)
                 \union Range(kbuf[Far(e)]) \union Range(got[Far(e)])

\* The stream keeps the promise of Pipe.
Promise == INSTANCE Pipe
  WITH over <- [e \in Ends |-> IF reader[e] \in {"eof", "reset"} THEN reader[e] ELSE "no"],
       shut <- [e \in Ends |-> kcp[e].close_state # "no"]
KeepsPromise == Promise!Spec

\* Where nobody closes and no process dies, everything written is read.
Delivers == \A e \in Ends : <>(todo[e] = <<>> /\ Len(got[Far(e)]) = sent[e])

\* A stream that is closed comes to an end: the handshake of CLS segments, the ten
\* seconds of KCP_CLS_WAIT, the dead link or the refusal by a dead session ends it.
\* Only a peer that died with its window shut keeps it: probes are never given up.
CloseEnds ==
  []<>(\A e \in Ends : handle[e] = "closed" =>
         ~Active(e) \/ (kcp[e].rmt_wnd = 0 /\ life[Far(e)] = "gone"))

\* Without a fault the close of one end releases a reader that waits at the other.
CloseReleases ==
  []<>(\A e \in Ends : handle[Far(e)] = "closed" /\ reader[e] = "wait" =>
         handle[e] # "open" \/ faults > 0)
=============================================================================
