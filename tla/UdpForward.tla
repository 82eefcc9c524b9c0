------------------------------ MODULE UdpForward ------------------------------
(***************************************************************************)
(* SOCKS5 UDP associations.  SocksUdpForward, at the server, takes the     *)
(* datagrams of one visitor one at a time and asks SocksUdpForwardMock, at *)
(* the other end of a data connection, to send each to its target and to   *)
(* bring one answer back (net/penetrate/mock/socks.rs, net/socks/mod.rs).  *)
(* The client sends for all associations through one UDP socket: Datagram  *)
(* (net/udp/mod.rs) tells the answers apart by the address they come from. *)
(* The data connection is a reliable stream of packets; see Pipe, KcpLink. *)
(***************************************************************************)
EXTENDS Integers, Sequences

CONSTANTS
  Assocs,     \* associations, one visitor each
  Targets,    \* addresses they send to
  MaxAsk,     \* bound: datagrams the visitors send
  Faults,     \* "lose", "repeat", "bad", "fail", "deaf": see the actions
  MaxFaults   \* bound: how many of them happen

ASSUME UdpAssumption ==
  /\ MaxAsk \in Nat /\ MaxFaults \in Nat
  /\ Faults \subseteq {"lose", "repeat", "bad", "fail", "deaf"}

\* A visitor's datagram, and the VirtualUdpSocket it is sent from.
Requests == [of : Assocs, n : 1..MaxAsk, to : Targets]
None == [n |-> 0]
Bad == [n |-> -1]   \* a datagram that is too short, a fragment, or of no address

VARIABLES
  ctl,        \* ctl[a]: the visitor's TCP connection
  asks,       \* datagrams sent so far
  inbox,      \* inbox[a]: datagrams waiting in the UDP socket of the server
  srv,        \* srv[a]: where SocksUdpForward is
  cur,        \* cur[a]: the request it is busy with
  up,         \* up[a]: packets to the client
  down,       \* down[a]: answers to the server, each a sequence of datagrams
  cl,         \* cl[a]: where SocksUdpForwardMock is
  sock,       \* sock[a]: its VirtualUdpSocket
  sessions,   \* sessions[t]: the socket that answers from t go to
  buf,        \* buf[r]: answers put into the buffer of socket r
  dropped,    \* sockets dropped whose close_callback has still to run
  asking,     \* requests at their target
  receiving,  \* the receiver task of Datagram is running
  faults,
  clash       \* history: addresses with two sockets at a time, or two answers to one request

visitor == <<ctl, asks, inbox>>
server == <<srv, cur, up>>
client == <<cl, sock, down>>
datagram == <<sessions, buf, dropped, asking, receiving>>
vars == <<visitor, server, client, datagram, faults, clash>>

Init ==
  /\ ctl = [a \in Assocs |-> "open"] /\ asks = 0
  /\ inbox = [a \in Assocs |-> <<>>]
  /\ srv = [a \in Assocs |-> "idle"] /\ cur = [a \in Assocs |-> None]
  /\ up = [a \in Assocs |-> <<>>] /\ down = [a \in Assocs |-> <<>>]
  /\ cl = [a \in Assocs |-> "command"] /\ sock = [a \in Assocs |-> None]
  /\ sessions = [t \in Targets |-> None]
  /\ buf = [r \in Requests |-> <<>>]
  /\ dropped = {} /\ asking = {} /\ receiving = TRUE
  /\ faults = 0 /\ clash = {}

Fault(f) == f \in Faults /\ faults < MaxFaults /\ faults' = faults + 1

-----------------------------------------------------------------------------
(* The visitor.                                                            *)

Ask(a) ==
  /\ ctl[a] = "open" /\ srv[a] # "done" /\ asks < MaxAsk
  /\ asks' = asks + 1
  /\ \/ /\ \E t \in Targets :
             inbox' = [inbox EXCEPT ![a] = Append(@, [of |-> a, n |-> asks', to |-> t])]
        /\ UNCHANGED faults
     \/ Fault("bad") /\ inbox' = [inbox EXCEPT ![a] = Append(@, Bad)]
  /\ UNCHANGED <<ctl, server, client, datagram, clash>>

Hangup(a) ==
  /\ ctl[a] = "open" /\ ctl' = [ctl EXCEPT ![a] = "closed"]
  /\ UNCHANGED <<asks, inbox, server, client, datagram, faults, clash>>

-----------------------------------------------------------------------------
(* SocksUdpForward: two futures under one Select.                          *)

Packet(type, r) == [type |-> type, r |-> r]
Send(a, type, r) == up' = [up EXCEPT ![a] = Append(@, Packet(type, r))]

\* The future that returns first takes the other one with it, and the streams.
ServerDone(a) ==
  /\ srv' = [srv EXCEPT ![a] = "done"] /\ cur' = [cur EXCEPT ![a] = None]
  /\ ctl' = [ctl EXCEPT ![a] = "closed"]
  /\ inbox' = [inbox EXCEPT ![a] = <<>>] /\ down' = [down EXCEPT ![a] = <<>>]

\* fut1 reads to the end of the control connection and sends Close.  fut2 may be
\* pending between its two writes, or within one: then the packet is torn.
NoticeHangup(a) ==
  /\ ctl[a] = "closed" /\ srv[a] # "done"
  /\ ServerDone(a)
  /\ \/ Send(a, "close", None)
     \/ srv[a] = "named" /\ Send(a, "torn", None)
  /\ UNCHANGED <<asks, cl, sock, datagram, faults, clash>>

\* fut2: a bad datagram ends the association.
TakeDatagram(a) ==
  /\ srv[a] = "idle" /\ inbox[a] # <<>>
  /\ LET r == Head(inbox[a])
     IN IF r = Bad THEN ServerDone(a) /\ UNCHANGED up
        ELSE /\ srv' = [srv EXCEPT ![a] = "named"] /\ cur' = [cur EXCEPT ![a] = r]
             /\ inbox' = [inbox EXCEPT ![a] = Tail(@)]
             /\ Send(a, "forward", r)
             /\ UNCHANGED <<ctl, down>>
  /\ UNCHANGED <<asks, cl, sock, datagram, faults, clash>>

SendData(a) ==
  /\ srv[a] = "named" /\ srv' = [srv EXCEPT ![a] = "asked"]
  /\ Send(a, "data", cur[a])
  /\ UNCHANGED <<visitor, cur, client, datagram, faults, clash>>

\* Whatever packet comes back is sent to the visitor as the answer from cur[a].to.
GiveAnswer(a) ==
  /\ srv[a] = "asked" /\ down[a] # <<>>
  /\ srv' = [srv EXCEPT ![a] = "idle"] /\ cur' = [cur EXCEPT ![a] = None]
  /\ down' = [down EXCEPT ![a] = Tail(@)]
  /\ UNCHANGED <<visitor, up, cl, sock, datagram, faults, clash>>

\* Mutant: the end of the data connection is seen only when the visitor has hung up.
ServerEofLate(a) ==
  /\ srv[a] = "asked" /\ down[a] = <<>> /\ cl[a] = "done" /\ ctl[a] = "closed"
  /\ ServerDone(a)
  /\ UNCHANGED <<asks, up, cl, sock, datagram, faults, clash>>

ServerEof(a) ==
  /\ srv[a] = "asked" /\ down[a] = <<>> /\ cl[a] = "done"
  /\ ServerDone(a)
  /\ UNCHANGED <<asks, up, cl, sock, datagram, faults, clash>>

-----------------------------------------------------------------------------
(* SocksUdpForwardMock and Datagram::connect.                              *)

Receive(a) == up' = [up EXCEPT ![a] = Tail(@)]
ClientDone(a) == cl' = [cl EXCEPT ![a] = "done"]

\* Mutant: the socket is dropped without its callback.
DropSocketSilently(a) ==
  /\ sock' = [sock EXCEPT ![a] = None]
  /\ UNCHANGED dropped

\* The socket goes out of scope: its close_callback only spawns the removal.
DropSocket(a) ==
  /\ dropped' = IF sock[a] = None THEN dropped ELSE dropped \union {sock[a]}
  /\ sock' = [sock EXCEPT ![a] = None]

\* Datagram::connect gives the answers from r.to to a new socket.
Connect(a, r) ==
  /\ sessions' = [sessions EXCEPT ![r.to] = r]
  /\ sock' = [sock EXCEPT ![a] = r]
  /\ clash' = IF \E q \in dropped \union asking \union ({sock[b] : b \in Assocs} \ {None}) :
                   q.to = r.to
              THEN clash \union {r.to} ELSE clash

\* Anything but a Forward ends the loop, and so does an address without a socket.
TakeCommand(a) ==
  /\ cl[a] = "command" /\ up[a] # <<>>
  /\ Receive(a)
  /\ LET p == Head(up[a])
     IN \/ /\ p.type = "forward"
           /\ Connect(a, p.r) /\ cl' = [cl EXCEPT ![a] = "named"]
           /\ UNCHANGED faults
        \/ /\ p.type = "forward" /\ Fault("fail")
           /\ ClientDone(a) /\ UNCHANGED <<sock, sessions, clash>>
        \/ /\ p.type # "forward"
           /\ ClientDone(a) /\ UNCHANGED <<sock, sessions, clash, faults>>
  /\ UNCHANGED <<visitor, srv, cur, down, buf, dropped, asking, receiving>>

\* The packet after it is sent off unseen, even if it is a Close.  A target that gets
\* one may answer it or not.
TakeData(a) ==
  /\ cl[a] = "named" /\ up[a] # <<>>
  /\ Receive(a)
  /\ LET p == Head(up[a])
     IN \/ /\ p.type \in {"data", "close"} /\ cl' = [cl EXCEPT ![a] = "waiting"]
           /\ asking' = asking \union {sock[a]}
           /\ UNCHANGED <<sock, dropped, faults>>
        \/ /\ p.type = "close" /\ cl' = [cl EXCEPT ![a] = "waiting"]
           /\ UNCHANGED <<sock, dropped, asking, faults>>
        \/ /\ IF p.type = "torn" THEN UNCHANGED faults ELSE Fault("fail")
           /\ ClientDone(a) /\ DropSocket(a) /\ UNCHANGED asking
  /\ UNCHANGED <<visitor, srv, cur, down, sessions, buf, receiving, clash>>

\* Mutant: the end of the stream is noticed only within a request.
ClientEofInside(a) ==
  /\ cl[a] = "named" /\ up[a] = <<>> /\ srv[a] = "done"
  /\ ClientDone(a) /\ DropSocket(a)
  /\ UNCHANGED <<visitor, server, down, sessions, buf, asking, receiving, faults, clash>>

ClientEof(a) ==
  /\ cl[a] \in {"command", "named"} /\ up[a] = <<>> /\ srv[a] = "done"
  /\ ClientDone(a) /\ DropSocket(a)
  /\ UNCHANGED <<visitor, server, down, sessions, buf, asking, receiving, faults, clash>>

\* All that is in the buffer is one answer: Buffer keeps no datagrams apart.
TakeAnswer(a) ==
  /\ cl[a] = "waiting" /\ buf[sock[a]] # <<>>
  /\ IF srv[a] = "done" THEN ClientDone(a) /\ UNCHANGED down
     ELSE /\ cl' = [cl EXCEPT ![a] = "command"]
          /\ down' = [down EXCEPT ![a] = Append(@, buf[sock[a]])]
  /\ buf' = [buf EXCEPT ![sock[a]] = <<>>]
  /\ DropSocket(a)
  /\ UNCHANGED <<visitor, server, sessions, asking, receiving, faults, clash>>

-----------------------------------------------------------------------------
(* Datagram: removals, and the receiver.                                   *)

\* Mutant: the whole map goes with one socket.
RemoveAll(r) ==
  /\ r \in dropped /\ dropped' = dropped \ {r}
  /\ sessions' = [t \in Targets |-> None]
  /\ buf' = [buf EXCEPT ![r] = <<>>]
  /\ UNCHANGED <<visitor, server, client, asking, receiving, faults, clash>>

\* The entry of the address goes, whichever socket it is of.
Remove(r) ==
  /\ r \in dropped /\ dropped' = dropped \ {r}
  /\ sessions' = [sessions EXCEPT ![r.to] = None]
  /\ buf' = [buf EXCEPT ![r] = <<>>]
  /\ UNCHANGED <<visitor, server, client, asking, receiving, faults, clash>>

\* Mutant: an answer goes to the socket of any address.
AnswerAny(r) ==
  /\ r \in asking /\ asking' = asking \ {r}
  /\ \E t \in Targets :
       buf' = IF receiving /\ sessions[t] # None
              THEN [buf EXCEPT ![sessions[t]] = Append(@, r)] ELSE buf
  /\ UNCHANGED <<visitor, server, client, sessions, dropped, receiving, faults, clash>>

Answer(r) ==
  /\ r \in asking
  /\ buf' = IF receiving /\ sessions[r.to] # None
            THEN [buf EXCEPT ![sessions[r.to]] = Append(@, r)] ELSE buf
  /\ \/ asking' = asking \ {r} /\ UNCHANGED <<faults, clash>>
     \/ Fault("repeat") /\ clash' = clash \union {r.to} /\ UNCHANGED asking
  /\ UNCHANGED <<visitor, server, client, sessions, dropped, receiving>>

\* An empty answer is as good as none: poll_recv looks at the length of the buffer.
Lose(r) ==
  /\ r \in asking /\ Fault("lose")
  /\ asking' = asking \ {r}
  /\ UNCHANGED <<visitor, server, client, sessions, buf, dropped, receiving, clash>>

\* The receiver task ends with the first error of recv_from.
Deaf ==
  /\ receiving /\ Fault("deaf") /\ receiving' = FALSE
  /\ UNCHANGED <<visitor, server, client, sessions, buf, dropped, asking, clash>>

-----------------------------------------------------------------------------
Forwarding(a) == TakeDatagram(a) \/ SendData(a) \/ GiveAnswer(a) \/ ServerEof(a)
Mock(a) == TakeCommand(a) \/ TakeData(a) \/ ClientEof(a) \/ TakeAnswer(a)

Next ==
  \/ \E a \in Assocs : Ask(a) \/ Hangup(a) \/ NoticeHangup(a) \/ Forwarding(a) \/ Mock(a)
  \/ \E r \in dropped : Remove(r)
  \/ \E r \in asking : Answer(r) \/ Lose(r)
  \/ Deaf

Spec == Init /\ [][Next]_vars

\* Tasks that can go on are polled, and a target that is reached answers.
FairSpec ==
  /\ Spec
  /\ \A a \in Assocs :
       WF_vars(NoticeHangup(a)) /\ WF_vars(Forwarding(a)) /\ WF_vars(Mock(a))
  /\ \A r \in Requests : WF_vars(Remove(r)) /\ WF_vars(Answer(r))

-----------------------------------------------------------------------------
(* Properties.                                                             *)

TypeOK ==
  /\ ctl \in [Assocs -> {"open", "closed"}] /\ asks \in 0..MaxAsk
  /\ inbox \in [Assocs -> Seq(Requests \union {Bad})]
  /\ srv \in [Assocs -> {"idle", "named", "asked", "done"}]
  /\ cur \in [Assocs -> Requests \union {None}]
  /\ up \in [Assocs -> Seq([type : {"forward", "data", "close", "torn"},
                            r : Requests \union {None}])]
  /\ down \in [Assocs -> Seq(Seq(Requests))]
  /\ cl \in [Assocs -> {"command", "named", "waiting", "done"}]
  /\ sock \in [Assocs -> Requests \union {None}]
  /\ sessions \in [Targets -> Requests \union {None}]
  /\ buf \in [Requests -> Seq(Requests)]
  /\ dropped \subseteq Requests /\ asking \subseteq Requests
  /\ receiving \in BOOLEAN /\ faults \in 0..MaxFaults /\ clash \subseteq Targets

\* What a visitor gets as the answer from an address is one answer, from there and to
\* the request it made last; two sockets of one address at a time may be given each
\* other's answers, or several as one, but never those of another address.
AnswersOwn ==
  [][\A a \in Assocs : srv[a] = "asked" /\ srv'[a] = "idle" =>
       /\ \A i \in 1..Len(down[a][1]) : down[a][1][i].to = cur[a].to
       /\ down[a] = << <<cur[a]>> >> \/ cur[a].to \in clash]_vars

\* A socket that waits for an answer can be found by it, unless there was another one
\* of its address: that one's entry replaced its own, or its late removal took it.
FoundByAnswer ==
  \A a \in Assocs :
    cl[a] = "waiting" /\ sock[a].to \notin clash => sessions[sock[a].to] = sock[a]

\* No entry outlives its socket by more than the removal still to run.
NoEntryLeft ==
  \A t \in Targets :
    sessions[t] # None => sessions[t] \in dropped \/ \E a \in Assocs : sock[a] = sessions[t]

\* The client waits for an answer that will not come.
Abandoned(a) ==
  /\ cl[a] = "waiting" /\ buf[sock[a]] = <<>>
  /\ ~receiving \/ \A r \in asking : sessions[r.to] # sock[a]

\* When the visitor hangs up both ends of its association end, except that a client
\* never looks at the data connection while it waits for an answer.
HangupEnds ==
  []<>(\A a \in Assocs : ctl[a] = "closed" =>
         srv[a] = "done" /\ (cl[a] = "done" \/ Abandoned(a)))

\* Every datagram of a visitor is taken in turn, unless one before it was abandoned.
TakesAll ==
  []<>(\A a \in Assocs : Abandoned(a) \/ srv[a] = "done" \/ (srv[a] = "idle" /\ inbox[a] = <<>>))
=============================================================================
