--------------------------- MODULE UdpForwardProofs ---------------------------
(***************************************************************************)
(* Module UdpForward: who gets which answer, and what becomes of the       *)
(* entries of the shared socket, for every number of associations, targets *)
(* and datagrams and every choice of faults.                               *)
(***************************************************************************)
EXTENDS UdpForward, SequenceTheorems, TLAPS

Socket == Requests \union {None}
PacketType == {"forward", "data", "close", "torn"}
Packets == [type : PacketType, r : Socket]

\* A forward names a request; both ends know what they are busy with.
Named ==
  /\ \A a \in Assocs : \A i \in 1..Len(up[a]) : up[a][i].type = "forward" => up[a][i].r \in Requests
  /\ \A a \in Assocs : srv[a] \in {"named", "asked"} => cur[a] \in Requests
  /\ \A a \in Assocs : cl[a] \in {"named", "waiting"} <=> sock[a] \in Requests
Types == TypeOK /\ Named

\* The map of Datagram.  Found: a socket has the entry of its address; Lone: two
\* sockets of one address, one of them perhaps dropped, are a clash.
At == \A t \in Targets : sessions[t] # None => sessions[t].to = t
Found ==
  \A a \in Assocs :
    sock[a] \in Requests /\ sock[a].to \notin clash => sessions[sock[a].to] = sock[a]
Lone ==
  \A a \in Assocs : sock[a] \in Requests /\ sock[a].to \notin clash =>
    /\ \A q \in dropped : q.to # sock[a].to
    /\ \A b \in Assocs : b # a /\ sock[b] \in Requests => sock[b].to # sock[a].to
Book == At /\ NoEntryLeft /\ Found /\ Lone

\* What is in the buffers: answers from the address of the socket, in the buffers of
\* sockets that exist or are about to be removed; without a clash, one answer at most.
Held(q) == q \in dropped \/ \E b \in Assocs : sock[b] = q
FromAddress ==
  \A q \in Requests : /\ \A i \in 1..Len(buf[q]) : buf[q][i].to = q.to
                      /\ buf[q] # <<>> => Held(q)
OneAnswer ==
  \A a \in Assocs : sock[a] \in Requests /\ sock[a].to \notin clash =>
    /\ \A q \in asking : q.to = sock[a].to => q = sock[a] /\ cl[a] = "waiting"
    /\ \/ buf[sock[a]] = <<>>
       \/ buf[sock[a]] = <<sock[a]>> /\ sock[a] \notin asking /\ cl[a] = "waiting"
Buffers == FromAddress /\ OneAnswer

\* The two loops of an association are at the same request.
Right(x, r) == /\ \A i \in 1..Len(x) : x[i].to = r.to
               /\ x = <<r>> \/ r.to \in clash
Aligned(a) ==
  \/ (cl[a] = "done" \/ srv[a] = "done") /\ down[a] = <<>>
  \/ srv[a] = "idle" /\ cl[a] = "command" /\ up[a] = <<>> /\ down[a] = <<>>
  \/ /\ srv[a] = "named" /\ down[a] = <<>>
     /\ \/ cl[a] = "command" /\ up[a] = <<Packet("forward", cur[a])>>
        \/ cl[a] = "named" /\ up[a] = <<>> /\ sock[a] = cur[a]
  \/ /\ srv[a] = "asked" /\ down[a] = <<>>
     /\ \/ cl[a] = "command" /\ up[a] = <<Packet("forward", cur[a]), Packet("data", cur[a])>>
        \/ cl[a] = "named" /\ up[a] = <<Packet("data", cur[a])>> /\ sock[a] = cur[a]
        \/ cl[a] = "waiting" /\ up[a] = <<>> /\ sock[a] = cur[a]
  \/ /\ srv[a] = "asked" /\ cl[a] = "command" /\ up[a] = <<>>
     /\ Len(down[a]) = 1 /\ Right(down[a][1], cur[a])
AllAligned == \A a \in Assocs : Aligned(a)

IndInv == Types /\ Book /\ Buffers /\ AllAligned

-----------------------------------------------------------------------------
(* Data.                                                                   *)

\* Requests, None and Bad are told apart.
LEMMA RequestIs ==
  /\ None \notin Requests /\ Bad \notin Requests /\ None # Bad
  /\ \A r \in Requests : r.to \in Targets
<1>1. \A r \in Requests : r.n \in 1..MaxAsk /\ r.to \in Targets
  BY DEF Requests
<1>2. None.n = 0 /\ Bad.n = -1
  BY DEF None, Bad
<1>3. MaxAsk \in Nat
  BY UdpAssumption
<1> QED BY <1>1, <1>2, <1>3

\* What a packet holds.
LEMMA PacketIs ==
  ASSUME NEW t \in PacketType, NEW r \in Socket
  PROVE  Packet(t, r) \in Packets /\ Packet(t, r).type = t /\ Packet(t, r).r = r
BY DEF Packet, Packets

\* What Append does to a sequence.
LEMMA SeqFacts ==
  ASSUME NEW S, NEW s \in Seq(S), NEW e \in S
  PROVE  /\ Append(s, e) \in Seq(S) /\ Len(Append(s, e)) = Len(s) + 1
         /\ \A i \in 1..Len(s) : Append(s, e)[i] = s[i]
         /\ Append(s, e)[Len(s) + 1] = e
OBVIOUS

\* What Append does to no sequence at all.
LEMMA AppendEmpty ==
  ASSUME NEW e
  PROVE  Append(<<>>, e) = <<e>>
OBVIOUS

\* What Tail and Head take from a sequence.
LEMMA TailFacts ==
  ASSUME NEW S, NEW s \in Seq(S), s # <<>>
  PROVE  /\ Tail(s) \in Seq(S) /\ Head(s) \in S /\ Head(s) = s[1] /\ Len(s) >= 1
         /\ Len(Tail(s)) = Len(s) - 1
         /\ \A i \in 1..Len(Tail(s)) : Tail(s)[i] = s[i + 1]
BY HeadTailProperties

\* A sequence of one.
LEMMA Single ==
  ASSUME NEW p
  PROVE  <<p>> # <<>> /\ Head(<<p>>) = p /\ Tail(<<p>>) = <<>>
<1>1. Head(<<p>>) = p
  OBVIOUS
<1>2. Tail(<<p>>) = <<>>
  OBVIOUS
<1> QED BY <1>1, <1>2

\* A sequence of two.
LEMMA TwoLong ==
  ASSUME NEW S, NEW s \in Seq(S), Len(s) = 2
  PROVE  s = <<s[1], s[2]>>
OBVIOUS

\* A sequence of two, taken apart and put together.
LEMMA Pair ==
  ASSUME NEW p, NEW q
  PROVE  <<p, q>> # <<>> /\ Head(<<p, q>>) = p /\ Tail(<<p, q>>) = <<q>> /\ Append(<<p>>, q) = <<p, q>>
<1>1. Head(<<p, q>>) = p /\ <<p, q>> # <<>>
  OBVIOUS
<1>2. Tail(<<p, q>>) = <<q>>
  OBVIOUS
<1>3. Append(<<p>>, q) = <<p, q>>
  <2> DEFINE s == Append(<<p>>, q)
  <2>1. <<p>> \in Seq({p, q}) /\ Len(<<p>>) = 1 /\ <<p>>[1] = p
    OBVIOUS
  <2>2. s \in Seq({p, q}) /\ Len(s) = 2 /\ s[1] = p /\ s[2] = q
    BY <2>1, SeqFacts
  <2>3. s = <<s[1], s[2]>>
    <3> HIDE DEF s
    <3> QED BY <2>2, TwoLong
  <2> QED BY <2>2, <2>3
<1> QED BY <1>1, <1>2, <1>3

\* A sequence of length one.
LEMMA ShortSeq ==
  ASSUME NEW S, NEW s \in Seq(S), Len(s) = 1
  PROVE  s # <<>> /\ s = <<s[1]>> /\ Tail(s) = <<>>
<1>1. s = <<s[1]>>
  OBVIOUS
<1> QED BY <1>1, Single

-----------------------------------------------------------------------------
(* Packets under way, and what an association does to itself alone.        *)

PacketsUp == /\ up \in [Assocs -> Seq(Packets)]
             /\ \A b \in Assocs : \A i \in 1..Len(up[b]) :
                  up[b][i].type = "forward" => up[b][i].r \in Requests

\* Packets under way are typed.
LEMMA TypesUp == Types => PacketsUp
BY DEF Types, TypeOK, Named, PacketsUp, Packets, PacketType, Socket

\* A packet that is sent is behind the others.
LEMMA SendUp ==
  ASSUME PacketsUp, NEW a \in Assocs, NEW t \in PacketType, NEW r \in Socket,
         t = "forward" => r \in Requests, Send(a, t, r)
  PROVE  PacketsUp' /\ up'[a] = Append(up[a], Packet(t, r)) /\ \A b \in Assocs \ {a} : up'[b] = up[b]
<1>1. up[a] \in Seq(Packets) /\ Packet(t, r) \in Packets
      /\ Packet(t, r).type = t /\ Packet(t, r).r = r
  BY PacketIs DEF PacketsUp
<1>2. up' = [up EXCEPT ![a] = Append(up[a], Packet(t, r))]
  BY DEF Send
<1>3. Append(up[a], Packet(t, r)) \in Seq(Packets)
      /\ Len(Append(up[a], Packet(t, r))) = Len(up[a]) + 1
      /\ (\A i \in 1..Len(up[a]) : Append(up[a], Packet(t, r))[i] = up[a][i])
      /\ Append(up[a], Packet(t, r))[Len(up[a]) + 1] = Packet(t, r)
  BY <1>1, SeqFacts
<1>4. up' \in [Assocs -> Seq(Packets)] /\ up'[a] = Append(up[a], Packet(t, r))
      /\ \A b \in Assocs \ {a} : up'[b] = up[b]
  BY <1>2, <1>3 DEF PacketsUp
<1>5. ASSUME NEW i \in 1..Len(up'[a]), up'[a][i].type = "forward" PROVE up'[a][i].r \in Requests
  <2>1. i \in 1..Len(up[a]) \/ i = Len(up[a]) + 1
    BY <1>1, <1>3, <1>4
  <2>2. CASE i \in 1..Len(up[a])
    BY <2>2, <1>3, <1>4, <1>5 DEF PacketsUp
  <2>3. CASE i = Len(up[a]) + 1
    BY <2>3, <1>1, <1>3, <1>4, <1>5
  <2> QED BY <2>1, <2>2, <2>3
<1>6. ASSUME NEW b \in Assocs, NEW i \in 1..Len(up'[b]), up'[b][i].type = "forward"
      PROVE  up'[b][i].r \in Requests
  BY <1>4, <1>5, <1>6 DEF PacketsUp
<1> QED BY <1>4, <1>6 DEF PacketsUp

\* A packet that is received leaves the others.
LEMMA ReceiveUp ==
  ASSUME PacketsUp, NEW a \in Assocs, up[a] # <<>>, Receive(a)
  PROVE  /\ PacketsUp' /\ up'[a] = Tail(up[a]) /\ \A b \in Assocs \ {a} : up'[b] = up[b]
         /\ Head(up[a]) \in Packets
         /\ Head(up[a]).type = "forward" => Head(up[a]).r \in Requests
<1>1. up[a] \in Seq(Packets) /\ up' = [up EXCEPT ![a] = Tail(up[a])]
  BY DEF PacketsUp, Receive
<1>2. /\ Tail(up[a]) \in Seq(Packets) /\ Head(up[a]) \in Packets
      /\ Head(up[a]) = up[a][1] /\ Len(up[a]) >= 1 /\ Len(up[a]) \in Nat
      /\ Len(Tail(up[a])) = Len(up[a]) - 1
      /\ \A i \in 1..Len(Tail(up[a])) : Tail(up[a])[i] = up[a][i + 1]
  BY <1>1, TailFacts
<1>3. up' \in [Assocs -> Seq(Packets)] /\ up'[a] = Tail(up[a])
      /\ \A b \in Assocs \ {a} : up'[b] = up[b]
  BY <1>1, <1>2 DEF PacketsUp
<1>4. ASSUME NEW i \in 1..Len(up'[a]), up'[a][i].type = "forward" PROVE up'[a][i].r \in Requests
  <2>1. i + 1 \in 1..Len(up[a]) /\ up'[a][i] = up[a][i + 1]
    BY <1>2, <1>3
  <2> QED BY <2>1, <1>4 DEF PacketsUp
<1>5. ASSUME NEW b \in Assocs, NEW i \in 1..Len(up'[b]), up'[b][i].type = "forward"
      PROVE  up'[b][i].r \in Requests
  BY <1>3, <1>4, <1>5 DEF PacketsUp
<1>6. Head(up[a]).type = "forward" => Head(up[a]).r \in Requests
  <2>1. 1 \in 1..Len(up[a])
    BY <1>2
  <2> QED BY <2>1, <1>2 DEF PacketsUp
<1> QED BY <1>2, <1>3, <1>5, <1>6 DEF PacketsUp

\* Every type but those of up; together with PacketsUp they are Types.
Rest ==
  /\ ctl \in [Assocs -> {"open", "closed"}] /\ asks \in 0..MaxAsk
  /\ inbox \in [Assocs -> Seq(Requests \union {Bad})]
  /\ srv \in [Assocs -> {"idle", "named", "asked", "done"}]
  /\ cur \in [Assocs -> Socket]
  /\ down \in [Assocs -> Seq(Seq(Requests))]
  /\ cl \in [Assocs -> {"command", "named", "waiting", "done"}]
  /\ sock \in [Assocs -> Socket]
  /\ sessions \in [Targets -> Socket]
  /\ buf \in [Requests -> Seq(Requests)]
  /\ dropped \subseteq Requests /\ asking \subseteq Requests
  /\ receiving \in BOOLEAN /\ faults \in 0..MaxFaults /\ clash \subseteq Targets
  /\ \A a \in Assocs : srv[a] \in {"named", "asked"} => cur[a] \in Requests
  /\ \A a \in Assocs : cl[a] \in {"named", "waiting"} <=> sock[a] \in Requests

\* The types are those of the packets and the rest.
LEMMA TypesSplit == Types <=> PacketsUp /\ Rest
BY DEF Types, TypeOK, Named, PacketsUp, Rest, Packets, PacketType, Socket

\* The same in the next state.
LEMMA TypesNext == PacketsUp' /\ Rest' => Types'
BY DEF Types, TypeOK, Named, PacketsUp, Rest, Packets, PacketType, Socket

\* Faults stay within their bound.
LEMMA FaultIs ==
  ASSUME Rest, NEW f, Fault(f)
  PROVE  faults' \in 0..MaxFaults
BY UdpAssumption DEF Rest, Fault

\* Other associations are not touched.
LEMMA AlignedOthers ==
  ASSUME AllAligned, NEW a \in Assocs,
         \A b \in Assocs \ {a} : /\ srv'[b] = srv[b] /\ cur'[b] = cur[b] /\ cl'[b] = cl[b]
                               /\ up'[b] = up[b] /\ down'[b] = down[b] /\ sock'[b] = sock[b],
         clash \subseteq clash', Aligned(a)'
  PROVE  AllAligned'
BY DEF AllAligned, Aligned, Right

\* Nothing but the books changes, and of these only clash matters.
LEMMA AlignedSame ==
  ASSUME AllAligned, UNCHANGED <<srv, cur, cl, up, down, sock>>, clash \subseteq clash'
  PROVE  AllAligned'
BY DEF AllAligned, Aligned, Right

\* The books of the shared socket, as long as nobody touches them.
LEMMA BooksSame ==
  ASSUME Book, Buffers, UNCHANGED <<cl, sock, sessions, buf, dropped, asking, clash>>
  PROVE  Book' /\ Buffers'
BY DEF Book, At, NoEntryLeft, Found, Lone, Buffers, FromAddress, Held, OneAnswer

-----------------------------------------------------------------------------
(* The visitor and SocksUdpForward.                                        *)

\* A datagram of a visitor waits at the server.
LEMMA AskInd ==
  ASSUME IndInv, NEW a \in Assocs, Ask(a)
  PROVE  IndInv'
<1>1. PacketsUp /\ Rest
  BY TypesSplit DEF IndInv
<1>2. UNCHANGED <<ctl, server, client, datagram, clash>> /\ asks' = asks + 1 /\ asks < MaxAsk
  BY DEF Ask
<1>3. asks' \in 0..MaxAsk /\ asks' \in 1..MaxAsk
  BY <1>1, <1>2, UdpAssumption DEF Rest
<1>4. PICK m \in Requests \union {Bad} : inbox' = [inbox EXCEPT ![a] = Append(@, m)]
  <2>1. CASE \E t \in Targets :
               inbox' = [inbox EXCEPT ![a] = Append(@, [of |-> a, n |-> asks', to |-> t])]
    <3>1. \A t \in Targets : [of |-> a, n |-> asks', to |-> t] \in Requests
      BY <1>3 DEF Requests
    <3> QED BY <2>1, <3>1
  <2>2. CASE inbox' = [inbox EXCEPT ![a] = Append(@, Bad)]
    BY <2>2
  <2> QED BY <2>1, <2>2 DEF Ask
<1>5. inbox' \in [Assocs -> Seq(Requests \union {Bad})]
  BY <1>1, <1>4, SeqFacts DEF Rest
<1>6. faults' \in 0..MaxFaults
  BY <1>1, FaultIs DEF Ask, Rest
<1>7. PacketsUp' /\ Rest'
  BY <1>1, <1>2, <1>3, <1>5, <1>6 DEF PacketsUp, Rest, server, client, datagram
<1>8. Book' /\ Buffers' /\ AllAligned'
  BY <1>2, BooksSame, AlignedSame DEF IndInv, server, client, datagram
<1> QED BY <1>7, <1>8, TypesNext DEF IndInv

\* A visitor that hangs up touches no request.
LEMMA HangupInd ==
  ASSUME IndInv, NEW a \in Assocs, Hangup(a)
  PROVE  IndInv'
<1>1. PacketsUp /\ Rest
  BY TypesSplit DEF IndInv
<1>2. PacketsUp' /\ Rest'
  BY <1>1 DEF Hangup, PacketsUp, Rest, server, client, datagram
<1>3. Book' /\ Buffers' /\ AllAligned'
  BY BooksSame, AlignedSame DEF Hangup, IndInv, server, client, datagram
<1> QED BY <1>2, <1>3, TypesNext DEF IndInv

\* SocksUdpForward ends, with or without a last packet.
LEMMA ServerDoneInd ==
  ASSUME IndInv, NEW a \in Assocs, ServerDone(a),
         PacketsUp', \A b \in Assocs \ {a} : up'[b] = up[b],
         UNCHANGED <<asks, cl, sock, datagram, faults, clash>>
  PROVE  IndInv'
<1>1. Rest
  BY TypesSplit DEF IndInv
<1>2. /\ srv' = [srv EXCEPT ![a] = "done"] /\ cur' = [cur EXCEPT ![a] = None]
      /\ ctl' = [ctl EXCEPT ![a] = "closed"]
      /\ inbox' = [inbox EXCEPT ![a] = <<>>] /\ down' = [down EXCEPT ![a] = <<>>]
  BY DEF ServerDone
<1>3. inbox' \in [Assocs -> Seq(Requests \union {Bad})] /\ down' \in [Assocs -> Seq(Seq(Requests))]
  <2>1. <<>> \in Seq(Requests \union {Bad}) /\ <<>> \in Seq(Seq(Requests))
    OBVIOUS
  <2> QED BY <1>1, <1>2, <2>1 DEF Rest
<1>4. Rest'
  BY <1>1, <1>2, <1>3 DEF Rest, datagram, Socket
<1>5. Book' /\ Buffers'
  BY BooksSame DEF IndInv, datagram
<1>6. Aligned(a)'
  BY <1>1, <1>2 DEF Rest, Aligned
<1>7. AllAligned'
  BY <1>1, <1>2, <1>6, AlignedOthers DEF IndInv, Rest
<1> QED BY <1>4, <1>5, <1>7, TypesNext DEF IndInv

\* The server that notices a hang-up sends a Close, whole or torn, behind what it sent before.
LEMMA NoticeHangupInd ==
  ASSUME IndInv, NEW a \in Assocs, NoticeHangup(a)
  PROVE  IndInv'
<1>1. PacketsUp /\ None \in Socket /\ {"close", "torn"} \subseteq PacketType
  BY TypesSplit DEF IndInv, Socket, PacketType
<1>2. PacketsUp' /\ \A b \in Assocs \ {a} : up'[b] = up[b]
  <2>1. CASE Send(a, "close", None)
    BY <2>1, <1>1, SendUp
  <2>2. CASE Send(a, "torn", None)
    BY <2>2, <1>1, SendUp
  <2> QED BY <2>1, <2>2 DEF NoticeHangup
<1> QED BY <1>2, ServerDoneInd DEF NoticeHangup

\* The loop of the server ends with the connection of the client.
LEMMA ServerEofInd ==
  ASSUME IndInv, NEW a \in Assocs, ServerEof(a)
  PROVE  IndInv'
<1>1. PacketsUp' /\ \A b \in Assocs \ {a} : up'[b] = up[b]
  BY TypesSplit DEF ServerEof, IndInv, PacketsUp
<1> QED BY <1>1, ServerDoneInd DEF ServerEof

\* The server goes on to a new request after it gave the last answer, when the client is at
\* none.
LEMMA TakeDatagramInd ==
  ASSUME IndInv, NEW a \in Assocs, TakeDatagram(a)
  PROVE  IndInv'
<1> DEFINE r == Head(inbox[a])
<1>1. PacketsUp /\ Rest
  BY TypesSplit DEF IndInv
<1>2. inbox[a] \in Seq(Requests \union {Bad}) /\ inbox[a] # <<>> /\ srv[a] = "idle"
  BY <1>1 DEF TakeDatagram, Rest
<1>3. r \in Requests \union {Bad} /\ Tail(inbox[a]) \in Seq(Requests \union {Bad})
  BY <1>2, TailFacts
<1>4. CASE r = Bad
  <2>1. ServerDone(a) /\ UNCHANGED up /\ UNCHANGED <<asks, cl, sock, datagram, faults, clash>>
    BY <1>4 DEF TakeDatagram
  <2>2. PacketsUp'
    BY <1>1, <2>1 DEF PacketsUp
  <2> QED BY <2>1, <2>2, ServerDoneInd
<1>5. CASE r # Bad
  <2>1. /\ srv' = [srv EXCEPT ![a] = "named"] /\ cur' = [cur EXCEPT ![a] = r]
        /\ inbox' = [inbox EXCEPT ![a] = Tail(@)] /\ Send(a, "forward", r)
        /\ UNCHANGED <<ctl, down>> /\ UNCHANGED <<asks, cl, sock, datagram, faults, clash>>
    BY <1>5 DEF TakeDatagram
  <2>2. r \in Requests /\ r \in Socket /\ "forward" \in PacketType
    BY <1>3, <1>5 DEF Socket, PacketType
  <2> HIDE DEF r
  <2>3. PacketsUp' /\ up'[a] = Append(up[a], Packet("forward", r))
        /\ \A b \in Assocs \ {a} : up'[b] = up[b]
    BY <1>1, <2>1, <2>2, SendUp
  <2>4. inbox' \in [Assocs -> Seq(Requests \union {Bad})]
    BY <1>1, <1>3, <2>1 DEF Rest
  <2>5. Rest'
    BY <1>1, <2>1, <2>2, <2>4 DEF Rest, datagram
  <2>6. Book' /\ Buffers'
    BY <2>1, BooksSame DEF IndInv, datagram
  <2>7. Aligned(a)
    BY DEF IndInv, AllAligned
  <2>8. srv'[a] = "named" /\ cur'[a] = r /\ UNCHANGED <<down, cl>>
    BY <1>1, <2>1 DEF Rest
  <2>9. Aligned(a)'
    <3>1. CASE cl[a] = "done" /\ down[a] = <<>>
      BY <3>1, <2>8 DEF Aligned
    <3>2. CASE cl[a] = "command" /\ up[a] = <<>> /\ down[a] = <<>>
      BY <3>2, <2>3, <2>8, AppendEmpty DEF Aligned
    <3> QED BY <3>1, <3>2, <2>7, <1>2 DEF Aligned
  <2>10. AllAligned'
    BY <1>1, <2>1, <2>3, <2>9, AlignedOthers DEF IndInv, Rest
  <2> QED BY <2>3, <2>5, <2>6, <2>10, TypesNext DEF IndInv
<1> QED BY <1>4, <1>5

\* The data follows the request it belongs to.
LEMMA SendDataInd ==
  ASSUME IndInv, NEW a \in Assocs, SendData(a)
  PROVE  IndInv'
<1>1. PacketsUp /\ Rest
  BY TypesSplit DEF IndInv
<1>2. srv[a] = "named" /\ cur[a] \in Socket /\ "data" \in PacketType
  BY <1>1 DEF SendData, Rest, PacketType
<1>3. /\ srv' = [srv EXCEPT ![a] = "asked"] /\ Send(a, "data", cur[a])
      /\ UNCHANGED <<visitor, cur, client, datagram, faults, clash>>
  BY DEF SendData
<1>4. PacketsUp' /\ up'[a] = Append(up[a], Packet("data", cur[a]))
      /\ \A b \in Assocs \ {a} : up'[b] = up[b]
  BY <1>1, <1>2, <1>3, SendUp
<1>5. Rest'
  BY <1>1, <1>2, <1>3 DEF Rest, visitor, client, datagram
<1>6. Book' /\ Buffers'
  BY <1>3, BooksSame DEF IndInv, client, datagram
<1>7. srv'[a] = "asked" /\ UNCHANGED <<cur, down, cl, sock>> /\ Aligned(a)
  BY <1>1, <1>3 DEF Rest, client, IndInv, AllAligned
<1>8. Aligned(a)'
  <2>1. CASE cl[a] = "done" /\ down[a] = <<>>
    BY <2>1, <1>7 DEF Aligned
  <2>2. CASE down[a] = <<>> /\ cl[a] = "command" /\ up[a] = <<Packet("forward", cur[a])>>
    BY <2>2, <1>4, <1>7, Pair DEF Aligned
  <2>3. CASE down[a] = <<>> /\ cl[a] = "named" /\ up[a] = <<>> /\ sock[a] = cur[a]
    BY <2>3, <1>4, <1>7, AppendEmpty DEF Aligned
  <2> QED BY <2>1, <2>2, <2>3, <1>2, <1>7 DEF Aligned
<1>9. AllAligned'
  BY <1>1, <1>3, <1>4, <1>8, AlignedOthers DEF IndInv, Rest, client
<1> QED BY <1>4, <1>5, <1>6, <1>9, TypesNext DEF IndInv

\* The answer is that of the request both loops are at.
LEMMA GiveAnswerInd ==
  ASSUME IndInv, NEW a \in Assocs, GiveAnswer(a)
  PROVE  IndInv' /\ Len(down[a]) = 1 /\ Right(down[a][1], cur[a])
<1>1. PacketsUp /\ Rest
  BY TypesSplit DEF IndInv
<1>2. srv[a] = "asked" /\ down[a] # <<>> /\ down[a] \in Seq(Seq(Requests))
  BY <1>1 DEF GiveAnswer, Rest
<1>3. /\ srv' = [srv EXCEPT ![a] = "idle"] /\ cur' = [cur EXCEPT ![a] = None]
      /\ down' = [down EXCEPT ![a] = Tail(@)]
      /\ UNCHANGED <<visitor, up, cl, sock, datagram, faults, clash>>
  BY DEF GiveAnswer
<1>4. cl[a] = "command" /\ up[a] = <<>> /\ Len(down[a]) = 1 /\ Right(down[a][1], cur[a])
  BY <1>2 DEF IndInv, AllAligned, Aligned
<1>5. Tail(down[a]) = <<>> /\ Tail(down[a]) \in Seq(Seq(Requests))
  BY <1>2, <1>4, ShortSeq
<1>6. down' \in [Assocs -> Seq(Seq(Requests))] /\ down'[a] = <<>> /\ srv'[a] = "idle"
  BY <1>1, <1>3, <1>5 DEF Rest
<1>7. PacketsUp' /\ Rest'
  BY <1>1, <1>3, <1>6 DEF PacketsUp, Rest, visitor, datagram, Socket
<1>8. Book' /\ Buffers'
  BY <1>3, BooksSame DEF IndInv, datagram
<1>9. Aligned(a)'
  BY <1>3, <1>4, <1>6 DEF Aligned
<1>10. AllAligned'
  BY <1>1, <1>3, <1>9, AlignedOthers DEF IndInv, Rest
<1> QED BY <1>4, <1>7, <1>8, <1>10, TypesNext DEF IndInv

-----------------------------------------------------------------------------
(* SocksUdpForwardMock: what it does to the books.                         *)

\* A socket of Datagram::connect, at an association that has none.
LEMMA ConnectBooks ==
  ASSUME Rest, Book, Buffers, NEW a \in Assocs, NEW r \in Requests, sock[a] = None,
         Connect(a, r), cl' = [cl EXCEPT ![a] = "named"], UNCHANGED <<buf, dropped, asking>>
  PROVE  Book' /\ Buffers'
<1>1. /\ sessions' = [sessions EXCEPT ![r.to] = r] /\ sock' = [sock EXCEPT ![a] = r]
      /\ r.to \in Targets /\ None \notin Requests
  BY RequestIs DEF Connect
<1>2. clash \subseteq clash'
  BY DEF Connect
<1>3. r.to \notin clash' =>
        /\ \A q \in dropped \union asking : q.to # r.to
        /\ \A b \in Assocs : sock[b] \in Requests => sock[b].to # r.to
  BY <1>1 DEF Connect
<1>4. /\ sessions'[r.to] = r /\ \A t \in Targets : t # r.to => sessions'[t] = sessions[t]
      /\ sock'[a] = r /\ \A b \in Assocs : b # a => sock'[b] = sock[b] /\ cl'[b] = cl[b]
      /\ dropped' = dropped /\ asking' = asking /\ buf' = buf
  BY <1>1 DEF Rest
<1>5. \A b \in Assocs : sock[b] \in Requests => b # a /\ sock[b].to \in Targets
  BY <1>1, RequestIs
<1>6. At'
  BY <1>4 DEF Book, At
<1>7. NoEntryLeft'
  <2>1. ASSUME NEW t \in Targets, sessions'[t] # None
        PROVE  sessions'[t] \in dropped \/ \E b \in Assocs : sock'[b] = sessions'[t]
    BY <2>1, <1>4 DEF Book, NoEntryLeft
  <2> QED BY <2>1, <1>4 DEF NoEntryLeft
<1>8. Found' /\ Lone'
  <2>1. ASSUME NEW b \in Assocs, sock'[b] \in Requests, sock'[b].to \notin clash'
        PROVE  /\ sessions'[sock'[b].to] = sock'[b]
               /\ \A q \in dropped : q.to # sock'[b].to
               /\ \A d \in Assocs : d # b /\ sock'[d] \in Requests => sock'[d].to # sock'[b].to
    <3>1. CASE b = a
      BY <3>1, <2>1, <1>3, <1>4
    <3>2. CASE b # a
      <4>1. sock'[b] = sock[b] /\ sock[b] \in Requests /\ sock[b].to \notin clash
        BY <3>2, <2>1, <1>2, <1>4
      <4>2. sock[b].to # r.to
        BY <4>1, <2>1, <1>3
      <4> QED BY <3>2, <4>1, <4>2, <1>4, <1>5 DEF Book, Found, Lone
    <3> QED BY <3>1, <3>2
  <2> QED BY <2>1, <1>4 DEF Found, Lone
<1>9. \A q \in Requests : Held(q) => Held(q)'
  BY <1>1, <1>4, <1>5 DEF Held
<1>10. FromAddress'
  BY <1>4, <1>9 DEF Buffers, FromAddress
<1>11. OneAnswer'
  <2>1. ASSUME NEW b \in Assocs, sock'[b] \in Requests, sock'[b].to \notin clash'
        PROVE  /\ \A q \in asking : q.to = sock'[b].to => q = sock'[b] /\ cl'[b] = "waiting"
               /\ \/ buf[sock'[b]] = <<>>
                  \/ buf[sock'[b]] = <<sock'[b]>> /\ sock'[b] \notin asking /\ cl'[b] = "waiting"
    <3>1. CASE b = a
      <4>1. ~Held(r)
        BY <3>1, <2>1, <1>3, <1>4 DEF Held
      <4>2. buf[r] = <<>>
        BY <4>1 DEF Buffers, FromAddress
      <4> QED BY <3>1, <4>2, <2>1, <1>3, <1>4
    <3>2. CASE b # a
      BY <3>2, <2>1, <1>2, <1>4 DEF Buffers, OneAnswer
    <3> QED BY <3>1, <3>2
  <2> QED BY <2>1, <1>4 DEF OneAnswer
<1> QED BY <1>6, <1>7, <1>8, <1>10, <1>11 DEF Book, Buffers

\* A socket that is dropped, if there is one, with or without what is in its buffer.
LEMMA DropBooks ==
  ASSUME Rest, Book, Buffers, NEW a \in Assocs, DropSocket(a),
         NEW c \in {"command", "done"}, cl' = [cl EXCEPT ![a] = c],
         UNCHANGED <<sessions, asking, clash>>,
         buf' = buf \/ (sock[a] \in Requests /\ buf' = [buf EXCEPT ![sock[a]] = <<>>])
  PROVE  /\ Book' /\ Buffers' /\ sock'[a] = None /\ sock' \in [Assocs -> Socket]
         /\ dropped' \subseteq Requests /\ buf' \in [Requests -> Seq(Requests)]
         /\ \A b \in Assocs \ {a} : sock'[b] = sock[b]
<1>1. /\ sock' = [sock EXCEPT ![a] = None] /\ None \notin Requests /\ sock[a] \in Socket
      /\ dropped' = IF sock[a] = None THEN dropped ELSE dropped \union {sock[a]}
  BY RequestIs DEF DropSocket, Rest
<1>2. /\ sock'[a] = None /\ \A b \in Assocs : b # a => sock'[b] = sock[b] /\ cl'[b] = cl[b]
      /\ sock' \in [Assocs -> Socket]
  BY <1>1 DEF Rest, Socket
<1>3. /\ dropped \subseteq dropped' /\ (sock[a] # None => sock[a] \in dropped')
      /\ \A q \in dropped' : q \in dropped \/ (sock[a] \in Requests /\ q = sock[a])
      /\ dropped' \subseteq Requests
  BY <1>1 DEF Rest, Socket
<1>4. /\ \A q \in Requests : buf'[q] = buf[q] \/ (sock[a] \in Requests /\ q = sock[a] /\ buf'[q] = <<>>)
      /\ buf' \in [Requests -> Seq(Requests)]
  <2>1. <<>> \in Seq(Requests) /\ buf \in [Requests -> Seq(Requests)]
    BY DEF Rest
  <2>2. CASE buf' = buf
    BY <2>1, <2>2
  <2>3. CASE sock[a] \in Requests /\ buf' = [buf EXCEPT ![sock[a]] = <<>>]
    BY <2>1, <2>3
  <2> QED BY <2>2, <2>3
<1>5. sessions' = sessions /\ asking' = asking /\ clash' = clash
  OBVIOUS
<1>6. At'
  BY <1>5 DEF Book, At
<1>7. NoEntryLeft'
  <2>1. ASSUME NEW t \in Targets, sessions[t] # None
        PROVE  sessions[t] \in dropped' \/ \E b \in Assocs : sock'[b] = sessions[t]
    BY <2>1, <1>2, <1>3 DEF Book, NoEntryLeft
  <2> QED BY <2>1, <1>5 DEF NoEntryLeft
<1>8. ASSUME NEW b \in Assocs, sock'[b] \in Requests, sock'[b].to \notin clash
      PROVE  /\ b # a /\ sock'[b] = sock[b] /\ cl'[b] = cl[b]
             /\ sock[a] \in Requests => sock[a].to # sock[b].to
  BY <1>8, <1>1, <1>2 DEF Book, Lone
<1>9. Found'
  BY <1>5, <1>8 DEF Book, Found
<1>10. Lone'
  <2>1. ASSUME NEW b \in Assocs, sock'[b] \in Requests, sock'[b].to \notin clash
        PROVE  /\ \A q \in dropped' : q.to # sock'[b].to
               /\ \A d \in Assocs : d # b /\ sock'[d] \in Requests => sock'[d].to # sock'[b].to
    BY <2>1, <1>1, <1>2, <1>3, <1>8 DEF Book, Lone
  <2> QED BY <2>1, <1>5 DEF Lone
<1>11. \A q \in Requests : Held(q) => Held(q)'
  BY <1>1, <1>2, <1>3 DEF Held
<1>12. FromAddress'
  BY <1>4, <1>11 DEF Buffers, FromAddress
<1>13. OneAnswer'
  <2>1. ASSUME NEW b \in Assocs, sock'[b] \in Requests, sock'[b].to \notin clash
        PROVE  /\ \A q \in asking : q.to = sock'[b].to => q = sock'[b] /\ cl'[b] = "waiting"
               /\ \/ buf'[sock'[b]] = <<>>
                  \/ buf'[sock'[b]] = <<sock'[b]>> /\ sock'[b] \notin asking /\ cl'[b] = "waiting"
    <3>1. buf'[sock[b]] = buf[sock[b]] /\ sock'[b] = sock[b] /\ cl'[b] = cl[b] /\ sock[b] \in Requests
      BY <2>1, <1>4, <1>8
    <3> QED BY <3>1, <2>1 DEF Buffers, OneAnswer
  <2> QED BY <2>1, <1>5 DEF OneAnswer
<1> QED BY <1>2, <1>3, <1>4, <1>6, <1>7, <1>9, <1>10, <1>12, <1>13 DEF Book, Buffers

\* The client makes a socket of the address in the request: alone, or a clash is noted.
LEMMA TakeCommandInd ==
  ASSUME IndInv, NEW a \in Assocs, TakeCommand(a)
  PROVE  IndInv'
<1> DEFINE p == Head(up[a])
<1>1. PacketsUp /\ Rest /\ Book /\ Buffers /\ AllAligned
  BY TypesSplit DEF IndInv
<1>2. /\ cl[a] = "command" /\ up[a] # <<>> /\ Receive(a)
      /\ UNCHANGED <<visitor, srv, cur, down, buf, dropped, asking, receiving>>
  BY DEF TakeCommand
<1>3. /\ PacketsUp' /\ up'[a] = Tail(up[a]) /\ \A b \in Assocs \ {a} : up'[b] = up[b]
      /\ p \in Packets /\ (p.type = "forward" => p.r \in Requests)
  BY <1>1, <1>2, ReceiveUp
<1>4. sock[a] = None
  BY <1>1, <1>2 DEF Rest, Socket
<1>5. /\ down[a] = <<>>
      /\ \/ srv[a] = "done"
         \/ srv[a] = "named" /\ up[a] = <<Packet("forward", cur[a])>>
         \/ srv[a] = "asked" /\ up[a] = <<Packet("forward", cur[a]), Packet("data", cur[a])>>
  BY <1>1, <1>2 DEF AllAligned, Aligned
<1>6. CASE p.type = "forward" /\ Connect(a, p.r) /\ cl' = [cl EXCEPT ![a] = "named"] /\ UNCHANGED faults
  <2>1. p.r \in Requests /\ p.r.to \in Targets
    BY <1>3, <1>6, RequestIs
  <2>2. Book' /\ Buffers'
    <3> HIDE DEF p
    <3> QED BY <1>1, <1>2, <1>4, <1>6, <2>1, ConnectBooks
  <2>3. /\ sessions' = [sessions EXCEPT ![p.r.to] = p.r] /\ sock' = [sock EXCEPT ![a] = p.r]
        /\ clash \subseteq clash' /\ clash' \subseteq clash \union {p.r.to}
    BY <1>6 DEF Connect
  <2>4. Rest'
    <3> HIDE DEF p
    <3>1. sessions' \in [Targets -> Socket] /\ sock' \in [Assocs -> Socket] /\ clash' \subseteq Targets
      BY <1>1, <2>1, <2>3 DEF Rest, Socket
    <3>2. \A b \in Assocs : cl'[b] \in {"named", "waiting"} <=> sock'[b] \in Requests
      BY <1>1, <1>6, <2>1, <2>3 DEF Rest
    <3> QED BY <1>1, <1>2, <1>6, <3>1, <3>2 DEF Rest, visitor
  <2>5. /\ cl'[a] = "named" /\ sock'[a] = p.r /\ UNCHANGED <<srv, cur, down>>
        /\ \A b \in Assocs \ {a} : cl'[b] = cl[b] /\ sock'[b] = sock[b]
    <3> HIDE DEF p
    <3> QED BY <1>1, <1>2, <1>6, <2>3 DEF Rest
  <2>6. Aligned(a)'
    <3>1. CASE srv[a] = "done"
      BY <3>1, <1>5, <2>5 DEF Aligned
    <3>2. CASE srv[a] = "named" /\ up[a] = <<Packet("forward", cur[a])>>
      <4>1. p = Packet("forward", cur[a]) /\ up'[a] = <<>>
        BY <3>2, <1>3, Single
      <4>2. sock'[a] = cur'[a]
        BY <4>1, <2>5 DEF Packet
      <4> QED BY <3>2, <4>1, <4>2, <1>5, <2>5 DEF Aligned
    <3>3. CASE srv[a] = "asked" /\ up[a] = <<Packet("forward", cur[a]), Packet("data", cur[a])>>
      <4>1. p = Packet("forward", cur[a]) /\ up'[a] = <<Packet("data", cur[a])>>
        BY <3>3, <1>3, Pair
      <4>2. sock'[a] = cur'[a]
        BY <4>1, <2>5 DEF Packet
      <4> QED BY <3>3, <4>1, <4>2, <1>5, <2>5 DEF Aligned
    <3> QED BY <1>5, <3>1, <3>2, <3>3
  <2>7. AllAligned'
    BY <1>1, <1>3, <2>3, <2>5, <2>6, AlignedOthers
  <2> QED BY <1>3, <2>2, <2>4, <2>7, TypesNext DEF IndInv
<1>7. CASE ClientDone(a) /\ UNCHANGED <<sock, sessions, clash>> /\ faults' \in 0..MaxFaults
  <2>1. cl' = [cl EXCEPT ![a] = "done"] /\ DropSocket(a)
    BY <1>1, <1>2, <1>4, <1>7 DEF ClientDone, DropSocket, Rest
  <2>2. Book' /\ Buffers'
    BY <1>1, <1>2, <1>7, <2>1, DropBooks
  <2>3. Rest'
    BY <1>1, <1>2, <1>7, <2>1 DEF Rest, visitor
  <2>4. cl'[a] = "done" /\ down'[a] = <<>> /\ \A b \in Assocs \ {a} : cl'[b] = cl[b]
    BY <1>1, <1>2, <1>5, <2>1 DEF Rest
  <2>5. Aligned(a)'
    BY <2>4 DEF Aligned
  <2>6. AllAligned'
    BY <1>1, <1>2, <1>3, <1>7, <2>4, <2>5, AlignedOthers
  <2> QED BY <1>3, <2>2, <2>3, <2>6, TypesNext DEF IndInv
<1>8. ASSUME Fault("fail") PROVE faults' \in 0..MaxFaults
  BY <1>1, <1>8, FaultIs
<1>9. ASSUME UNCHANGED faults PROVE faults' \in 0..MaxFaults
  BY <1>1, <1>9 DEF Rest
<1> QED BY <1>6, <1>7, <1>8, <1>9 DEF TakeCommand

\* SocksUdpForwardMock ends in the middle of a request.
LEMMA ClientDoneInd ==
  ASSUME IndInv, NEW a \in Assocs, ClientDone(a), DropSocket(a), down[a] = <<>>,
         PacketsUp', \A b \in Assocs \ {a} : up'[b] = up[b], faults' \in 0..MaxFaults,
         UNCHANGED <<visitor, srv, cur, down, sessions, asking, receiving, clash>>,
         buf' = buf \/ (sock[a] \in Requests /\ buf' = [buf EXCEPT ![sock[a]] = <<>>])
  PROVE  IndInv'
<1>1. PacketsUp /\ Rest /\ Book /\ Buffers /\ AllAligned
  BY TypesSplit DEF IndInv
<1>2. cl' = [cl EXCEPT ![a] = "done"]
  BY DEF ClientDone
<1>3. /\ Book' /\ Buffers' /\ sock'[a] = None /\ sock' \in [Assocs -> Socket]
      /\ dropped' \subseteq Requests /\ buf' \in [Requests -> Seq(Requests)]
      /\ \A b \in Assocs \ {a} : sock'[b] = sock[b]
  BY <1>1, <1>2, DropBooks
<1>4. \A b \in Assocs : cl'[b] \in {"named", "waiting"} <=> sock'[b] \in Requests
  BY <1>1, <1>2, <1>3, RequestIs DEF Rest
<1>5. Rest'
  BY <1>1, <1>2, <1>3, <1>4 DEF Rest, visitor
<1>6. cl'[a] = "done" /\ \A b \in Assocs \ {a} : cl'[b] = cl[b]
  BY <1>1, <1>2 DEF Rest
<1>7. Aligned(a)'
  BY <1>6 DEF Aligned
<1>8. AllAligned'
  BY <1>1, <1>3, <1>6, <1>7, AlignedOthers
<1> QED BY <1>3, <1>5, <1>8, TypesNext DEF IndInv

\* The data goes out through the socket that was made for it.
LEMMA TakeDataInd ==
  ASSUME IndInv, NEW a \in Assocs, TakeData(a)
  PROVE  IndInv'
<1> DEFINE p == Head(up[a])
<1>1. PacketsUp /\ Rest /\ Book /\ Buffers /\ AllAligned
  BY TypesSplit DEF IndInv
<1>2. /\ cl[a] = "named" /\ up[a] # <<>> /\ Receive(a) /\ sock[a] \in Requests
      /\ UNCHANGED <<visitor, srv, cur, down, sessions, buf, receiving, clash>>
  BY <1>1 DEF TakeData, Rest
<1>3. PacketsUp' /\ up'[a] = Tail(up[a]) /\ \A b \in Assocs \ {a} : up'[b] = up[b]
  BY <1>1, <1>2, ReceiveUp
<1>4. /\ down[a] = <<>>
      /\ srv[a] = "done" \/ (srv[a] = "asked" /\ up[a] = <<Packet("data", cur[a])>> /\ sock[a] = cur[a])
  BY <1>1, <1>2 DEF AllAligned, Aligned
<1>5. CASE /\ cl' = [cl EXCEPT ![a] = "waiting"] /\ UNCHANGED <<sock, dropped, faults>>
           /\ asking' = asking \union {sock[a]} \/ asking' = asking
  <2>1. cl'[a] = "waiting" /\ \A b \in Assocs : b # a => cl'[b] = cl[b]
    BY <1>1, <1>5 DEF Rest
  <2>2. Book' /\ FromAddress'
    BY <1>1, <1>2, <1>5 DEF Book, At, NoEntryLeft, Found, Lone, Buffers, FromAddress, Held
  <2>3. ASSUME NEW b \in Assocs, sock[b] \in Requests, sock[b].to \notin clash
        PROVE  /\ \A q \in asking' : q.to = sock[b].to => q = sock[b] /\ cl'[b] = "waiting"
               /\ \/ buf[sock[b]] = <<>>
                  \/ buf[sock[b]] = <<sock[b]>> /\ sock[b] \notin asking' /\ cl'[b] = "waiting"
    <3>1. /\ \A q \in asking : q.to = sock[b].to => q = sock[b] /\ cl[b] = "waiting"
          /\ \/ buf[sock[b]] = <<>>
             \/ buf[sock[b]] = <<sock[b]>> /\ sock[b] \notin asking /\ cl[b] = "waiting"
      BY <1>1, <2>3 DEF Buffers, OneAnswer
    <3>2. b # a => sock[a].to # sock[b].to
      BY <1>1, <1>2, <2>3 DEF Book, Lone
    <3>3. \A q \in asking' : q \in asking \/ q = sock[a]
      BY <1>5
    <3>4. CASE b = a
      BY <3>1, <3>3, <3>4, <1>2, <2>1
    <3>5. CASE b # a
      BY <3>1, <3>2, <3>3, <3>5, <2>1
    <3> QED BY <3>4, <3>5
  <2>4. OneAnswer'
    BY <1>2, <1>5, <2>3 DEF OneAnswer
  <2>5. Rest'
    BY <1>1, <1>2, <1>5 DEF Rest, visitor
  <2>6. Aligned(a)'
    <3>1. UNCHANGED <<srv, cur, down, sock>>
      BY <1>2, <1>5
    <3>2. CASE srv[a] = "done"
      BY <3>1, <3>2, <1>4 DEF Aligned
    <3>3. CASE srv[a] = "asked" /\ up[a] = <<Packet("data", cur[a])>> /\ sock[a] = cur[a]
      <4>1. up'[a] = <<>>
        BY <3>3, <1>3, Single
      <4> QED BY <3>1, <3>3, <4>1, <1>4, <2>1 DEF Aligned
    <3> QED BY <1>4, <3>2, <3>3
  <2>7. AllAligned'
    BY <1>1, <1>2, <1>3, <1>5, <2>1, <2>6, AlignedOthers
  <2> QED BY <1>3, <2>2, <2>4, <2>5, <2>7, TypesNext DEF IndInv, Buffers
<1>6. CASE ClientDone(a) /\ DropSocket(a) /\ UNCHANGED asking /\ faults' \in 0..MaxFaults
  BY <1>2, <1>3, <1>4, <1>6, ClientDoneInd
<1>7. ASSUME Fault("fail") PROVE faults' \in 0..MaxFaults
  BY <1>1, <1>7, FaultIs
<1>8. ASSUME UNCHANGED faults PROVE faults' \in 0..MaxFaults
  BY <1>1, <1>8 DEF Rest
<1> QED BY <1>5, <1>6, <1>7, <1>8 DEF TakeData

\* A client whose connection ended drops its socket.
LEMMA ClientEofInd ==
  ASSUME IndInv, NEW a \in Assocs, ClientEof(a)
  PROVE  IndInv'
<1>1. PacketsUp /\ Rest /\ AllAligned
  BY TypesSplit DEF IndInv
<1>2. /\ srv[a] = "done" /\ ClientDone(a) /\ DropSocket(a)
      /\ UNCHANGED <<visitor, server, down, sessions, buf, asking, receiving, faults, clash>>
  BY DEF ClientEof
<1>3. down[a] = <<>>
  BY <1>1, <1>2 DEF AllAligned, Aligned
<1>4. PacketsUp' /\ faults' \in 0..MaxFaults
  BY <1>1, <1>2 DEF PacketsUp, Rest, server
<1> QED BY <1>2, <1>3, <1>4, ClientDoneInd DEF server

\* The answer in the buffer is of the request the client waits for.
LEMMA TakeAnswerInd ==
  ASSUME IndInv, NEW a \in Assocs, TakeAnswer(a)
  PROVE  IndInv'
<1> DEFINE x == buf[sock[a]]
<1>1. PacketsUp /\ Rest /\ Book /\ Buffers /\ AllAligned
  BY TypesSplit DEF IndInv
<1>2. /\ cl[a] = "waiting" /\ x # <<>> /\ sock[a] \in Requests
      /\ buf' = [buf EXCEPT ![sock[a]] = <<>>] /\ DropSocket(a)
      /\ UNCHANGED <<visitor, server, sessions, asking, receiving, faults, clash>>
  BY <1>1 DEF TakeAnswer, Rest
<1>3. PacketsUp' /\ faults' \in 0..MaxFaults
  BY <1>1, <1>2 DEF PacketsUp, Rest, server
<1>4. down[a] = <<>> /\ (srv[a] = "done" \/ (srv[a] = "asked" /\ up[a] = <<>> /\ sock[a] = cur[a]))
  BY <1>1, <1>2 DEF AllAligned, Aligned
<1>5. CASE srv[a] = "done"
  <2>1. ClientDone(a) /\ UNCHANGED down
    BY <1>5 DEF TakeAnswer
  <2> QED BY <1>2, <1>3, <1>4, <2>1, ClientDoneInd DEF server
<1>6. CASE srv[a] # "done"
  <2>1. cl' = [cl EXCEPT ![a] = "command"] /\ down' = [down EXCEPT ![a] = Append(@, x)]
    BY <1>6 DEF TakeAnswer
  <2>2. /\ Book' /\ Buffers' /\ sock'[a] = None /\ sock' \in [Assocs -> Socket]
        /\ dropped' \subseteq Requests /\ buf' \in [Requests -> Seq(Requests)]
        /\ \A b \in Assocs \ {a} : sock'[b] = sock[b]
    BY <1>1, <1>2, <2>1, DropBooks
  <2>3. x \in Seq(Requests) /\ down[a] \in Seq(Seq(Requests))
    BY <1>1, <1>2 DEF Rest
  <2>4. Right(x, cur[a])
    BY <1>1, <1>2, <1>4, <1>6 DEF Buffers, FromAddress, OneAnswer, Right
  <2> HIDE DEF x
  <2>5. Append(down[a], x) \in Seq(Seq(Requests)) /\ Append(down[a], x) = <<x>>
    BY <2>3, <1>4, SeqFacts, AppendEmpty
  <2>6. /\ down' \in [Assocs -> Seq(Seq(Requests))] /\ down'[a] = <<x>> /\ cl'[a] = "command"
        /\ \A b \in Assocs \ {a} : down'[b] = down[b] /\ cl'[b] = cl[b]
    BY <1>1, <2>1, <2>5 DEF Rest
  <2>7. \A b \in Assocs : cl'[b] \in {"named", "waiting"} <=> sock'[b] \in Requests
    BY <1>1, <2>1, <2>2, RequestIs DEF Rest
  <2>8. Rest'
    BY <1>1, <1>2, <2>1, <2>2, <2>6, <2>7 DEF Rest, visitor, server
  <2>9. Aligned(a)'
    <3>1. Len(down'[a]) = 1 /\ down'[a][1] = x
      BY <2>6
    <3>2. UNCHANGED <<srv, cur, up, clash>>
      BY <1>2 DEF server
    <3>3. Right(down[a][1], cur[a])'
      BY <2>4, <3>1, <3>2 DEF Right
    <3> QED BY <1>4, <1>6, <2>6, <3>1, <3>2, <3>3 DEF Aligned
  <2>10. AllAligned'
    BY <1>1, <1>2, <2>2, <2>6, <2>9, AlignedOthers DEF server
  <2> QED BY <1>3, <2>2, <2>8, <2>10, TypesNext DEF IndInv
<1> QED BY <1>5, <1>6

-----------------------------------------------------------------------------
(* Datagram.                                                               *)

\* A removal takes the entry of its own socket, or a clash was noted.
LEMMA RemoveInd ==
  ASSUME IndInv, NEW r \in dropped, Remove(r)
  PROVE  IndInv'
<1>1. PacketsUp /\ Rest /\ Book /\ Buffers /\ AllAligned
  BY TypesSplit DEF IndInv
<1>2. /\ dropped' = dropped \ {r} /\ r \in Requests /\ r.to \in Targets
      /\ sessions' = [sessions EXCEPT ![r.to] = None] /\ buf' = [buf EXCEPT ![r] = <<>>]
      /\ UNCHANGED <<visitor, server, client, asking, receiving, faults, clash>>
  BY <1>1, RequestIs DEF Remove, Rest
<1>3. buf' \in [Requests -> Seq(Requests)] /\ buf'[r] = <<>>
      /\ \A q \in Requests : q # r => buf'[q] = buf[q]
  <2>1. <<>> \in Seq(Requests)
    OBVIOUS
  <2> QED BY <1>1, <1>2, <2>1 DEF Rest
<1>4. sessions' \in [Targets -> Socket] /\ sessions'[r.to] = None
      /\ \A t \in Targets : t # r.to => sessions'[t] = sessions[t]
  BY <1>1, <1>2 DEF Rest, Socket
<1>5. ASSUME NEW a \in Assocs, sock[a] \in Requests, sock[a].to \notin clash
      PROVE  r.to # sock[a].to /\ r # sock[a] /\ sock[a].to \in Targets
  BY <1>1, <1>5, RequestIs DEF Book, Lone
<1>6. At'
  BY <1>1, <1>4 DEF Book, At
<1>7. NoEntryLeft'
  <2>1. ASSUME NEW t \in Targets, sessions'[t] # None
        PROVE  sessions'[t] \in dropped' \/ \E a \in Assocs : sock[a] = sessions'[t]
    BY <1>1, <1>2, <1>4, <2>1 DEF Book, NoEntryLeft, At
  <2> QED BY <1>2, <2>1 DEF NoEntryLeft, client
<1>8. Found' /\ Lone'
  BY <1>1, <1>2, <1>4, <1>5 DEF Book, Found, Lone, client
<1>9. FromAddress'
  <2>1. \A q \in Requests : q # r /\ Held(q) => Held(q)'
    BY <1>2 DEF Held, client
  <2> QED BY <1>1, <1>3, <2>1 DEF Buffers, FromAddress
<1>10. OneAnswer'
  BY <1>1, <1>2, <1>3, <1>5 DEF Buffers, OneAnswer, client
<1>11. PacketsUp' /\ Rest'
  BY <1>1, <1>2, <1>3, <1>4 DEF PacketsUp, Rest, visitor, server, client
<1>12. AllAligned'
  BY <1>1, <1>2, AlignedSame DEF server, client
<1> QED BY <1>6, <1>7, <1>8, <1>9, <1>10, <1>11, <1>12, TypesNext DEF IndInv, Book, Buffers

\* An answer reaches the buffer of the address it came from.
LEMMA AnswerInd ==
  ASSUME IndInv, NEW r \in asking, Answer(r)
  PROVE  IndInv'
<1> DEFINE s == sessions[r.to]
<1>1. PacketsUp /\ Rest /\ Book /\ Buffers /\ AllAligned
  BY TypesSplit DEF IndInv
<1>2. /\ r \in Requests /\ r.to \in Targets /\ s \in Socket /\ None \notin Requests
      /\ UNCHANGED <<visitor, server, client, sessions, dropped, receiving>>
  BY <1>1, RequestIs DEF Answer, Rest
<1>3. /\ clash \subseteq clash' /\ clash' \subseteq Targets /\ asking' \subseteq asking
      /\ faults' \in 0..MaxFaults
      /\ r \notin asking' \/ r.to \in clash'
  <2>1. CASE asking' = asking \ {r} /\ UNCHANGED <<faults, clash>>
    BY <1>1, <2>1 DEF Rest
  <2>2. CASE Fault("repeat") /\ clash' = clash \union {r.to} /\ UNCHANGED asking
    BY <1>1, <1>2, <2>2, FaultIs DEF Rest
  <2> QED BY <2>1, <2>2 DEF Answer
<1>4. /\ buf' \in [Requests -> Seq(Requests)]
      /\ \A q \in Requests : \/ buf'[q] = buf[q]
                             \/ s = q /\ q.to = r.to /\ Held(q) /\ buf'[q] = Append(buf[q], r)
  <2>1. CASE s = None \/ ~receiving
    <3>1. buf' = buf
      BY <2>1 DEF Answer
    <3> QED BY <1>1, <3>1 DEF Rest
  <2>2. CASE s # None /\ receiving
    <3>1. s \in Requests /\ s.to = r.to /\ Held(s)
      BY <1>1, <1>2, <2>2 DEF Socket, Book, At, NoEntryLeft, Held
    <3>2. buf' = [buf EXCEPT ![s] = Append(buf[s], r)]
      BY <2>2 DEF Answer
    <3>3. Append(buf[s], r) \in Seq(Requests)
      BY <1>1, <1>2, <3>1, SeqFacts DEF Rest
    <3>4. buf \in [Requests -> Seq(Requests)]
      BY <1>1 DEF Rest
    <3> HIDE DEF s
    <3>5. buf' \in [Requests -> Seq(Requests)] /\ buf'[s] = Append(buf[s], r)
          /\ \A q \in Requests : q # s => buf'[q] = buf[q]
      BY <3>1, <3>2, <3>3, <3>4
    <3> QED BY <3>1, <3>5
  <2> QED BY <2>1, <2>2
<1>5. Book'
  BY <1>1, <1>2, <1>3 DEF Book, At, NoEntryLeft, Found, Lone, client
<1>6. FromAddress'
  <2>1. ASSUME NEW q \in Requests
        PROVE  (\A i \in 1..Len(buf'[q]) : buf'[q][i].to = q.to) /\ (buf'[q] # <<>> => Held(q))
    <3>1. CASE buf'[q] = buf[q]
      BY <1>1, <3>1 DEF Buffers, FromAddress
    <3>2. CASE q.to = r.to /\ Held(q) /\ buf'[q] = Append(buf[q], r)
      <4>1. buf[q] \in Seq(Requests) /\ \A i \in 1..Len(buf[q]) : buf[q][i].to = q.to
        BY <1>1 DEF Rest, Buffers, FromAddress
      <4>2. /\ Len(buf'[q]) = Len(buf[q]) + 1 /\ buf'[q][Len(buf[q]) + 1] = r
            /\ \A i \in 1..Len(buf[q]) : buf'[q][i] = buf[q][i]
        BY <1>2, <3>2, <4>1, SeqFacts
      <4>3. \A i \in 1..Len(buf'[q]) : i \in 1..Len(buf[q]) \/ i = Len(buf[q]) + 1
        BY <4>1, <4>2
      <4> QED BY <3>2, <4>1, <4>2, <4>3
    <3> QED BY <1>4, <3>1, <3>2
  <2> QED BY <1>2, <2>1 DEF FromAddress, Held, client
<1>7. OneAnswer'
  <2>1. ASSUME NEW a \in Assocs, sock[a] \in Requests, sock[a].to \notin clash'
        PROVE  /\ \A q \in asking' : q.to = sock[a].to => q = sock[a] /\ cl[a] = "waiting"
               /\ \/ buf'[sock[a]] = <<>>
                  \/ buf'[sock[a]] = <<sock[a]>> /\ sock[a] \notin asking' /\ cl[a] = "waiting"
    <3>1. /\ \A q \in asking : q.to = sock[a].to => q = sock[a] /\ cl[a] = "waiting"
          /\ \/ buf[sock[a]] = <<>>
             \/ buf[sock[a]] = <<sock[a]>> /\ sock[a] \notin asking /\ cl[a] = "waiting"
      BY <1>1, <1>3, <2>1 DEF Buffers, OneAnswer
    <3>2. CASE buf'[sock[a]] = buf[sock[a]]
      BY <1>3, <3>1, <3>2
    <3>3. CASE sock[a].to = r.to /\ buf'[sock[a]] = Append(buf[sock[a]], r)
      <4>1. r = sock[a] /\ buf[sock[a]] = <<>> /\ cl[a] = "waiting" /\ r \notin asking'
        BY <1>3, <2>1, <3>1, <3>3
      <4>2. buf'[sock[a]] = <<sock[a]>>
        BY <3>3, <4>1, AppendEmpty
      <4> QED BY <1>3, <3>1, <4>1, <4>2
    <3> QED BY <1>4, <2>1, <3>2, <3>3
  <2> QED BY <1>2, <2>1 DEF OneAnswer, client
<1>8. PacketsUp' /\ Rest'
  BY <1>1, <1>2, <1>3, <1>4 DEF PacketsUp, Rest, visitor, server, client
<1>9. AllAligned'
  BY <1>1, <1>2, <1>3, AlignedSame DEF server, client
<1> QED BY <1>5, <1>6, <1>7, <1>8, <1>9, TypesNext DEF IndInv, Buffers

\* A request that is lost gets no answer, so no buffer changes.
LEMMA LoseInd ==
  ASSUME IndInv, NEW r \in asking, Lose(r)
  PROVE  IndInv'
<1>1. PacketsUp /\ Rest /\ Book /\ Buffers /\ AllAligned
  BY TypesSplit DEF IndInv
<1>2. /\ asking' = asking \ {r} /\ faults' \in 0..MaxFaults
      /\ UNCHANGED <<visitor, server, client, sessions, buf, dropped, receiving, clash>>
  BY <1>1, FaultIs DEF Lose
<1>3. Book' /\ Buffers'
  BY <1>1, <1>2
  DEF Book, At, NoEntryLeft, Found, Lone, Buffers, FromAddress, Held, OneAnswer, client
<1>4. PacketsUp' /\ Rest'
  BY <1>1, <1>2 DEF PacketsUp, Rest, visitor, server, client
<1>5. AllAligned'
  BY <1>1, <1>2, AlignedSame DEF server, client
<1> QED BY <1>3, <1>4, <1>5, TypesNext DEF IndInv

\* The receiver task that ends touches no books.
LEMMA DeafInd ==
  ASSUME IndInv, Deaf
  PROVE  IndInv'
<1>1. PacketsUp /\ Rest /\ AllAligned
  BY TypesSplit DEF IndInv
<1>2. /\ receiving' = FALSE /\ faults' \in 0..MaxFaults
      /\ UNCHANGED <<visitor, server, client, sessions, buf, dropped, asking, clash>>
  BY <1>1, FaultIs DEF Deaf
<1>3. PacketsUp' /\ Rest'
  BY <1>1, <1>2 DEF PacketsUp, Rest, visitor, server, client
<1>4. Book' /\ Buffers' /\ AllAligned'
  BY <1>1, <1>2, BooksSame, AlignedSame DEF IndInv, server, client
<1> QED BY <1>3, <1>4, TypesNext DEF IndInv

-----------------------------------------------------------------------------
(* The specification.                                                      *)

\* No socket exists at first.
LEMMA InitInd == Init => IndInv
<1> SUFFICES ASSUME Init PROVE IndInv
  OBVIOUS
<1>1. None \notin Requests /\ None \in Socket
  BY RequestIs DEF Socket
<1>2. PacketsUp
  BY DEF Init, PacketsUp
<1>3. Rest
  <2>1. <<>> \in Seq(Requests \union {Bad}) /\ <<>> \in Seq(Seq(Requests)) /\ <<>> \in Seq(Requests)
    OBVIOUS
  <2>2. 0 \in 0..MaxAsk /\ 0 \in 0..MaxFaults
    BY UdpAssumption
  <2> QED BY <1>1, <2>1, <2>2 DEF Init, Rest
<1>4. Book
  BY <1>1 DEF Init, Book, At, NoEntryLeft, Found, Lone
<1>5. Buffers
  BY <1>1 DEF Init, Buffers, FromAddress, OneAnswer, Held
<1>6. AllAligned
  BY DEF Init, AllAligned, Aligned
<1> QED BY <1>2, <1>3, <1>4, <1>5, <1>6, TypesSplit DEF IndInv

\* Stuttering.
LEMMA UnchangedInd ==
  ASSUME IndInv, UNCHANGED vars
  PROVE  IndInv'
<1>1. UNCHANGED <<visitor, server, client, datagram, faults, clash>>
  BY DEF vars
<1>2. PacketsUp' /\ Rest'
  BY <1>1, TypesSplit DEF IndInv, PacketsUp, Rest, visitor, server, client, datagram
<1>3. Book' /\ Buffers' /\ AllAligned'
  BY <1>1, BooksSame, AlignedSame DEF IndInv, server, client, datagram
<1> QED BY <1>2, <1>3, TypesNext DEF IndInv

\* Every step preserves the inductive invariant.
LEMMA StepInd == IndInv /\ [Next]_vars => IndInv'
<1> SUFFICES ASSUME IndInv, [Next]_vars PROVE IndInv'
  OBVIOUS
<1>1. ASSUME NEW a \in Assocs, Ask(a) \/ Hangup(a) \/ NoticeHangup(a) PROVE IndInv'
  BY <1>1, AskInd, HangupInd, NoticeHangupInd
<1>2. ASSUME NEW a \in Assocs, Forwarding(a) PROVE IndInv'
  BY <1>2, TakeDatagramInd, SendDataInd, GiveAnswerInd, ServerEofInd DEF Forwarding
<1>3. ASSUME NEW a \in Assocs, Mock(a) PROVE IndInv'
  BY <1>3, TakeCommandInd, TakeDataInd, ClientEofInd, TakeAnswerInd DEF Mock
<1>4. ASSUME NEW r \in dropped, Remove(r) PROVE IndInv'
  BY <1>4, RemoveInd
<1>5. ASSUME NEW r \in asking, Answer(r) \/ Lose(r) PROVE IndInv'
  BY <1>5, AnswerInd, LoseInd
<1>6. CASE Deaf
  BY <1>6, DeafInd
<1>7. CASE UNCHANGED vars
  BY <1>7, UnchangedInd
<1> QED BY <1>1, <1>2, <1>3, <1>4, <1>5, <1>6, <1>7 DEF Next

\* The inductive invariant holds for every behaviour.
LEMMA Inductive == Spec => []IndInv
BY InitInd, StepInd, PTL DEF Spec

\* Every variable keeps its type: the sequences of packets, datagrams and answers of
\* SocksUdpForward and its mock, and the map of Datagram.
THEOREM TypeSafe == Spec => []TypeOK
<1>1. IndInv => TypeOK
  BY DEF IndInv, Types
<1> QED BY <1>1, Inductive, PTL

\* An entry in the map of Datagram is of a socket that exists, or of a dropped one
\* whose close callback has still to run: however sockets come and go.
THEOREM EntriesLeave == Spec => []NoEntryLeft
<1>1. IndInv => NoEntryLeft
  BY DEF IndInv, Book
<1> QED BY <1>1, Inductive, PTL

\* The socket that SocksUdpForwardMock waits on is the one that answers from its
\* address are given to, unless another socket of that address existed at some time.
THEOREM AnswersFound == Spec => []FoundByAnswer
<1>1. IndInv => FoundByAnswer
  BY TypesSplit DEF IndInv, Rest, Book, Found, FoundByAnswer
<1> QED BY <1>1, Inductive, PTL

\* A visitor is given an answer only by GiveAnswer, and then its own.
LEMMA StepGives ==
  ASSUME IndInv, [Next]_vars, NEW a \in Assocs, srv[a] = "asked", srv'[a] = "idle"
  PROVE  Len(down[a]) = 1 /\ Right(down[a][1], cur[a]) /\ down[a] \in Seq(Seq(Requests))
<1>1. Rest
  BY TypesSplit DEF IndInv
<1>2. srv' # srv
  OBVIOUS
<1>3. PICK b \in Assocs : NoticeHangup(b) \/ Forwarding(b)
  BY <1>2 DEF Next, Mock, Ask, Hangup, TakeCommand, TakeData, ClientEof, TakeAnswer,
              Remove, Answer, Lose, Deaf, vars, server
<1>4. ASSUME NEW v \in {"named", "asked", "done"} PROVE srv' # [srv EXCEPT ![b] = v]
  BY <1>1 DEF Rest
<1>5. GiveAnswer(b)
  BY <1>3, <1>4 DEF Forwarding, NoticeHangup, ServerDone, TakeDatagram, SendData, ServerEof
<1>6. b = a
  BY <1>1, <1>5 DEF GiveAnswer, Rest
<1> QED BY <1>1, <1>5, <1>6, GiveAnswerInd DEF Rest

\* What SocksUdpForward sends to a visitor as an answer comes from the address the
\* visitor asked, and is the one answer to its last datagram unless that address had
\* two sockets at a time or answered twice.
THEOREM AnswersAreOwn == Spec => AnswersOwn
<1> DEFINE Own == \A a \in Assocs : srv[a] = "asked" /\ srv'[a] = "idle" =>
                    /\ \A i \in 1..Len(down[a][1]) : down[a][1][i].to = cur[a].to
                    /\ down[a] = << <<cur[a]>> >> \/ cur[a].to \in clash
<1>1. ASSUME IndInv, [Next]_vars PROVE Own
  <2>1. ASSUME NEW a \in Assocs, srv[a] = "asked", srv'[a] = "idle"
        PROVE  /\ \A i \in 1..Len(down[a][1]) : down[a][1][i].to = cur[a].to
               /\ down[a] = << <<cur[a]>> >> \/ cur[a].to \in clash
    <3>1. Len(down[a]) = 1 /\ Right(down[a][1], cur[a]) /\ down[a] \in Seq(Seq(Requests))
      BY <1>1, <2>1, StepGives
    <3>2. down[a] = <<down[a][1]>>
      BY <3>1, ShortSeq
    <3> QED BY <3>1, <3>2 DEF Right
  <2> QED BY <2>1
<1>2. IndInv /\ [Next]_vars => [Own]_vars
  BY <1>1
<1> QED BY <1>2, Inductive, PTL DEF Spec, AnswersOwn
=============================================================================
