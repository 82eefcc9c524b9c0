----------------------------- MODULE SessionProofs -----------------------------
(***************************************************************************)
(* Module Session: its types, and that a client serves only on a           *)
(* connection whose server task is ready, for every number of connections, *)
(* every limit on retries and every choice of faults.                      *)
(***************************************************************************)
EXTENDS Session, SequenceTheorems, TLAPS

\* No YES is in flight from a task that is not ready; the connection in use is open,
\* so that it is not reclaimed, and ready once the client serves.
YesMeansReady ==
  \A c \in Conns : \A i \in 1 .. Len(s2c[c]) : s2c[c][i] = "yes" => ready[c]
InUseIsOpen == cur \in Conns => copen[cur]
IndInv == TypeOK /\ YesMeansReady /\ InUseIsOpen /\ ServesOnlyWhenReady

\* What is in flight after a send is what was, or that and the message.
LEMMA SentIs ==
  ASSUME NEW ch \in [Conns -> Seq(Message)], NEW c \in Conns, NEW msgs \in Seq(Message)
  PROVE  /\ Sent(ch, c, msgs) \in [Conns -> Seq(Message)]
         /\ \A d \in Conns : \/ Sent(ch, c, msgs)[d] = ch[d]
                             \/ d = c /\ Sent(ch, c, msgs)[d] = ch[d] \o msgs
BY DEF Sent

\* What is in flight after a receive is what was, or its tail.
LEMMA TakenIs ==
  ASSUME NEW ch \in [Conns -> Seq(Message)], NEW c \in Conns, ch[c] # <<>>
  PROVE  /\ Taken(ch, c) \in [Conns -> Seq(Message)]
         /\ \A d \in Conns : Taken(ch, c)[d] = ch[d] \/ Taken(ch, c)[d] = Tail(ch[d])
         /\ \A d \in Conns : \A i \in 1 .. Len(Taken(ch, c)[d]) :
              \E j \in 1 .. Len(ch[d]) : Taken(ch, c)[d][i] = ch[d][j]
<1>1. Tail(ch[c]) \in Seq(Message) /\ Len(Tail(ch[c])) = Len(ch[c]) - 1
  BY HeadTailProperties
<1>2. ASSUME NEW i \in 1 .. Len(Tail(ch[c])) PROVE Tail(ch[c])[i] = ch[c][i + 1]
  BY HeadTailProperties
<1>3. ASSUME NEW d \in Conns, NEW i \in 1 .. Len(Taken(ch, c)[d])
      PROVE  \E j \in 1 .. Len(ch[d]) : Taken(ch, c)[d][i] = ch[d][j]
  <2>1. CASE d = c
    <3>1. i \in 1 .. Len(Tail(ch[c])) /\ Taken(ch, c)[d][i] = Tail(ch[c])[i]
      BY <2>1 DEF Taken
    <3>2. i + 1 \in 1 .. Len(ch[c])
      BY <3>1, <1>1
    <3> QED BY <3>1, <3>2, <1>2, <2>1
  <2>2. CASE d # c
    BY <2>2 DEF Taken
  <2> QED BY <2>1, <2>2
<1> QED BY <1>1, <1>3 DEF Taken

-----------------------------------------------------------------------------
\* A receive by the client leaves YesMeansReady.
LEMMA TakenYes ==
  ASSUME TypeOK, YesMeansReady, NEW c \in Conns, s2c[c] # <<>>,
         s2c' = Taken(s2c, c), ready' = ready
  PROVE  YesMeansReady' /\ s2c' \in [Conns -> Seq(Message)]
<1>1. s2c \in [Conns -> Seq(Message)]
  BY DEF TypeOK
<1>2. s2c' \in [Conns -> Seq(Message)]
  BY <1>1, TakenIs
<1>3. \A d \in Conns : \A i \in 1 .. Len(s2c'[d]) :
        \E j \in 1 .. Len(s2c[d]) : s2c'[d][i] = s2c[d][j]
  BY <1>1, TakenIs
<1>4. ASSUME NEW d \in Conns, NEW i \in 1 .. Len(s2c'[d]), s2c'[d][i] = "yes" PROVE ready'[d]
  <2>1. PICK j \in 1 .. Len(s2c[d]) : s2c'[d][i] = s2c[d][j]
    BY <1>3
  <2>2. ready[d]
    BY <2>1, <1>4 DEF YesMeansReady
  <2> QED BY <2>2
<1> QED BY <1>2, <1>4 DEF YesMeansReady

\* So does a send by a server task, of YES only once it is ready.
LEMMA SentYes ==
  ASSUME TypeOK, YesMeansReady, NEW c \in Conns, NEW m \in Message,
         s2c' = Sent(s2c, c, <<m>>), ready' \in [Conns -> BOOLEAN],
         \A d \in Conns : ready[d] => ready'[d], m = "yes" => ready'[c]
  PROVE  YesMeansReady' /\ s2c' \in [Conns -> Seq(Message)]
<1> DEFINE ch == Sent(s2c, c, <<m>>)
<1>0. <<m>> \in Seq(Message) /\ s2c \in [Conns -> Seq(Message)]
  BY DEF TypeOK
<1>1. ch \in [Conns -> Seq(Message)]
  BY <1>0, SentIs
<1>2. ASSUME NEW d \in Conns, NEW i \in 1 .. Len(ch[d]), ch[d][i] = "yes" PROVE ready'[d]
  <2>1. ch[d] = s2c[d] \/ (d = c /\ ch[d] = s2c[d] \o <<m>>)
    BY <1>0 DEF Sent
  <2>2. CASE ch[d] = s2c[d]
    BY <2>2, <1>2 DEF YesMeansReady
  <2>3. CASE d = c /\ ch[d] = s2c[d] \o <<m>>
    <3>1. s2c[c] \in Seq(Message) BY <1>0
    <3>2. Len(s2c[c] \o <<m>>) = Len(s2c[c]) + 1
          /\ \A k \in 1 .. Len(s2c[c]) : (s2c[c] \o <<m>>)[k] = s2c[c][k]
          /\ (s2c[c] \o <<m>>)[Len(s2c[c]) + 1] = m
      BY <3>1
    <3>3. i \in 1 .. Len(s2c[c]) \/ i = Len(s2c[c]) + 1
      BY <3>1, <3>2, <2>3, <1>2
    <3> QED BY <3>2, <3>3, <2>3, <1>2 DEF YesMeansReady
  <2> QED BY <2>1, <2>2, <2>3
<1> QED BY <1>1, <1>2 DEF YesMeansReady

\* Nothing is sent: the channel is as it was.
LEMMA SentNothing ==
  ASSUME TypeOK, NEW c \in Conns
  PROVE  Sent(s2c, c, <<>>) = s2c
<1>1. s2c[c] \o <<>> = s2c[c]
  BY DEF TypeOK
<1> QED BY <1>1 DEF Sent, TypeOK

\* No task is ready and no YES is in flight at first.
LEMMA InitInd == Init => IndInv
BY NoConnAssumption, RetriesAssumption, FaultsAssumption
DEF Init, IndInv, TypeOK, YesMeansReady, InUseIsOpen, ServesOnlyWhenReady, Setting, Exited

-----------------------------------------------------------------------------
(* The client.                                                             *)

\* A new connection is open and has nothing in flight.
LEMMA ConnectInd ==
  ASSUME IndInv, NEW c \in Conns, Connect(c)
  PROVE  IndInv'
<1>1. <<"key">> \in Seq(Message)
  BY DEF Message
<1> QED
  BY <1>1, NoConnAssumption
  DEF Connect, IndInv, TypeOK, YesMeansReady, InUseIsOpen, ServesOnlyWhenReady, Setting, Exited,
      serverVars

\* A connect that fails leaves the client without a connection.
LEMMA ConnectFailsInd ==
  ASSUME IndInv, ConnectFails
  PROVE  IndInv'
BY RetriesAssumption
DEF ConnectFails, IndInv, TypeOK, YesMeansReady, InUseIsOpen, ServesOnlyWhenReady, Setting,
    Exited, serverVars, netVars

\* What the client leaves is closed; the rest it does not touch.
LEMMA LeaveInd ==
  ASSUME IndInv, NEW next \in {"connect"} \cup Exited, Leave(next),
         UNCHANGED <<limit, serverVars, netVars>>,
         retries' \in 0 .. RetryCap, faults' \in 0 .. MaxFaults
  PROVE  IndInv'
BY NoConnAssumption
DEF Leave, IndInv, TypeOK, YesMeansReady, InUseIsOpen, ServesOnlyWhenReady, Setting, Exited,
    serverVars, netVars

\* The messages of the key exchange are none of set-up.
LEMMA HandshakeInd ==
  ASSUME IndInv, Handshake
  PROVE  IndInv'
<1>1. cur \in Conns /\ s2c[cur] # <<>>
  BY DEF Handshake, Arrived, IndInv, TypeOK, Setting, Exited
<1>2. <<"ivkey", "setup">> \in Seq(Message)
  BY DEF Message
<1>3. c2s' \in [Conns -> Seq(Message)]
  BY <1>1, <1>2, SentIs DEF Handshake, IndInv, TypeOK
<1>4. YesMeansReady' /\ s2c' \in [Conns -> Seq(Message)]
  BY <1>1, TakenYes DEF Handshake, IndInv, serverVars
<1> QED
  BY <1>1, <1>3, <1>4
  DEF Handshake, IndInv, TypeOK, InUseIsOpen, ServesOnlyWhenReady, Setting, Exited, serverVars

\* A task that is ready says YES to its own client.
LEMMA BoundInd ==
  ASSUME IndInv, Bound
  PROVE  IndInv'
<1>1. cur \in Conns /\ s2c[cur] # <<>>
  BY DEF Bound, Arrived, IndInv, TypeOK, Setting, Exited
<1>2. <<"config">> \in Seq(Message)
  BY DEF Message
<1>3. c2s' \in [Conns -> Seq(Message)]
  BY <1>1, <1>2, SentIs DEF Bound, IndInv, TypeOK
<1>4. YesMeansReady' /\ s2c' \in [Conns -> Seq(Message)]
  BY <1>1, TakenYes DEF Bound, IndInv, serverVars
<1> QED
  BY <1>1, <1>3, <1>4
  DEF Bound, IndInv, TypeOK, InUseIsOpen, ServesOnlyWhenReady, Setting, Exited, serverVars

\* A client serves after a YES, which only a ready task has sent.
LEMMA ConfiguredInd ==
  ASSUME IndInv, Configured
  PROVE  IndInv'
<1>1. cur \in Conns /\ s2c[cur] # <<>> /\ Head(s2c[cur]) = "yes"
  BY DEF Configured, Arrived, IndInv, TypeOK, Setting, Exited
<1>2. ready[cur]
  <2>1. s2c[cur] \in Seq(Message)
    BY <1>1 DEF IndInv, TypeOK
  <2>2. 1 \in 1 .. Len(s2c[cur]) /\ s2c[cur][1] = "yes"
    BY <2>1, <1>1
  <2> QED BY <2>2, <1>1 DEF IndInv, YesMeansReady
<1>3. YesMeansReady' /\ s2c' \in [Conns -> Seq(Message)]
  BY <1>1, TakenYes DEF Configured, IndInv, serverVars
<1> QED
  BY <1>1, <1>2, <1>3
  DEF Configured, IndInv, TypeOK, InUseIsOpen, ServesOnlyWhenReady, Setting, Exited, serverVars

\* The steps of the client.
LEMMA ClientStepInd ==
  ASSUME IndInv, ClientStep
  PROVE  IndInv'
<1>1. retries \in 0 .. RetryCap /\ faults \in 0 .. MaxFaults
  BY DEF IndInv, TypeOK
<1>2. CASE \E c \in Conns : Connect(c)
  BY <1>2, ConnectInd
<1>3. CASE ConnectFails
  BY <1>3, ConnectFailsInd
<1>4. CASE Handshake
  BY <1>4, HandshakeInd
<1>5. CASE HandshakeFails
  <2>1. "exit_handshake" \in {"connect"} \cup Exited /\ retries' = retries /\ faults' = faults
        /\ Leave("exit_handshake") /\ UNCHANGED <<limit, serverVars, netVars>>
    BY <1>5 DEF HandshakeFails, Exited
  <2> QED BY <2>1, <1>1, LeaveInd
<1>6. CASE Bound
  BY <1>6, BoundInd
<1>7. CASE Configured
  BY <1>7, ConfiguredInd
<1>8. CASE SetupFails \/ SessionFails
  <2>1. "connect" \in {"connect"} \cup Exited /\ retries' = retries /\ faults' = faults
        /\ Leave("connect") /\ UNCHANGED <<limit, serverVars, netVars>>
    BY <1>8 DEF SetupFails, SessionFails
  <2> QED BY <2>1, <1>1, LeaveInd
<1> QED BY <1>2, <1>3, <1>4, <1>5, <1>6, <1>7, <1>8 DEF ClientStep

-----------------------------------------------------------------------------
(* The task of a connection.                                               *)

\* A step that answers with one message, YES only when the task becomes ready.
LEMMA ReplyInd ==
  ASSUME IndInv, NEW c \in Conns, NEW at, NEW m, NEW reply \in Message,
         NEW next \in {"none", "serve", "gone"} \cup Waiting,
         Step(c, at, m, next, <<reply>>), ready' \in [Conns -> BOOLEAN],
         \A d \in Conns : ready[d] => ready'[d], reply = "yes" => ready'[c],
         faults' \in 0 .. MaxFaults
  PROVE  IndInv'
<1>1. c2s[c] # <<>>
  BY DEF Step, Arrived
<1>2. c2s' \in [Conns -> Seq(Message)]
  BY <1>1, TakenIs DEF Step, IndInv, TypeOK
<1>3. YesMeansReady' /\ s2c' \in [Conns -> Seq(Message)]
  BY SentYes DEF Step, IndInv
<1> QED
  BY <1>2, <1>3
  DEF Step, IndInv, TypeOK, InUseIsOpen, ServesOnlyWhenReady, clientVars, Setting, Exited

\* One that answers nothing.
LEMMA SilentInd ==
  ASSUME IndInv, NEW c \in Conns, NEW at, NEW m,
         NEW next \in {"none", "serve", "gone"} \cup Waiting,
         Step(c, at, m, next, <<>>), UNCHANGED <<ready, faults>>
  PROVE  IndInv'
<1>1. c2s[c] # <<>>
  BY DEF Step, Arrived
<1>2. c2s' \in [Conns -> Seq(Message)]
  BY <1>1, TakenIs DEF Step, IndInv, TypeOK
<1>3. s2c' = s2c
  BY SentNothing DEF Step, IndInv
<1> QED
  BY <1>2, <1>3
  DEF Step, IndInv, TypeOK, YesMeansReady, InUseIsOpen, ServesOnlyWhenReady, clientVars, Setting,
      Exited

\* The steps of the tasks of the server.
LEMMA TaskStepInd ==
  ASSUME IndInv, NEW c \in Conns, TaskStep(c) \/ StartFails(c)
  PROVE  IndInv'
<1>0. ready \in [Conns -> BOOLEAN] /\ faults \in 0 .. MaxFaults
  BY DEF IndInv, TypeOK
<1>1. CASE Accept(c)
  BY <1>1
  DEF Accept, IndInv, TypeOK, YesMeansReady, InUseIsOpen, ServesOnlyWhenReady, clientVars, netVars,
      Setting, Exited, Waiting
<1>2. CASE ServerHandshake(c)
  <2>0. ready' = ready /\ faults' = faults
    BY <1>2 DEF ServerHandshake
  <2>1. CASE Step(c, "key", "key", "ivkey", <<"srvkey">>)
    <3>1. "srvkey" \in Message /\ "ivkey" \in {"none", "serve", "gone"} \cup Waiting
      BY DEF Message, Waiting
    <3> QED BY <2>0, <2>1, <3>1, <1>0, ReplyInd
  <2>2. CASE Step(c, "ivkey", "ivkey", "setup", <<>>)
    <3>1. "setup" \in {"none", "serve", "gone"} \cup Waiting
      BY DEF Waiting
    <3> QED BY <2>0, <2>2, <3>1, SilentInd
  <2> QED BY <1>2, <2>1, <2>2 DEF ServerHandshake
<1>3. CASE Bind(c)
  <2>0. ready' = ready /\ faults' = faults
    BY <1>3 DEF Bind
  <2>1. {"failed", "success"} \subseteq Message
        /\ {"gone", "config"} \subseteq {"none", "serve", "gone"} \cup Waiting
    BY DEF Message, Waiting
  <2>2. Step(c, "setup", "setup", "gone", <<"failed">>)
        \/ Step(c, "setup", "setup", "config", <<"success">>)
    BY <1>3 DEF Bind
  <2>3. CASE Step(c, "setup", "setup", "gone", <<"failed">>)
    BY <2>0, <2>1, <2>3, <1>0, ReplyInd
  <2>4. CASE Step(c, "setup", "setup", "config", <<"success">>)
    BY <2>0, <2>1, <2>4, <1>0, ReplyInd
  <2> QED BY <2>2, <2>3, <2>4
<1>4. CASE Start(c)
  <2>0. ready' \in [Conns -> BOOLEAN] /\ ready'[c] /\ (\A d \in Conns : ready[d] => ready'[d])
        /\ faults' = faults
    BY <1>4, <1>0 DEF Start
  <2>1. "yes" \in Message /\ "serve" \in {"none", "serve", "gone"} \cup Waiting
        /\ Step(c, "config", "config", "serve", <<"yes">>)
    BY <1>4 DEF Start, Message
  <2> QED BY <2>0, <2>1, <1>0, ReplyInd
<1>5. CASE TaskFails(c)
  BY <1>5
  DEF TaskFails, IndInv, TypeOK, YesMeansReady, InUseIsOpen, ServesOnlyWhenReady, clientVars,
      netVars, Setting, Exited
<1>6. CASE StartFails(c)
  <2>0. ready' = ready /\ faults' \in 0 .. MaxFaults
    BY <1>6, <1>0, FaultsAssumption DEF StartFails, Fault
  <2>1. "bad" \in Message /\ "gone" \in {"none", "serve", "gone"} \cup Waiting
        /\ Step(c, "config", "config", "gone", <<"bad">>)
    BY <1>6 DEF StartFails, Message
  <2> QED BY <2>0, <2>1, <1>0, ReplyInd
<1> QED BY <1>1, <1>2, <1>3, <1>4, <1>5, <1>6 DEF TaskStep

-----------------------------------------------------------------------------
(* Reclaim and the faults.                                                 *)

\* Faults: what is in flight is lost with the connection, and a crash takes the tasks along.
LEMMA OutsideInd ==
  ASSUME IndInv,
         \/ \E c \in Conns : Reclaim(c) \/ Reset(c) \/ Cut(c)
         \/ Crash \/ ClientRestart \/ Restart
  PROVE  IndInv'
<1>0. faults \in 0 .. MaxFaults /\ MaxFaults \in Nat /\ RetryCap \in Nat
  BY FaultsAssumption, RetriesAssumption DEF IndInv, TypeOK
<1>1. ASSUME NEW c \in Conns, Reclaim(c) PROVE IndInv'
  BY <1>1
  DEF Reclaim, IndInv, TypeOK, YesMeansReady, InUseIsOpen, ServesOnlyWhenReady, clientVars,
      Setting, Exited
<1>2. ASSUME NEW c \in Conns, Reset(c) PROVE IndInv'
  BY <1>2, <1>0
  DEF Reset, Fault, IndInv, TypeOK, YesMeansReady, InUseIsOpen, ServesOnlyWhenReady, clientVars,
      serverVars, Setting, Exited
<1>3. ASSUME NEW c \in Conns, Cut(c) PROVE IndInv'
  <2>1. faults' \in 0 .. MaxFaults
    BY <1>3, <1>0 DEF Cut, Fault
  <2>2. c2s' \in [Conns -> Seq(Message)] /\ s2c' \in [Conns -> Seq(Message)]
    <3>1. /\ c2s' = c2s \/ c2s' = [c2s EXCEPT ![c] = <<>>]
          /\ s2c' = s2c \/ s2c' = [s2c EXCEPT ![c] = <<>>]
      BY <1>3 DEF Cut
    <3>2. c2s \in [Conns -> Seq(Message)] /\ s2c \in [Conns -> Seq(Message)]
      BY DEF IndInv, TypeOK
    <3>3. <<>> \in Seq(Message)
      OBVIOUS
    <3>4. c2s' \in [Conns -> Seq(Message)]
      BY <3>1, <3>2, <3>3
    <3>5. s2c' \in [Conns -> Seq(Message)]
      BY <3>1, <3>2, <3>3
    <3> QED BY <3>4, <3>5
  <2>3. \A d \in Conns : s2c'[d] = s2c[d] \/ s2c'[d] = <<>>
    BY <1>3 DEF Cut, IndInv, TypeOK
  <2>4. ready' = ready
    BY <1>3 DEF Cut, serverVars
  <2>5. YesMeansReady'
    BY <2>3, <2>4 DEF YesMeansReady, IndInv
  <2>6. link' \in [Conns -> {"free", "up", "cut", "reset"}]
    BY <1>3 DEF Cut, IndInv, TypeOK
  <2> QED
    BY <1>3, <2>1, <2>2, <2>4, <2>5, <2>6
    DEF Cut, IndInv, TypeOK, InUseIsOpen, ServesOnlyWhenReady, clientVars,
        serverVars, Setting, Exited
<1>4. CASE Crash
  <2>1. faults' \in 0 .. MaxFaults
    BY <1>4, <1>0 DEF Crash, Fault
  <2>2. link' \in [Conns -> {"free", "up", "cut", "reset"}]
    BY <1>4 DEF Crash, IndInv, TypeOK
  <2>3. sst' \in [Conns -> {"none", "serve", "gone"} \cup Waiting]
    BY <1>4 DEF Crash
  <2>4. listening' \in BOOLEAN /\ UNCHANGED <<pc, cur, limit, retries, copen, ready, c2s, s2c>>
    BY <1>4 DEF Crash, clientVars
  <2> QED
    BY <2>1, <2>2, <2>3, <2>4
    DEF IndInv, TypeOK, YesMeansReady, InUseIsOpen, ServesOnlyWhenReady, Setting, Exited
<1>5. CASE ClientRestart
  <2>1. faults' \in 0 .. MaxFaults /\ retries' \in 0 .. RetryCap
    BY <1>5, <1>0 DEF ClientRestart, Fault
  <2>2. Leave("connect") /\ UNCHANGED <<limit, serverVars, netVars>>
    BY <1>5 DEF ClientRestart
  <2> QED BY <2>1, <2>2, LeaveInd
<1>6. CASE Restart
  BY <1>6
  DEF Restart, IndInv, TypeOK, YesMeansReady, InUseIsOpen, ServesOnlyWhenReady, clientVars, netVars,
      Setting, Exited
<1> QED BY <1>1, <1>2, <1>3, <1>4, <1>5, <1>6

\* Stuttering.
LEMMA UnchangedInd ==
  ASSUME IndInv, UNCHANGED vars
  PROVE  IndInv'
BY DEF IndInv, TypeOK, YesMeansReady, InUseIsOpen, ServesOnlyWhenReady, vars, clientVars,
       serverVars, netVars, Setting, Exited, Waiting

\* Every step preserves the inductive invariant.
LEMMA StepInd == IndInv /\ [Next]_vars => IndInv'
BY ClientStepInd, TaskStepInd, OutsideInd, UnchangedInd DEF Next

\* Whatever fails and however often a client starts over, it serves (Client::run,
\* PenetrateClientProvider) only on a connection whose server task has bound the ports,
\* read the configuration and answered YES; and every variable keeps its type.
THEOREM ServesReady == Spec => [](TypeOK /\ ServesOnlyWhenReady)
<1>1. IndInv => TypeOK /\ ServesOnlyWhenReady
  BY DEF IndInv
<1> QED BY <1>1, InitInd, StepInd, PTL DEF Spec

\* Clients, their server tasks and the connections between them keep their types; a client
\* has a connection exactly while it sets one up or serves on it.
THEOREM TypeCorrect == Spec => []TypeOK
BY ServesReady, PTL
=============================================================================
