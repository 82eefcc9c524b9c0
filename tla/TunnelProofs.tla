---------------------------- MODULE TunnelProofs ----------------------------
(* Proofs about Tunnel, for every set of visitors and every number of ids. *)
EXTENDS Tunnel, FiniteSetTheorems, TLAPS

-----------------------------------------------------------------------------
\* Ids are numbers, and 0 is one of them.
LEMMA IdsNat == Ids \subseteq Nat /\ 0 \in Ids
BY IdModAssumption DEF Ids

\* What Append does to a sequence.
LEMMA AppendAt ==
  ASSUME NEW S, NEW s \in Seq(S), NEW e \in S
  PROVE  /\ Append(s, e) \in Seq(S)
         /\ Len(Append(s, e)) = Len(s) + 1
         /\ \A k \in 1 .. Len(s) : Append(s, e)[k] = s[k]
         /\ Append(s, e)[Len(s) + 1] = e
         /\ Len(s) \in Nat
OBVIOUS

\* What Tail and Head take from a sequence.
LEMMA TailAt ==
  ASSUME NEW S, NEW s \in Seq(S), s # <<>>
  PROVE  /\ Tail(s) \in Seq(S)
         /\ Len(Tail(s)) = Len(s) - 1
         /\ \A k \in 1 .. Len(Tail(s)) : Tail(s)[k] = s[k + 1] /\ k + 1 \in 1 .. Len(s)
         /\ Head(s) = s[1]
         /\ Head(s) \in S
         /\ 1 \in 1 .. Len(s)
         /\ Len(s) \in Nat \ {0}
OBVIOUS

\* What is left of a sequence without its last element, and that element alone.
LEMMA WrittenAt ==
  ASSUME NEW S, NEW s \in Seq(S), NEW kept \in BOOLEAN, kept => s # <<>>
  PROVE  /\ Written(s, kept) \in Seq(S)
         /\ Len(Written(s, kept)) <= Len(s)
         /\ \A k \in 1 .. Len(Written(s, kept)) : Written(s, kept)[k] = s[k] /\ k \in 1 .. Len(s)
BY DEF Written

LEMMA KeptAt ==
  ASSUME NEW S, NEW s \in Seq(S), NEW kept \in BOOLEAN, kept => s # <<>>
  PROVE  /\ Kept(s, kept) \in Seq(S)
         /\ Len(Kept(s, kept)) \in {0, 1}
         /\ \A k \in 1 .. Len(Kept(s, kept)) :
              k = 1 /\ Kept(s, kept)[k] = s[Len(s)] /\ Len(s) \in 1 .. Len(s)
BY DEF Kept

\* The initial state is typed.
LEMMA InitTypeOK == Init => TypeOK
<1>1. 0 \in Ids /\ 0 \in 0 .. MaxBlocked
  BY IdsNat, ChanCapAssumption
<1>2. <<>> \in Seq(ServerPoto) /\ <<>> \in Seq(ClientPoto)
  OBVIOUS
<1>3. Init => skept \in BOOLEAN /\ ~skept /\ ckept \in BOOLEAN /\ ~ckept
  BY Zenon DEF Init
<1> SUFFICES ASSUME Init PROVE TypeOK
  OBVIOUS
<1>4. target \in [Jobs -> BOOLEAN]
  BY DEF Init
<1> QED
  BY <1>1, <1>2, <1>3, <1>4 DEF Init, TypeOK, VisitorState, JobState, DataState

\* The messages are messages.
LEMMA PotoTypes ==
  /\ Ping \in ServerPoto /\ Ping \in ClientPoto
  /\ \A i \in Ids, v \in Visitors : Map(i, v) \in ServerPoto
  /\ \A i \in Ids, j \in Jobs : MapError(i, j) \in ClientPoto
BY DEF Ping, Map, MapError, ServerPoto, ClientPoto

\* What a packet is that has an id.
LEMMA PotoFields ==
  /\ \A m \in ServerPoto : m.type = "Map" => m.id \in Ids /\ m.dst \in Visitors
  /\ \A m \in ClientPoto : m.type = "MapError" =>
       m.id \in Ids /\ m.of \in Jobs /\ m = MapError(m.id, m.of)
  /\ Ping.type = "Ping"
BY DEF Ping, MapError, ServerPoto, ClientPoto

\* A send adds one frame, or none.
LEMMA ServerSendTypes ==
  ASSUME TypeOK, NEW m \in ServerPoto, ServerEncrypts(m) \/ ServerFlushes
  PROVE  /\ s2c' \in Seq(ServerPoto) /\ skept' \in BOOLEAN /\ blocked' \in 0 .. MaxBlocked
         /\ c2s' = c2s /\ ckept' = ckept /\ (skept' => s2c' # <<>>)
<1>1. CASE ServerEncrypts(m)
  <2>0. s2c \in Seq(ServerPoto) /\ skept \in BOOLEAN /\ blocked \in 0 .. MaxBlocked
    BY DEF TypeOK
  <2>1. s2c' = Append(s2c, m)
    BY <1>1 DEF ServerEncrypts
  <2>a. s2c' \in Seq(ServerPoto) /\ Len(s2c') = Len(s2c) + 1 /\ Len(s2c) \in Nat
    BY <2>0, <2>1, AppendAt
  <2>b. s2c' # <<>>
    BY <2>a
  <2>2. skept' \in BOOLEAN
    BY <1>1, <2>0, Zenon DEF ServerEncrypts
  <2>3. blocked' = blocked \/ (blocked < MaxBlocked /\ blocked' = blocked + 1)
    BY <1>1 DEF ServerEncrypts
  <2>4. blocked' \in 0 .. MaxBlocked
    BY <2>0, <2>3, ChanCapAssumption
  <2> QED BY <1>1, <2>a, <2>b, <2>2, <2>4 DEF ServerEncrypts
<1>2. CASE ServerFlushes
  BY <1>2 DEF ServerFlushes, TypeOK
<1> QED BY <1>1, <1>2

LEMMA ClientSendTypes ==
  ASSUME TypeOK, NEW m \in ClientPoto, ClientEncrypts(m) \/ ClientFlushes
  PROVE  /\ c2s' \in Seq(ClientPoto) /\ ckept' \in BOOLEAN /\ blocked' \in 0 .. MaxBlocked
         /\ s2c' = s2c /\ skept' = skept /\ (ckept' => c2s' # <<>>)
<1>1. CASE ClientEncrypts(m)
  <2>0. c2s \in Seq(ClientPoto) /\ ckept \in BOOLEAN /\ blocked \in 0 .. MaxBlocked
    BY DEF TypeOK
  <2>1. c2s' = Append(c2s, m)
    BY <1>1 DEF ClientEncrypts
  <2>a. c2s' \in Seq(ClientPoto) /\ Len(c2s') = Len(c2s) + 1 /\ Len(c2s) \in Nat
    BY <2>0, <2>1, AppendAt
  <2>b. c2s' # <<>>
    BY <2>a
  <2>2. ckept' \in BOOLEAN
    BY <1>1, <2>0, Zenon DEF ClientEncrypts
  <2>3. blocked' = blocked \/ (blocked < MaxBlocked /\ blocked' = blocked + 1)
    BY <1>1 DEF ClientEncrypts
  <2>4. blocked' \in 0 .. MaxBlocked
    BY <2>0, <2>3, ChanCapAssumption
  <2> QED BY <1>1, <2>a, <2>b, <2>2, <2>4 DEF ClientEncrypts
<1>2. CASE ClientFlushes
  BY <1>2 DEF ClientFlushes, TypeOK
<1> QED BY <1>1, <1>2

\* A frame that is read is followed by the one that is kept.
LEMMA ShortWritten ==
  ASSUME NEW S, NEW s \in Seq(S), NEW kept \in BOOLEAN, Written(s, kept) # <<>>
  PROVE  s # <<>> /\ (kept => Tail(s) # <<>>)
BY DEF Written

\* Every step preserves the types.
LEMMA StepTypeOK == TypeOK /\ [Next]_vars => TypeOK'
<1> SUFFICES ASSUME TypeOK, [Next]_vars PROVE TypeOK'
  OBVIOUS
<1> USE DEF TypeOK, VisitorState, JobState, DataState, wire, history
<1>1. CASE UNCHANGED vars
  BY <1>1 DEF vars, serverVars, clientVars
<1>2. ASSUME NEW v \in Visitors, VisitorStep(v) PROVE TypeOK'
  <2>1. CASE AcceptVisitor(v) \/ MockFails(v) \/ PushHangs(v)
    BY <2>1 DEF AcceptVisitor, MockFails, PushHangs, clientVars
  <2>2. CASE Push(v)
    BY <2>2 DEF Push, clientVars
  <2>3. CASE NotifyClient(v)
    <3>1. Map(vid[v], v) \in ServerPoto
      BY PotoTypes
    <3>2. ServerEncrypts(Map(vid[v], v)) \/ ServerFlushes
      BY <2>3 DEF NotifyClient
    <3>3. /\ s2c' \in Seq(ServerPoto) /\ skept' \in BOOLEAN /\ blocked' \in 0 .. MaxBlocked
          /\ c2s' = c2s /\ ckept' = ckept /\ (skept' => s2c' # <<>>)
      BY <3>1, <3>2, ServerSendTypes
    <3>4. asked' \subseteq Visitors /\ twice' \subseteq Ids /\ vst' \in [Visitors -> VisitorState]
      BY <2>3 DEF NotifyClient
    <3> QED
      BY <2>3, <3>3, <3>4 DEF NotifyClient, clientVars
  <2>4. CASE FinishVisitor(v) \/ VisitorRefused(v) \/ VisitorTimeout(v)
    BY <2>4 DEF FinishVisitor, VisitorRefused, VisitorTimeout, clientVars
  <2> QED
    BY <1>2, <2>1, <2>2, <2>3, <2>4 DEF VisitorStep
<1>3. ASSUME NEW v \in Jobs, DataStep(v) PROVE TypeOK'
  <2>1. CASE ServeClient(v)
    <3>1. wait_list' \in [Ids -> Visitors \cup {NoVisitor}]
      BY <2>1 DEF ServeClient, Remove
    <3>2. chan' \in [Visitors -> {"empty", "full", "closed"}]
      BY <2>1 DEF ServeClient
    <3>3. stream' \in [Visitors -> Jobs \cup {NoJob}]
      BY <2>1 DEF ServeClient
    <3>4. dconn' \in [Jobs -> DataState]
      BY <2>1 DEF ServeClient
    <3> QED
      BY <2>1, <3>1, <3>2, <3>3, <3>4 DEF ServeClient, clientVars
  <2>2. CASE DropClient(v)
    BY <2>2 DEF DropClient, serverVars, clientVars
  <2> QED
    BY <1>3, <2>1, <2>2 DEF DataStep
<1>4. ASSUME NEW v \in Jobs, JobStep(v) PROVE TypeOK'
  <2>1. CASE ConnectServer(v) \/ ConnectFails(v)
    BY <2>1 DEF ConnectServer, ConnectFails, serverVars, clientVars
  <2>2. CASE ConnectTarget(v)
    <3>1. target' \in [Jobs -> BOOLEAN]
      BY <2>2 DEF ConnectTarget
    <3> QED
      BY <2>2, <3>1 DEF ConnectTarget, serverVars
  <2>4. CASE Connected(v) \/ ClientTimeout(v) \/ SendMap(v)
    <3>1. job' \in [Jobs -> JobState] /\ dconn' \in [Jobs -> DataState]
      <4>1. CASE Connected(v)
        BY <4>1 DEF Connected, Hangup
      <4>2. CASE ClientTimeout(v)
        BY <4>2 DEF ClientTimeout, Hangup
      <4>3. CASE SendMap(v)
        BY <4>3 DEF SendMap, Hangup
      <4> QED
        BY <2>4, <4>1, <4>2, <4>3
    <3> QED
      BY <2>4, <3>1 DEF Connected, ClientTimeout, SendMap, serverVars
  <2>3. CASE SendMapError(v)
    <3>1. MapError(jid[v], v) \in ClientPoto
      BY PotoTypes
    <3>2. ClientEncrypts(MapError(jid[v], v)) \/ ClientFlushes
      BY <2>3 DEF SendMapError
    <3>3. /\ c2s' \in Seq(ClientPoto) /\ ckept' \in BOOLEAN /\ blocked' \in 0 .. MaxBlocked
          /\ s2c' = s2c /\ skept' = skept /\ (ckept' => c2s' # <<>>)
      BY <3>1, <3>2, ClientSendTypes
    <3>4. denied' \subseteq Jobs /\ twice' \subseteq Ids
      BY <2>3 DEF SendMapError
    <3>5. job' \in [Jobs -> JobState] /\ dconn' \in [Jobs -> DataState]
      BY <2>3 DEF SendMapError, Hangup
    <3> QED
      BY <2>3, <3>3, <3>4, <3>5 DEF SendMapError, serverVars
  <2> QED
    BY <1>4, <2>1, <2>2, <2>3, <2>4 DEF JobStep
<1>5. CASE HandleRecv
  <2>1. c2s # <<>> /\ (ckept => Tail(c2s) # <<>>)
    BY <1>5, ShortWritten DEF HandleRecv
  <2>2. Head(c2s) \in ClientPoto /\ Tail(c2s) \in Seq(ClientPoto)
    BY <2>1, TailAt
  <2>3. wait_list' \in [Ids -> Visitors \cup {NoVisitor}]
    BY <1>5 DEF HandleRecv, Remove
  <2>4. chan' \in [Visitors -> {"empty", "full", "closed"}]
    BY <1>5 DEF HandleRecv
  <2> QED
    BY <1>5, <2>1, <2>2, <2>3, <2>4 DEF HandleRecv, clientVars
<1>6. CASE Heartbeat
  BY <1>6, PotoTypes, ServerSendTypes DEF Heartbeat, serverVars, clientVars
<1>7. CASE ClientHeartbeat
  BY <1>7, PotoTypes, ClientSendTypes DEF ClientHeartbeat, serverVars, clientVars
<1>8. CASE ServerError
  <2>1. Written(s2c, skept) \in Seq(ServerPoto)
    BY WrittenAt
  <2>2. Kept(c2s, ckept) \in Seq(ClientPoto) /\ (ckept => Kept(c2s, ckept) # <<>>)
    BY KeptAt DEF Kept
  <2> QED
    BY <1>8, <2>1, <2>2 DEF ServerError, Pending, clientVars
<1>9. CASE ClientError
  <2>1. Written(c2s, ckept) \in Seq(ClientPoto)
    BY WrittenAt
  <2>2. Kept(s2c, skept) \in Seq(ServerPoto) /\ (skept => Kept(s2c, skept) # <<>>)
    BY KeptAt DEF Kept
  <2> QED
    BY <1>9, <2>1, <2>2 DEF ClientError, serverVars
<1>10. CASE ClientRecv
  <2>1. s2c # <<>> /\ (skept => Tail(s2c) # <<>>)
    BY <1>10, ShortWritten DEF ClientRecv
  <2>2. Head(s2c) \in ServerPoto /\ Tail(s2c) \in Seq(ServerPoto)
    BY <2>1, TailAt
  <2>3. job' \in [Jobs -> JobState] /\ jid' \in [Jobs -> Ids] /\ dst' \in [Jobs -> Visitors \cup {NoVisitor}]
    <3>1. CASE Head(s2c).type = "Map"
      <4>1. Head(s2c).id \in Ids /\ Head(s2c).dst \in Visitors
        BY <2>2, <3>1, PotoFields
      <4>2. PICK j \in Jobs : /\ \E s \in {"connect", "refuse"} : job' = [job EXCEPT ![j] = s]
                               /\ jid' = [jid EXCEPT ![j] = Head(s2c).id]
                               /\ dst' = [dst EXCEPT ![j] = Head(s2c).dst]
        BY <1>10, <3>1 DEF ClientRecv
      <4> QED
        BY <4>1, <4>2
    <3>2. CASE Head(s2c).type # "Map"
      BY <1>10, <3>2 DEF ClientRecv
    <3> QED
      BY <3>1, <3>2
  <2> QED
    BY <1>10, <2>1, <2>2, <2>3 DEF ClientRecv, serverVars
<1> QED
  BY <1>1, <1>2, <1>3, <1>4, <1>5, <1>6, <1>7, <1>8, <1>9, <1>10 DEF Next

\* Every variable of a session keeps its type: the ids push hands out stay in
\* the range of the counter and no handler leaves a value the others do not
\* expect.
THEOREM TypeCorrect == Spec => []TypeOK
BY InitTypeOK, StepTypeOK, PTL DEF Spec

-----------------------------------------------------------------------------
(* Routes and refusals.                                                     *)

\* What is under way names ids, visitors and jobs.
LEMMA PacketFields ==
  ASSUME TypeOK
  PROVE  /\ \A k \in 1 .. Len(s2c) : MapAt(k) => s2c[k].id \in Ids /\ s2c[k].dst \in Visitors
         /\ \A k \in 1 .. Len(c2s) : ErrorAt(k) =>
              c2s[k].id \in Ids /\ c2s[k].of \in Jobs /\ c2s[k] = MapError(c2s[k].id, c2s[k].of)
<1>1. /\ \A k \in 1 .. Len(s2c) : s2c[k] \in ServerPoto
      /\ \A k \in 1 .. Len(c2s) : c2s[k] \in ClientPoto
  BY DEF TypeOK
<1> QED BY <1>1, PotoFields DEF MapAt, ErrorAt

\* A job under way is a job for a visitor that was asked for, and whoever has an answer was
\* asked for, or has an id that was encrypted twice.
LEMMA AskedFirst ==
  ASSUME IndInv
  PROVE  /\ \A j \in Jobs : dst[j] # NoVisitor => job[j] # "none"
         /\ \A j \in Jobs : job[j] # "none" => dst[j] \in Visitors /\ dst[j] # NoVisitor
         /\ \A j \in Jobs : Unanswered(j) => job[j] # "none"
         /\ \A v \in Visitors : chan[v] # "empty" => v \in asked \/ vid[v] \in twice
<1>1. /\ asked \subseteq Visitors /\ denied \subseteq Jobs
      /\ dst \in [Jobs -> Visitors \cup {NoVisitor}] /\ stream \in [Visitors -> Jobs \cup {NoJob}]
      /\ chan \in [Visitors -> {"empty", "full", "closed"}]
  BY DEF IndInv, TypeOK
<1>2. \A j \in Jobs : /\ job[j] # "none" => dst[j] \in asked
                      /\ job[j] = "none" => dst[j] = NoVisitor /\ dconn[j] = "none"
                      /\ j \in denied => job[j] # "none"
  BY DEF IndInv, LifeInv
<1>3. ASSUME NEW v \in Visitors, chan[v] = "full" PROVE v \in asked \/ vid[v] \in twice
  <2>1. stream[v] \in Jobs /\ job[stream[v]] = "ready" /\ (dst[stream[v]] = v \/ vid[v] \in twice)
    BY <1>1, <1>3 DEF IndInv, RouteCorrect
  <2> QED BY <1>2, <2>1
<1>4. ASSUME NEW v \in Visitors, chan[v] = "closed" PROVE v \in asked \/ vid[v] \in twice
  <2>1. (\E j \in denied : dst[j] = v) \/ vid[v] \in twice
    BY <1>4 DEF IndInv, RefusalCorrect
  <2> QED BY <1>1, <1>2, <2>1
<1> QED BY <1>1, <1>2, <1>3, <1>4, VisitorsAssumption DEF Unanswered

\* Nothing is under way at first.
LEMMA InitIndInv == Init => IndInv
<1> SUFFICES ASSUME Init PROVE IndInv
  OBVIOUS
<1>1. TypeOK
  BY InitTypeOK
<1>2. Len(s2c) = 0 /\ Len(c2s) = 0 /\ 1 .. 0 = {}
  BY DEF Init
<1>3. EntryInv /\ RouteCorrect /\ RefusalCorrect
  BY DEF Init, EntryInv, RouteCorrect, RefusalCorrect
<1>4. LifeInv /\ OnceInv
  BY <1>2 DEF Init, LifeInv, OnceInv
<1>5. ReservedInv
  BY <1>2 DEF Init, ReservedInv, Unanswered
<1> QED BY <1>1, <1>3, <1>4, <1>5 DEF IndInv

\* Steps of a visitor that leave queues, entries and channels alone.
LEMMA VisitorInd ==
  ASSUME NEW v \in Visitors, IndInv, TypeOK',
         \/ AcceptVisitor(v) \/ MockFails(v) \/ PushHangs(v)
         \/ FinishVisitor(v) \/ VisitorRefused(v) \/ VisitorTimeout(v)
  PROVE  IndInv'
<1> USE DEF IndInv, AcceptVisitor, MockFails, PushHangs, FinishVisitor, VisitorRefused,
            VisitorTimeout, Pending, clientVars, wire, history
<1>t. /\ vst \in [Visitors -> VisitorState]
      /\ wait_list \in [Ids -> Visitors \cup {NoVisitor}]
  BY DEF TypeOK
<1>a. /\ UNCHANGED <<wait_list, vid, chan, stream, asked>> /\ sess = "up"
      /\ \A u \in Visitors : /\ vst'[u] \in {"idle", "mock"} => vst[u] \in {"idle", "mock"}
                             /\ vst[u] \in {"idle", "mock"} => vst'[u] \notin {"notify", "wait"}
                             /\ vst'[u] \in {"notify", "wait"} => vst[u] = vst'[u]
  BY <1>t
<1>1. EntryInv'
  BY <1>t, <1>a DEF EntryInv
<1>2. LifeInv'
  BY DEF LifeInv, MapAt, ErrorAt
<1>3. OnceInv'
  BY DEF OnceInv, MapAt, ErrorAt
<1>4. ReservedInv'
  BY DEF ReservedInv, Unanswered, MapAt, ErrorAt
<1>5. RouteCorrect'
  BY <1>t DEF RouteCorrect
<1>6. RefusalCorrect'
  BY DEF RefusalCorrect
<1> QED
  BY <1>1, <1>2, <1>3, <1>4, <1>5, <1>6

\* The id that push reserves was free, so nothing under way has it.
LEMMA PushInd ==
  ASSUME NEW v \in Visitors, IndInv, TypeOK', Push(v)
  PROVE  IndInv'
<1> USE DEF IndInv, Push, clientVars, wire, history
<1>t. /\ vst \in [Visitors -> VisitorState] /\ vid \in [Visitors -> Ids]
      /\ wait_list \in [Ids -> Visitors \cup {NoVisitor}]
      /\ asked \subseteq Visitors /\ denied \subseteq Jobs
  BY DEF TypeOK
<1>i. PICK i \in Ids : /\ wait_list[i] = NoVisitor
                       /\ wait_list' = [wait_list EXCEPT ![i] = v]
                       /\ vid' = [vid EXCEPT ![v] = i]
  BY DEF PushId
<1>a. v \notin asked /\ chan[v] = "empty" /\ stream[v] = NoJob
  BY DEF EntryInv
<1>b. /\ vst'[v] \in {"notify", "closed"} /\ \A u \in Visitors \ {v} : vst'[u] = vst[u]
      /\ \A u \in Visitors \ {v} : vid'[u] = vid[u]
      /\ \A l \in Ids : wait_list[l] # v
      /\ \A l \in Ids \ {i} : wait_list'[l] = wait_list[l]
      /\ vid'[v] = i /\ wait_list'[i] = v
      /\ \A l \in Ids : wait_list[l] # NoVisitor => wait_list'[l] = wait_list[l]
  BY <1>t, <1>i, VisitorsAssumption DEF EntryInv
<1>1. EntryInv'
  <2>1. \A l \in Ids : wait_list'[l] # NoVisitor =>
          /\ vid'[wait_list'[l]] = l /\ vst'[wait_list'[l]] \notin {"idle", "mock"}
          /\ chan'[wait_list'[l]] = "empty" /\ stream'[wait_list'[l]] = NoJob
    BY <1>t, <1>a, <1>b DEF EntryInv
  <2>2. \A u \in Visitors :
          vst'[u] \in {"notify", "wait"} /\ chan'[u] = "empty" => wait_list'[vid'[u]] = u
    BY <1>t, <1>b, VisitorsAssumption DEF EntryInv
  <2>3. \A u \in Visitors : vst'[u] \in {"idle", "mock"} =>
          u \notin asked' /\ chan'[u] = "empty" /\ stream'[u] = NoJob
    BY <1>b DEF EntryInv
  <2> QED
    BY <2>1, <2>2, <2>3 DEF EntryInv
<1>2. LifeInv'
  BY <1>t, <1>a, <1>b DEF LifeInv, MapAt, ErrorAt
<1>3. OnceInv'
  BY DEF OnceInv, MapAt, ErrorAt
<1>4. ReservedInv'
  <2>1. \A k \in 1 .. Len(s2c) : MapAt(k) =>
          s2c[k].id \in Ids /\ s2c[k].dst \in Visitors /\ s2c[k].dst # NoVisitor
    BY PacketFields, VisitorsAssumption
  <2>2. \A k \in 1 .. Len(c2s) : ErrorAt(k) =>
          c2s[k].id \in Ids /\ c2s[k].of \in Jobs /\ dst[c2s[k].of] # NoVisitor
    BY <1>t, PacketFields, AskedFirst DEF LifeInv
  <2>3. \A j \in Jobs : Unanswered(j) => jid[j] \in Ids /\ dst[j] # NoVisitor
    BY AskedFirst DEF TypeOK
  <2> QED
    BY <1>b, <2>1, <2>2, <2>3 DEF ReservedInv, Unanswered, MapAt, ErrorAt
<1>5. RouteCorrect'
  BY <1>t, <1>a, <1>b DEF RouteCorrect
<1>6. RefusalCorrect'
  BY <1>t, <1>a, <1>b DEF RefusalCorrect
<1> QED
  BY <1>1, <1>2, <1>3, <1>4, <1>5, <1>6

\* The request goes out under the id reserved for it, or its id is noted to be encrypted
\* once more.
LEMMA NotifyClientInd ==
  ASSUME NEW v \in Visitors, IndInv, TypeOK', NotifyClient(v)
  PROVE  IndInv'
<1> USE DEF IndInv
<1>t. /\ vst \in [Visitors -> VisitorState] /\ vid \in [Visitors -> Ids]
      /\ asked \subseteq Visitors /\ s2c \in Seq(ServerPoto)
      /\ chan \in [Visitors -> {"empty", "full", "closed"}]
  BY DEF TypeOK
<1>u. /\ UNCHANGED <<sess, wait_list, vid, chan, stream, job, jid, dst, target, c2s, denied, dconn>>
      /\ vst[v] = "notify" /\ sess = "up"
      /\ vst' = [vst EXCEPT ![v] = IF skept' THEN "notify" ELSE "wait"]
  BY DEF NotifyClient, ServerEncrypts, ServerFlushes, clientVars
<1>v. /\ \A u \in Visitors \ {v} : vst'[u] = vst[u]
      /\ vst'[v] \in {"notify", "wait"}
  BY <1>t, <1>u
<1>w. asked \subseteq asked' /\ twice \subseteq twice' /\ asked' \subseteq asked \cup {v}
  BY DEF NotifyClient
<1>1. EntryInv'
  BY <1>u, <1>v, <1>w DEF EntryInv
<1>5. RouteCorrect'
  BY <1>u, <1>v, <1>w DEF RouteCorrect
<1>6. RefusalCorrect'
  BY <1>u, <1>w DEF RefusalCorrect
<1>7. CASE ServerFlushes /\ UNCHANGED <<asked, twice>>
  <2>1. s2c' = s2c
    BY <1>7 DEF ServerFlushes
  <2>2. LifeInv'
    BY <1>u, <1>7, <2>1 DEF LifeInv, MapAt, ErrorAt
  <2>3. OnceInv'
    BY <1>u, <1>7, <2>1 DEF OnceInv, MapAt, ErrorAt
  <2>4. ReservedInv'
    BY <1>u, <1>7, <2>1 DEF ReservedInv, Unanswered, MapAt, ErrorAt
  <2> QED
    BY <1>1, <1>5, <1>6, <2>2, <2>3, <2>4
<1>8. CASE /\ ServerEncrypts(Map(vid[v], v)) /\ asked' = asked \cup {v}
           /\ twice' = twice \cup (IF v \in asked THEN {vid[v]} ELSE {})
  <2> DEFINE n == Len(s2c) + 1
  <2>a. s2c' = Append(s2c, Map(vid[v], v))
    BY <1>8 DEF ServerEncrypts
  <2>b. /\ Len(s2c') = n /\ Len(s2c) \in Nat
        /\ \A k \in 1 .. Len(s2c) : s2c'[k] = s2c[k]
        /\ s2c'[n] = Map(vid[v], v)
    BY <1>t, <2>a, PotoTypes, AppendAt
  <2>c. \A k \in 1 .. Len(s2c') : k \in 1 .. Len(s2c) \/ k = n
    BY <2>b
  <2>d. /\ \A k \in 1 .. Len(s2c') : MapAt(k)' => (k \in 1 .. Len(s2c) /\ MapAt(k)) \/ k = n
        /\ s2c'[n].dst = v /\ s2c'[n].id = vid[v]
    BY <2>b, <2>c DEF MapAt, Map
  <2>e. v \in asked => vid[v] \in twice'
    BY <1>8
  <2> HIDE DEF n
  <2>2. LifeInv'
    <3>1. \A k \in 1 .. Len(s2c') : MapAt(k)' =>
            s2c'[k].dst \in asked' /\ s2c'[k].id = vid[s2c'[k].dst]
      BY <1>8, <2>b, <2>d DEF LifeInv
    <3> QED
      BY <1>u, <1>w, <3>1 DEF LifeInv, ErrorAt
  <2>3. OnceInv'
    <3>1. \A k \in 1 .. Len(s2c) : MapAt(k) /\ s2c[k].dst = v => s2c[k].id \in twice'
      BY <2>e DEF LifeInv
    <3>2. \A j \in Jobs : dst[j] = v => vid[v] \in twice'
      BY <2>e, VisitorsAssumption DEF LifeInv
    <3>3. \A k, l \in 1 .. Len(s2c') :
            MapAt(k)' /\ MapAt(l)' /\ s2c'[k].dst = s2c'[l].dst => k = l \/ s2c'[k].id \in twice'
      <4> SUFFICES ASSUME NEW k \in 1 .. Len(s2c'), NEW l \in 1 .. Len(s2c'), MapAt(k)', MapAt(l)',
                          s2c'[k].dst = s2c'[l].dst, k # l
                   PROVE  s2c'[k].id \in twice'
        OBVIOUS
      <4>1. CASE k = n
        BY <2>b, <2>d, <3>1, <4>1 DEF LifeInv
      <4>2. CASE l = n /\ k # n
        BY <2>b, <2>d, <3>1, <4>2
      <4>3. CASE k # n /\ l # n
        BY <1>w, <2>b, <2>d, <4>3 DEF OnceInv
      <4> QED
        BY <4>1, <4>2, <4>3
    <3>4. \A k \in 1 .. Len(s2c') : \A j \in Jobs :
            MapAt(k)' /\ dst[j] = s2c'[k].dst => s2c'[k].id \in twice'
      BY <1>w, <2>b, <2>d, <3>2 DEF OnceInv
    <3> QED
      BY <1>u, <1>w, <3>3, <3>4 DEF OnceInv, ErrorAt
  <2>4. ReservedInv'
    <3>1. vid[v] \notin twice' => wait_list[vid[v]] = v
      <4>1. vid[v] \notin twice' => chan[v] = "empty"
        BY <1>w, <2>e, AskedFirst
      <4> QED
        BY <1>u, <4>1 DEF EntryInv
    <3>2. \A k \in 1 .. Len(s2c') : MapAt(k)' /\ s2c'[k].id \notin twice' =>
            wait_list[s2c'[k].id] = s2c'[k].dst
      BY <1>u, <1>w, <2>b, <2>d, <3>1 DEF ReservedInv
    <3> QED
      BY <1>u, <1>w, <3>2 DEF ReservedInv, Unanswered, ErrorAt
  <2> QED
    BY <1>1, <1>5, <1>6, <2>2, <2>3, <2>4
<1> QED
  BY <1>7, <1>8 DEF NotifyClient

\* The answer frees its id, and was the only thing under way with it.
LEMMA ServeClientInd ==
  ASSUME NEW d \in Jobs, IndInv, TypeOK', ServeClient(d)
  PROVE  IndInv'
<1> USE DEF IndInv
<1> DEFINE i == jid[d]
           v == wait_list[i]
<1>t. /\ wait_list \in [Ids -> Visitors \cup {NoVisitor}] /\ stream \in [Visitors -> Jobs \cup {NoJob}]
      /\ chan \in [Visitors -> {"empty", "full", "closed"}] /\ dconn \in [Jobs -> DataState]
      /\ denied \subseteq Jobs /\ asked \subseteq Visitors /\ i \in Ids /\ vid \in [Visitors -> Ids]
  BY DEF TypeOK
<1>u. /\ UNCHANGED <<sess, vst, vid, job, jid, dst, target, s2c, c2s, asked, denied, twice>>
      /\ sess = "up" /\ dconn[d] = "sent"
      /\ wait_list' = [wait_list EXCEPT ![i] = NoVisitor]
  BY DEF ServeClient, Remove, clientVars, wire, history
<1>v. /\ wait_list'[i] = NoVisitor /\ \A l \in Ids \ {i} : wait_list'[l] = wait_list[l]
      /\ dconn'[d] \in {"taken", "dropped"} /\ \A j \in Jobs \ {d} : dconn'[j] = dconn[j]
  BY <1>t, <1>u DEF ServeClient
<1>w. \/ /\ v \in Visitors /\ Pending(v) /\ chan' = [chan EXCEPT ![v] = "full"]
         /\ stream' = [stream EXCEPT ![v] = d] /\ dconn'[d] = "taken"
      \/ ~(v \in Visitors /\ Pending(v)) /\ UNCHANGED <<chan, stream>>
  BY <1>t, VisitorsAssumption DEF ServeClient
<1>x. /\ job[d] = "ready" /\ target[d] /\ d \notin denied
      /\ dst[d] \in asked /\ dst[d] \in Visitors /\ dst[d] # NoVisitor
      /\ Unanswered(d)
  BY <1>t, <1>u, AskedFirst DEF LifeInv, Unanswered
<1>y. /\ i \notin twice => v = dst[d]
      /\ v \in Visitors => vid[v] = i /\ chan[v] = "empty" /\ stream[v] = NoJob
                           /\ vst[v] \notin {"idle", "mock"}
  BY <1>t, <1>u, <1>x, VisitorsAssumption DEF ReservedInv, EntryInv
<1>z. \A u \in Visitors : stream[u] # d
  <2> SUFFICES ASSUME NEW u \in Visitors, stream[u] = d PROVE FALSE
    OBVIOUS
  <2>1. stream[u] # NoJob
    BY VisitorsAssumption
  <2> QED BY <1>u, <2>1 DEF LifeInv
<1> HIDE DEF i, v
<1>1. EntryInv'
  <2>1. \A l \in Ids : wait_list'[l] # NoVisitor =>
          /\ l # i /\ wait_list'[l] = wait_list[l] /\ wait_list[l] # v
          /\ wait_list[l] \in Visitors
    BY <1>t, <1>v, <1>y DEF EntryInv
  <2>2. \A u \in Visitors : u # v => chan'[u] = chan[u] /\ stream'[u] = stream[u]
    BY <1>t, <1>w
  <2>3. \A l \in Ids : wait_list'[l] # NoVisitor =>
          /\ vid'[wait_list'[l]] = l /\ vst'[wait_list'[l]] \notin {"idle", "mock"}
          /\ chan'[wait_list'[l]] = "empty" /\ stream'[wait_list'[l]] = NoJob
    BY <1>u, <2>1, <2>2 DEF EntryInv
  <2>4. \A u \in Visitors : vst'[u] \in {"idle", "mock"} =>
          u \notin asked' /\ chan'[u] = "empty" /\ stream'[u] = NoJob
    BY <1>u, <1>y, <2>2 DEF EntryInv
  <2>5. \A u \in Visitors :
          vst'[u] \in {"notify", "wait"} /\ chan'[u] = "empty" => wait_list'[vid'[u]] = u
    <3> SUFFICES ASSUME NEW u \in Visitors, vst[u] \in {"notify", "wait"}, chan'[u] = "empty"
                 PROVE  wait_list'[vid[u]] = u
      BY <1>u
    <3>1. u # v
      BY <1>t, <1>w DEF Pending
    <3>2. wait_list[vid[u]] = u
      BY <1>u, <2>2, <3>1 DEF EntryInv
    <3>3. vid[u] \in Ids /\ vid[u] # i
      BY <1>t, <3>1, <3>2 DEF v
    <3> QED
      BY <1>v, <3>2, <3>3
  <2> QED
    BY <2>3, <2>4, <2>5 DEF EntryInv
<1>2. LifeInv'
  <2>1. \A u \in Visitors : stream'[u] # NoJob => chan'[u] = "full" /\ dconn'[stream'[u]] = "taken"
    BY <1>t, <1>v, <1>w, <1>z DEF LifeInv
  <2>2. \A j \in Jobs :
          /\ job[j] = "none" => dconn'[j] = "none"
          /\ dconn'[j] \in {"sent", "taken"} => job[j] = "ready"
          /\ job[j] \in {"send", "ready"} => dconn'[j] # "none"
    BY <1>v, <1>x DEF LifeInv
  <2> QED
    BY <1>u, <2>1, <2>2 DEF LifeInv, MapAt, ErrorAt
<1>3. OnceInv'
  BY <1>u DEF OnceInv, MapAt, ErrorAt
<1>4. ReservedInv'
  <2>1. \A k \in 1 .. Len(s2c) : MapAt(k) /\ s2c[k].id \notin twice =>
          s2c[k].id \in Ids /\ s2c[k].id # i
    <3> SUFFICES ASSUME NEW k \in 1 .. Len(s2c), MapAt(k), s2c[k].id \notin twice, s2c[k].id = i
                 PROVE  FALSE
      BY PacketFields
    <3>1. dst[d] = s2c[k].dst
      BY <1>u, <1>y DEF ReservedInv, v
    <3> QED
      BY <3>1 DEF OnceInv
  <2>2. \A k \in 1 .. Len(c2s) : ErrorAt(k) /\ c2s[k].id \notin twice =>
          c2s[k].id \in Ids /\ c2s[k].id # i
    <3> SUFFICES ASSUME NEW k \in 1 .. Len(c2s), ErrorAt(k), c2s[k].id \notin twice, c2s[k].id = i
                 PROVE  FALSE
      BY PacketFields
    <3>1. c2s[k].of \in Jobs /\ c2s[k].of \in denied /\ jid[c2s[k].of] = i
      BY PacketFields DEF LifeInv
    <3>2. dst[c2s[k].of] = dst[d]
      BY <1>u, <1>y DEF ReservedInv, v
    <3> QED
      BY <1>x, <3>1, <3>2 DEF OnceInv
  <2>3. \A j \in Jobs : Unanswered(j)' /\ jid[j] \notin twice =>
          Unanswered(j) /\ jid[j] \in Ids /\ jid[j] # i
    <3> SUFFICES ASSUME NEW j \in Jobs, Unanswered(j)', jid[j] \notin twice
                 PROVE  Unanswered(j) /\ jid[j] \in Ids /\ jid[j] # i
      OBVIOUS
    <3>1. j # d
      BY <1>u, <1>v, <1>x DEF Unanswered
    <3>2. Unanswered(j) /\ jid[j] \in Ids
      BY <1>u, <1>v, <3>1 DEF Unanswered, TypeOK
    <3>3. jid[j] = i => dst[j] = dst[d]
      BY <1>u, <1>y, <3>2 DEF ReservedInv, v
    <3> QED
      BY <1>x, <3>1, <3>2, <3>3 DEF OnceInv
  <2> QED
    BY <1>u, <1>v, <2>1, <2>2, <2>3 DEF ReservedInv, MapAt, ErrorAt
<1>5. RouteCorrect'
  <2>1. jid[d] = i
    BY DEF i
  <2>2. \A u \in Visitors : u # v => chan'[u] = chan[u] /\ stream'[u] = stream[u]
    BY <1>t, <1>w
  <2>3. v \in Visitors => (stream'[v] = d /\ chan'[v] = "full")
                          \/ (stream'[v] = stream[v] /\ chan'[v] = chan[v])
    BY <1>t, <1>w
  <2>4. ASSUME NEW u \in Visitors
        PROVE  /\ chan'[u] = "full" \/ vst'[u] = "routed" => stream'[u] # NoJob
               /\ stream'[u] # NoJob =>
                    /\ job'[stream'[u]] = "ready" /\ target'[stream'[u]]
                    /\ jid'[stream'[u]] = vid'[u]
                    /\ dst'[stream'[u]] = u \/ vid'[u] \in twice'
    <3>1. CASE stream'[u] = stream[u] /\ chan'[u] = chan[u]
      BY <1>u, <3>1 DEF RouteCorrect
    <3>2. CASE u = v /\ stream'[v] = d
      BY <1>u, <1>x, <1>y, <2>1, <3>2, VisitorsAssumption
    <3> QED BY <2>2, <2>3, <3>1, <3>2
  <2>5. \A u, w \in Visitors : stream'[u] = stream'[w] => u = w \/ stream'[u] = NoJob
    BY <1>z, <2>2, <2>3 DEF RouteCorrect
  <2> QED BY <2>4, <2>5 DEF RouteCorrect
<1>6. RefusalCorrect'
  BY <1>t, <1>u, <1>w DEF RefusalCorrect
<1> QED
  BY <1>1, <1>2, <1>3, <1>4, <1>5, <1>6

\* A data connection that is dropped takes its answer along.
LEMMA DropClientInd ==
  ASSUME NEW d \in Jobs, IndInv, TypeOK', DropClient(d)
  PROVE  IndInv'
<1> USE DEF IndInv, serverVars, clientVars, wire, history
<1>a. /\ UNCHANGED <<serverVars, clientVars, wire, history>>
      /\ dconn[d] \in {"open", "sent"} /\ dconn'[d] = "dropped"
      /\ \A j \in Jobs \ {d} : dconn'[j] = dconn[j]
  BY DEF DropClient, TypeOK
<1>1. EntryInv'
  BY <1>a DEF EntryInv
<1>2. LifeInv'
  <2>1. stream \in [Visitors -> Jobs \cup {NoJob}]
    BY DEF TypeOK
  <2> QED BY <1>a, <2>1 DEF LifeInv, MapAt, ErrorAt
<1>3. OnceInv'
  BY <1>a DEF OnceInv, MapAt, ErrorAt
<1>4. ReservedInv'
  BY <1>a DEF ReservedInv, Unanswered, MapAt, ErrorAt
<1>5. RouteCorrect'
  BY <1>a DEF RouteCorrect
<1>6. RefusalCorrect'
  BY <1>a DEF RefusalCorrect
<1> QED
  BY <1>1, <1>2, <1>3, <1>4, <1>5, <1>6

\* What a step does that changes one job, its connections and nothing else.
JobChanged(j) ==
  /\ UNCHANGED <<serverVars, csess, jid, dst, s2c, c2s, asked, denied, twice>>
  /\ \A l \in Jobs \ {j} : job'[l] = job[l] /\ dconn'[l] = dconn[l]
  /\ \A l \in Jobs : target[l] => target'[l]
  /\ job[j] \in {"connect", "connerr", "send"}
  /\ job'[j] \in {"connect", "connerr", "send", "ready", "refuse", "failed"}
  /\ j \in denied => job'[j] \in {"connerr", "refuse", "failed"}
  /\ dconn'[j] \in {"sent", "taken"} => job'[j] = "ready"
  /\ dconn'[j] = "sent" => job[j] = "send"
  /\ job'[j] \in {"send", "ready"} => target'[j] /\ dconn'[j] # "none"

\* Such a step leaves routes and requests as they are.
LEMMA JobChangedInd ==
  ASSUME NEW j \in Jobs, IndInv, TypeOK', JobChanged(j)
  PROVE  IndInv'
<1> USE DEF IndInv, JobChanged, serverVars
<1>t. stream \in [Visitors -> Jobs \cup {NoJob}]
  BY DEF TypeOK
<1>a. \A v \in Visitors : stream[v] # j
  <2> SUFFICES ASSUME NEW v \in Visitors, stream[v] = j PROVE FALSE
    OBVIOUS
  <2>1. stream[v] # NoJob
    BY VisitorsAssumption
  <2> QED BY <2>1 DEF RouteCorrect
<1>1. EntryInv'
  BY DEF EntryInv
<1>2. LifeInv'
  BY <1>t, <1>a DEF LifeInv, MapAt, ErrorAt
<1>3. OnceInv'
  BY DEF OnceInv, MapAt, ErrorAt
<1>4. ReservedInv'
  <2>1. \A l \in Jobs : Unanswered(l)' => Unanswered(l)
    BY DEF Unanswered, LifeInv
  <2> QED BY <2>1 DEF ReservedInv, MapAt, ErrorAt
<1>5. RouteCorrect'
  BY <1>t, <1>a DEF RouteCorrect
<1>6. RefusalCorrect'
  BY DEF RefusalCorrect
<1> QED
  BY <1>1, <1>2, <1>3, <1>4, <1>5, <1>6

\* Connects, timers and the Map on the data connection are such steps.
LEMMA JobInd ==
  ASSUME NEW j \in Jobs, IndInv, TypeOK',
         \/ ConnectServer(j) \/ ConnectTarget(j) \/ ConnectFails(j) \/ Connected(j)
         \/ ClientTimeout(j) \/ SendMap(j)
  PROVE  IndInv'
<1>t. /\ job \in [Jobs -> JobState] /\ dconn \in [Jobs -> DataState]
      /\ target \in [Jobs -> BOOLEAN]
  BY DEF IndInv, TypeOK
<1>a. /\ dconn[j] \in {"sent", "taken"} => job[j] = "ready"
      /\ job[j] \in {"send", "ready"} => target[j] /\ dconn[j] # "none"
      /\ j \in denied => job[j] \in {"connerr", "refuse", "failed"}
  BY DEF IndInv, LifeInv
<1> USE DEF JobChanged, clientVars, wire, history
<1>1. CASE ConnectServer(j)
  <2>1. dconn'[j] = "open" /\ \A l \in Jobs \ {j} : dconn'[l] = dconn[l]
    BY <1>t, <1>1 DEF ConnectServer
  <2>2. JobChanged(j)
    BY <1>1, <1>a, <2>1 DEF ConnectServer
  <2> QED BY <2>2, JobChangedInd
<1>2. CASE ConnectTarget(j)
  <2>1. target'[j] /\ \A l \in Jobs \ {j} : target'[l] = target[l]
    BY <1>t, <1>2 DEF ConnectTarget
  <2>2. JobChanged(j)
    BY <1>2, <1>a, <2>1 DEF ConnectTarget
  <2> QED BY <2>2, JobChangedInd
<1>3. CASE ConnectFails(j)
  <2>1. job'[j] = "connerr" /\ \A l \in Jobs \ {j} : job'[l] = job[l]
    BY <1>t, <1>3 DEF ConnectFails
  <2>2. JobChanged(j)
    BY <1>3, <1>a, <2>1 DEF ConnectFails
  <2> QED BY <2>2, JobChangedInd
<1>4. CASE Connected(j) \/ ClientTimeout(j)
  <2>1. \A l \in Jobs \ {j} : job'[l] = job[l] /\ dconn'[l] = dconn[l]
    BY <1>t, <1>4 DEF Connected, ClientTimeout, Hangup
  <2>2. /\ job[j] \in {"connect", "connerr"}
        /\ \/ job[j] = "connect" /\ job'[j] = "send" /\ dconn'[j] = dconn[j]
              /\ target[j] /\ dconn[j] # "none"
           \/ job'[j] = "failed" /\ dconn'[j] \in {dconn[j], "dropped"}
    BY <1>t, <1>4 DEF Connected, ClientTimeout, Hangup
  <2>3. /\ UNCHANGED <<serverVars, csess, jid, dst, s2c, c2s, asked, denied, twice>>
        /\ target' = target
    BY <1>4 DEF Connected, ClientTimeout
  <2>4. JobChanged(j)
    BY <1>a, <2>1, <2>2, <2>3
  <2> QED BY <2>4, JobChangedInd
<1>5. CASE SendMap(j)
  <2>1. \A l \in Jobs \ {j} : job'[l] = job[l] /\ dconn'[l] = dconn[l]
    BY <1>t, <1>5 DEF SendMap, Hangup
  <2>2. /\ job[j] = "send"
        /\ \/ job'[j] = "ready" /\ dconn'[j] \in {dconn[j], "sent"}
           \/ job'[j] = "refuse" /\ dconn'[j] \in {dconn[j], "dropped"}
    BY <1>t, <1>5 DEF SendMap, Hangup
  <2>3. /\ UNCHANGED <<serverVars, csess, jid, dst, s2c, c2s, asked, denied, twice>>
        /\ target' = target
    BY <1>5 DEF SendMap
  <2>4. JobChanged(j)
    BY <1>a, <2>1, <2>2, <2>3
  <2> QED BY <2>4, JobChangedInd
<1> QED
  BY <1>1, <1>2, <1>3, <1>4, <1>5

\* The request becomes its refusal on the control connection, or its id is noted to be
\* encrypted once more.
LEMMA SendMapErrorInd ==
  ASSUME NEW j \in Jobs, IndInv, TypeOK', SendMapError(j)
  PROVE  IndInv'
<1> USE DEF IndInv
<1>t. /\ job \in [Jobs -> JobState] /\ dconn \in [Jobs -> DataState] /\ c2s \in Seq(ClientPoto)
      /\ denied \subseteq Jobs /\ jid \in [Jobs -> Ids] /\ stream \in [Visitors -> Jobs \cup {NoJob}]
  BY DEF TypeOK
<1>u. /\ UNCHANGED <<sess, wait_list, vst, vid, chan, stream, jid, dst, target, s2c, asked>>
      /\ job[j] \in {"connerr", "refuse"}
  BY DEF SendMapError, ClientEncrypts, ClientFlushes, serverVars
<1>v. /\ \A l \in Jobs \ {j} : job'[l] = job[l] /\ dconn'[l] = dconn[l]
      /\ \/ job'[j] = job[j] /\ dconn'[j] = dconn[j]
         \/ job'[j] = "failed" /\ dconn'[j] \in {dconn[j], "dropped"}
  BY <1>t DEF SendMapError, Hangup
<1>w. denied \subseteq denied' /\ twice \subseteq twice' /\ denied' \subseteq denied \cup {j}
  BY DEF SendMapError
<1>x. \A v \in Visitors : stream[v] # j
  <2> SUFFICES ASSUME NEW v \in Visitors, stream[v] = j PROVE FALSE
    OBVIOUS
  <2>1. stream[v] # NoJob
    BY VisitorsAssumption
  <2> QED BY <1>u, <2>1 DEF RouteCorrect
<1>y. \A l \in Jobs : Unanswered(l)' => Unanswered(l)
  BY <1>u, <1>v, <1>w DEF Unanswered
<1>z. \A l \in Jobs :
        /\ job'[l] # "none" => dst'[l] \in asked' /\ jid'[l] = vid'[dst'[l]]
        /\ job'[l] = "none" => dst'[l] = NoVisitor /\ dconn'[l] = "none"
        /\ dconn'[l] \in {"sent", "taken"} => job'[l] = "ready"
        /\ job'[l] \in {"send", "ready"} => target'[l] /\ dconn'[l] # "none"
        /\ l \in denied' => job'[l] \in {"connerr", "refuse", "failed"}
  BY <1>u, <1>v, <1>w DEF LifeInv
<1>1. EntryInv'
  BY <1>u DEF EntryInv
<1>2. \A v \in Visitors : stream'[v] # NoJob => chan'[v] = "full" /\ dconn'[stream'[v]] = "taken"
  BY <1>t, <1>u, <1>v, <1>x DEF LifeInv
<1>5. RouteCorrect'
  BY <1>t, <1>u, <1>v, <1>w, <1>x DEF RouteCorrect
<1>6. RefusalCorrect'
  BY <1>u, <1>w DEF RefusalCorrect
<1>7. CASE ClientFlushes /\ UNCHANGED <<denied, twice>>
  <2>1. c2s' = c2s
    BY <1>7 DEF ClientFlushes
  <2>2. LifeInv'
    BY <1>u, <1>z, <1>2, <1>7, <2>1 DEF LifeInv, MapAt, ErrorAt
  <2>3. OnceInv'
    BY <1>u, <1>7, <2>1 DEF OnceInv, MapAt, ErrorAt
  <2>4. ReservedInv'
    BY <1>u, <1>y, <1>7, <2>1 DEF ReservedInv, MapAt, ErrorAt
  <2> QED
    BY <1>1, <1>5, <1>6, <2>2, <2>3, <2>4
<1>8. CASE /\ ClientEncrypts(MapError(jid[j], j)) /\ denied' = denied \cup {j}
           /\ twice' = twice \cup (IF j \in denied THEN {jid[j]} ELSE {})
  <2> DEFINE n == Len(c2s) + 1
  <2>a. c2s' = Append(c2s, MapError(jid[j], j))
    BY <1>8 DEF ClientEncrypts
  <2>b. /\ Len(c2s') = n /\ Len(c2s) \in Nat
        /\ \A k \in 1 .. Len(c2s) : c2s'[k] = c2s[k]
        /\ c2s'[n] = MapError(jid[j], j)
    BY <1>t, <2>a, PotoTypes, AppendAt
  <2>c. \A k \in 1 .. Len(c2s') : k \in 1 .. Len(c2s) \/ k = n
    BY <2>b
  <2>d. /\ \A k \in 1 .. Len(c2s') : ErrorAt(k)' => (k \in 1 .. Len(c2s) /\ ErrorAt(k)) \/ k = n
        /\ c2s'[n].of = j /\ c2s'[n].id = jid[j]
    BY <2>b, <2>c DEF ErrorAt, MapError
  <2>e. j \in denied => jid[j] \in twice'
    BY <1>8
  <2> HIDE DEF n
  <2>2. LifeInv'
    <3>1. \A k \in 1 .. Len(c2s') : ErrorAt(k)' =>
            c2s'[k].of \in denied' /\ c2s'[k].id = jid[c2s'[k].of]
      BY <1>8, <2>b, <2>d DEF LifeInv
    <3> QED
      BY <1>u, <1>z, <1>2, <3>1 DEF LifeInv, MapAt
  <2>3. OnceInv'
    <3>1. \A k \in 1 .. Len(c2s) : ErrorAt(k) /\ c2s[k].of = j => c2s[k].id \in twice'
      BY <2>e DEF LifeInv
    <3>3. \A k, l \in 1 .. Len(c2s') :
            ErrorAt(k)' /\ ErrorAt(l)' /\ c2s'[k].of = c2s'[l].of => k = l \/ c2s'[k].id \in twice'
      <4> SUFFICES ASSUME NEW k \in 1 .. Len(c2s'), NEW l \in 1 .. Len(c2s'), ErrorAt(k)', ErrorAt(l)',
                          c2s'[k].of = c2s'[l].of, k # l
                   PROVE  c2s'[k].id \in twice'
        OBVIOUS
      <4>1. CASE k = n
        BY <2>b, <2>d, <3>1, <4>1 DEF LifeInv
      <4>2. CASE l = n /\ k # n
        BY <2>b, <2>d, <3>1, <4>2
      <4>3. CASE k # n /\ l # n
        BY <1>w, <2>b, <2>d, <4>3 DEF OnceInv
      <4> QED
        BY <4>1, <4>2, <4>3
    <3> QED
      BY <1>u, <1>w, <3>3 DEF OnceInv, MapAt
  <2>4. ReservedInv'
    <3>1. sess # "down" /\ jid[j] \notin twice' => wait_list[jid[j]] = dst[j]
      <4>1. jid[j] \notin twice' => Unanswered(j)
        BY <1>u, <2>e DEF Unanswered
      <4> QED
        BY <1>w, <4>1 DEF ReservedInv
    <3>2. sess # "down" => \A k \in 1 .. Len(c2s') : ErrorAt(k)' /\ c2s'[k].id \notin twice' =>
            wait_list[c2s'[k].id] = dst[c2s'[k].of]
      BY <1>w, <2>b, <2>d, <3>1 DEF ReservedInv
    <3> QED
      BY <1>u, <1>w, <1>y, <3>2 DEF ReservedInv, MapAt
  <2> QED
    BY <1>1, <1>5, <1>6, <2>2, <2>3, <2>4
<1> QED
  BY <1>7, <1>8 DEF SendMapError

\* The refusal frees its id, and was the only thing under way with it.
LEMMA HandleRecvInd ==
  ASSUME IndInv, TypeOK', HandleRecv
  PROVE  IndInv'
<1> USE DEF IndInv
<1> DEFINE m == Head(c2s)
           i == m.id
           v == wait_list[i]
<1>t. /\ wait_list \in [Ids -> Visitors \cup {NoVisitor}] /\ c2s \in Seq(ClientPoto)
      /\ chan \in [Visitors -> {"empty", "full", "closed"}] /\ denied \subseteq Jobs
      /\ asked \subseteq Visitors /\ vid \in [Visitors -> Ids]
  BY DEF TypeOK
<1>u. /\ UNCHANGED <<sess, vst, vid, stream, job, jid, dst, target, s2c, dconn, asked, denied, twice>>
      /\ sess = "up" /\ c2s' = Tail(c2s) /\ c2s # <<>>
  BY ShortWritten, <1>t DEF HandleRecv, clientVars, history, TypeOK
<1>a. /\ \A k \in 1 .. Len(c2s') : c2s'[k] = c2s[k + 1] /\ k + 1 \in 1 .. Len(c2s) /\ k + 1 # 1
      /\ m = c2s[1] /\ m \in ClientPoto /\ 1 \in 1 .. Len(c2s)
  <2>1. \A k \in 1 .. Len(Tail(c2s)) : Tail(c2s)[k] = c2s[k + 1] /\ k + 1 \in 1 .. Len(c2s)
    BY <1>t, <1>u, TailAt
  <2>2. Head(c2s) = c2s[1] /\ Head(c2s) \in ClientPoto /\ 1 \in 1 .. Len(c2s)
    BY <1>t, <1>u, TailAt
  <2>3. \A k \in 1 .. Len(Tail(c2s)) : k + 1 # 1
    OBVIOUS
  <2> QED BY <1>u, <2>1, <2>2, <2>3
<1>b. \A k \in 1 .. Len(c2s') : ErrorAt(k)' =>
        k + 1 \in 1 .. Len(c2s) /\ ErrorAt(k + 1) /\ c2s'[k] = c2s[k + 1]
  BY <1>a DEF ErrorAt
<1>c. \A k \in 1 .. Len(c2s') : ErrorAt(k)' =>
        c2s'[k].of \in denied /\ c2s'[k].id = jid[c2s'[k].of]
  BY <1>b DEF LifeInv
<1>2. ASSUME \A u \in Visitors : stream[u] # NoJob => chan'[u] = chan[u]
      PROVE  LifeInv'
  BY <1>u, <1>c, <1>2 DEF LifeInv, MapAt
<1>3. OnceInv'
  <2>1. \A k, l \in 1 .. Len(c2s') :
          ErrorAt(k)' /\ ErrorAt(l)' /\ c2s'[k].of = c2s'[l].of => k = l \/ c2s'[k].id \in twice
    <3> SUFFICES ASSUME NEW k \in 1 .. Len(c2s'), NEW l \in 1 .. Len(c2s'), ErrorAt(k)', ErrorAt(l)',
                        c2s'[k].of = c2s'[l].of
                 PROVE  k = l \/ c2s'[k].id \in twice
      OBVIOUS
    <3>1. k + 1 = l + 1 \/ c2s[k + 1].id \in twice
      BY <1>b DEF OnceInv
    <3>2. k \in Int /\ l \in Int
      OBVIOUS
    <3> QED BY <1>b, <3>1, <3>2
  <2> QED BY <1>u, <2>1 DEF OnceInv, MapAt
<1>4. CASE m.type = "MapError"
  <2> DEFINE j == m.of
  <2>a. /\ wait_list' = [wait_list EXCEPT ![i] = NoVisitor]
        /\ v # NoVisitor => chan' = [chan EXCEPT ![v] = "closed"]
        /\ v = NoVisitor => chan' = chan
    BY <1>4 DEF HandleRecv, Remove
  <2>b. ErrorAt(1) /\ i \in Ids /\ j \in Jobs /\ j \in denied /\ i = jid[j]
    BY <1>4, <1>a, PacketFields DEF LifeInv, ErrorAt
  <2>c. /\ job[j] \in {"connerr", "refuse", "failed"} /\ dst[j] \in Visitors /\ dst[j] # NoVisitor
        /\ i \notin twice => v = dst[j]
    <3>1. job[j] \in {"connerr", "refuse", "failed"}
      BY <2>b DEF LifeInv
    <3>2. dst[j] \in Visitors /\ dst[j] # NoVisitor
      BY <2>b, <3>1, AskedFirst
    <3>3. i \notin twice => v = dst[j]
      BY <1>a, <1>u, <2>b DEF ReservedInv
    <3> QED BY <3>1, <3>2, <3>3
  <2>d. /\ v \in Visitors => vid[v] = i /\ chan[v] = "empty" /\ stream[v] = NoJob
                             /\ vst[v] \notin {"idle", "mock"}
        /\ v \in Visitors \/ v = NoVisitor
    BY <1>t, <2>b, VisitorsAssumption DEF EntryInv
  <2>e. /\ \A u \in Visitors \ {v} : chan'[u] = chan[u]
        /\ v \in Visitors => chan'[v] = "closed"
        /\ wait_list'[i] = NoVisitor /\ \A l \in Ids \ {i} : wait_list'[l] = wait_list[l]
    BY <1>t, <2>a, <2>b, <2>d, VisitorsAssumption
  <2>f. c2s[1].of = j /\ c2s[1].id = i
    BY <1>a
  <2> HIDE DEF i, v, j, m
  <2>1. EntryInv'
    <3>1. \A l \in Ids : wait_list'[l] # NoVisitor =>
            /\ l # i /\ wait_list'[l] = wait_list[l] /\ wait_list[l] # v
            /\ wait_list[l] \in Visitors
      BY <1>t, <2>d, <2>e DEF EntryInv
    <3>2. \A l \in Ids : wait_list'[l] # NoVisitor =>
            /\ vid'[wait_list'[l]] = l /\ vst'[wait_list'[l]] \notin {"idle", "mock"}
            /\ chan'[wait_list'[l]] = "empty" /\ stream'[wait_list'[l]] = NoJob
      BY <1>u, <2>e, <3>1 DEF EntryInv
    <3>3. \A u \in Visitors : vst'[u] \in {"idle", "mock"} =>
            u \notin asked' /\ chan'[u] = "empty" /\ stream'[u] = NoJob
      BY <1>u, <2>d, <2>e DEF EntryInv
    <3>4. \A u \in Visitors :
            vst'[u] \in {"notify", "wait"} /\ chan'[u] = "empty" => wait_list'[vid'[u]] = u
      <4> SUFFICES ASSUME NEW u \in Visitors, vst[u] \in {"notify", "wait"}, chan'[u] = "empty"
                   PROVE  wait_list'[vid[u]] = u
        BY <1>u
      <4>1. u # v
        BY <2>e
      <4>2. wait_list[vid[u]] = u
        BY <1>u, <2>e, <4>1 DEF EntryInv
      <4>3. vid[u] \in Ids /\ vid[u] # i
        BY <1>t, <4>1, <4>2 DEF v
      <4> QED
        BY <2>e, <4>2, <4>3
    <3> QED
      BY <3>2, <3>3, <3>4 DEF EntryInv
  <2>2. LifeInv'
    BY <1>2, <2>d, <2>e
  <2>4. ReservedInv'
    <3>1. \A k \in 1 .. Len(s2c) : MapAt(k) /\ s2c[k].id \notin twice =>
            s2c[k].id \in Ids /\ s2c[k].id # i
      <4> SUFFICES ASSUME NEW k \in 1 .. Len(s2c), MapAt(k), s2c[k].id \notin twice, s2c[k].id = i
                   PROVE  FALSE
        BY PacketFields
      <4>1. dst[j] = s2c[k].dst
        BY <1>u, <2>c DEF ReservedInv, v
      <4> QED
        BY <2>b, <4>1 DEF OnceInv
    <3>2. \A k \in 1 .. Len(c2s') : ErrorAt(k)' /\ c2s'[k].id \notin twice =>
            /\ c2s'[k].id \in Ids /\ c2s'[k].id # i
            /\ wait_list[c2s'[k].id] = dst[c2s'[k].of]
      <4> SUFFICES ASSUME NEW k \in 1 .. Len(c2s'), ErrorAt(k)', c2s'[k].id \notin twice
                   PROVE  /\ c2s'[k].id \in Ids /\ c2s'[k].id # i
                          /\ wait_list[c2s'[k].id] = dst[c2s'[k].of]
        OBVIOUS
      <4>0. k + 1 \in 1 .. Len(c2s) /\ ErrorAt(k + 1) /\ c2s'[k] = c2s[k + 1] /\ k + 1 # 1
        BY <1>a, <1>b
      <4>1. c2s'[k].id \in Ids /\ c2s'[k].of \in Jobs /\ jid[c2s'[k].of] = c2s'[k].id
        BY <1>c, <4>0, PacketFields
      <4>2. wait_list[c2s'[k].id] = dst[c2s'[k].of]
        BY <1>u, <4>0 DEF ReservedInv
      <4>3. ASSUME c2s'[k].id = i PROVE FALSE
        <5>1. dst[c2s'[k].of] = dst[j]
          BY <2>c, <4>2, <4>3 DEF v
        <5>2. c2s'[k].of = j
          BY <2>b, <2>c, <4>1, <4>3, <5>1 DEF OnceInv
        <5> QED
          BY <1>a, <2>b, <2>f, <4>0, <5>2 DEF OnceInv
      <4> QED
        BY <4>1, <4>2, <4>3
    <3>3. \A l \in Jobs : Unanswered(l) /\ jid[l] \notin twice => jid[l] \in Ids /\ jid[l] # i
      <4> SUFFICES ASSUME NEW l \in Jobs, Unanswered(l), jid[l] \notin twice, jid[l] = i
                   PROVE  FALSE
        BY DEF TypeOK
      <4>1. dst[l] = dst[j]
        BY <1>u, <2>c DEF ReservedInv, v
      <4>2. l = j
        BY <2>b, <2>c, <4>1 DEF OnceInv
      <4> QED
        BY <2>b, <2>c, <4>2 DEF LifeInv, Unanswered
    <3> QED
      BY <1>u, <2>e, <3>1, <3>2, <3>3 DEF ReservedInv, MapAt, Unanswered
  <2>5. RouteCorrect'
    BY <1>t, <1>u, <2>d, <2>e DEF RouteCorrect
  <2>6. RefusalCorrect'
    <3>1. v \in Visitors => stream[v] = NoJob /\ ((\E l \in denied : dst[l] = v) \/ vid[v] \in twice)
      BY <2>b, <2>c, <2>d
    <3> QED BY <1>u, <2>e, <3>1 DEF RefusalCorrect
  <2> QED
    BY <1>3, <2>1, <2>2, <2>4, <2>5, <2>6
<1>5. CASE m.type # "MapError"
  <2>1. wait_list' = wait_list /\ chan' = chan
    BY <1>5 DEF HandleRecv
  <2>2. EntryInv'
    BY <1>u, <2>1 DEF EntryInv
  <2>3. LifeInv'
    BY <1>2, <2>1
  <2>4. ReservedInv'
    BY <1>u, <1>b, <2>1 DEF ReservedInv, MapAt, Unanswered
  <2>5. RouteCorrect' /\ RefusalCorrect'
    BY <1>u, <2>1 DEF RouteCorrect, RefusalCorrect
  <2> QED
    BY <1>3, <2>2, <2>3, <2>4, <2>5
<1> QED
  BY <1>4, <1>5

\* A heartbeat carries no id.
LEMMA HeartbeatInd ==
  ASSUME IndInv, TypeOK', Heartbeat \/ ClientHeartbeat
  PROVE  IndInv'
<1> USE DEF IndInv
<1>u. UNCHANGED <<serverVars, clientVars, history, dconn>>
  BY DEF Heartbeat, ClientHeartbeat
<1>a. \A k \in 1 .. Len(s2c') : MapAt(k)' => k \in 1 .. Len(s2c) /\ MapAt(k) /\ s2c'[k] = s2c[k]
  <2>1. CASE s2c' = s2c
    BY <2>1 DEF MapAt
  <2>2. CASE s2c' = Append(s2c, Ping)
    <3>1. s2c \in Seq(ServerPoto)
      BY DEF TypeOK
    <3>2. /\ Len(s2c') = Len(s2c) + 1 /\ Len(s2c) \in Nat
          /\ \A k \in 1 .. Len(s2c) : s2c'[k] = s2c[k]
          /\ s2c'[Len(s2c) + 1] = Ping
      BY <2>2, <3>1, PotoTypes, AppendAt
    <3> QED BY <3>2, PotoFields DEF MapAt
  <2> QED
    BY <2>1, <2>2 DEF Heartbeat, ClientHeartbeat, ServerEncrypts, ServerFlushes, ClientEncrypts,
                      ClientFlushes
<1>b. \A k \in 1 .. Len(c2s') : ErrorAt(k)' => k \in 1 .. Len(c2s) /\ ErrorAt(k) /\ c2s'[k] = c2s[k]
  <2>1. CASE c2s' = c2s
    BY <2>1 DEF ErrorAt
  <2>2. CASE c2s' = Append(c2s, Ping)
    <3>1. c2s \in Seq(ClientPoto)
      BY DEF TypeOK
    <3>2. /\ Len(c2s') = Len(c2s) + 1 /\ Len(c2s) \in Nat
          /\ \A k \in 1 .. Len(c2s) : c2s'[k] = c2s[k]
          /\ c2s'[Len(c2s) + 1] = Ping
      BY <2>2, <3>1, PotoTypes, AppendAt
    <3> QED BY <3>2, PotoFields DEF ErrorAt
  <2> QED
    BY <2>1, <2>2 DEF Heartbeat, ClientHeartbeat, ServerEncrypts, ServerFlushes, ClientEncrypts,
                      ClientFlushes
<1> USE DEF serverVars, clientVars, history
<1>1. EntryInv'
  BY <1>u DEF EntryInv
<1>2. LifeInv'
  BY <1>u, <1>a, <1>b DEF LifeInv
<1>3. OnceInv'
  BY <1>u, <1>a, <1>b DEF OnceInv
<1>4. ReservedInv'
  BY <1>u, <1>a, <1>b DEF ReservedInv, Unanswered
<1>5. RouteCorrect'
  BY <1>u DEF RouteCorrect
<1>6. RefusalCorrect'
  BY <1>u DEF RefusalCorrect
<1> QED
  BY <1>1, <1>2, <1>3, <1>4, <1>5, <1>6

\* The server half that ends drops what it holds, and the frame its encryptor keeps.
LEMMA ServerErrorInd ==
  ASSUME IndInv, TypeOK', ServerError
  PROVE  IndInv'
<1> USE DEF IndInv
<1>t. /\ s2c \in Seq(ServerPoto) /\ c2s \in Seq(ClientPoto) /\ skept \in BOOLEAN /\ ckept \in BOOLEAN
      /\ (skept => s2c # <<>>) /\ (ckept => c2s # <<>>) /\ stream \in [Visitors -> Jobs \cup {NoJob}]
  BY DEF TypeOK
<1>u. /\ UNCHANGED <<vid, chan, stream, job, jid, dst, target, asked, denied, twice>>
      /\ sess' = "down" /\ wait_list' = [l \in Ids |-> NoVisitor]
      /\ s2c' = Written(s2c, skept) /\ c2s' = Kept(c2s, ckept)
      /\ vst' = [v \in Visitors |-> IF Pending(v) THEN "failed" ELSE vst[v]]
      /\ dconn' = [j \in Jobs |-> IF dconn[j] \in {"open", "sent"} THEN "dropped" ELSE dconn[j]]
  BY DEF ServerError, clientVars, history
<1>a. \A k \in 1 .. Len(s2c') : MapAt(k)' => k \in 1 .. Len(s2c) /\ MapAt(k) /\ s2c'[k] = s2c[k]
  <2>1. \A k \in 1 .. Len(Written(s2c, skept)) : Written(s2c, skept)[k] = s2c[k] /\ k \in 1 .. Len(s2c)
    BY <1>t, WrittenAt
  <2> QED BY <1>u, <2>1 DEF MapAt
<1>b. /\ \A k \in 1 .. Len(c2s') : ErrorAt(k)' => \E n \in 1 .. Len(c2s) : ErrorAt(n) /\ c2s'[k] = c2s[n]
      /\ \A k, l \in 1 .. Len(c2s') : k = l
  <2>1. \A k \in 1 .. Len(Kept(c2s, ckept)) :
          k = 1 /\ Kept(c2s, ckept)[k] = c2s[Len(c2s)] /\ Len(c2s) \in 1 .. Len(c2s)
    BY <1>t, KeptAt
  <2> QED BY <1>u, <2>1 DEF ErrorAt
<1>1. EntryInv'
  BY <1>u DEF EntryInv, Pending
<1>2. LifeInv'
  BY <1>t, <1>u, <1>a, <1>b DEF LifeInv
<1>3. OnceInv'
  <2>1. \A k, l \in 1 .. Len(c2s') :
          ErrorAt(k)' /\ ErrorAt(l)' /\ c2s'[k].of = c2s'[l].of => k = l \/ c2s'[k].id \in twice
    BY <1>b
  <2>2. \A k, l \in 1 .. Len(s2c') :
          MapAt(k)' /\ MapAt(l)' /\ s2c'[k].dst = s2c'[l].dst => k = l \/ s2c'[k].id \in twice
    BY <1>a DEF OnceInv
  <2>3. \A k \in 1 .. Len(s2c') : \A j \in Jobs :
          MapAt(k)' /\ dst[j] = s2c'[k].dst => s2c'[k].id \in twice
    BY <1>a DEF OnceInv
  <2> QED BY <1>u, <2>1, <2>2, <2>3 DEF OnceInv
<1>4. ReservedInv'
  BY <1>u DEF ReservedInv
<1>5. RouteCorrect'
  BY <1>u DEF RouteCorrect
<1>6. RefusalCorrect'
  BY <1>u DEF RefusalCorrect
<1> QED
  BY <1>1, <1>2, <1>3, <1>4, <1>5, <1>6

\* So does the client half.
LEMMA ClientErrorInd ==
  ASSUME IndInv, TypeOK', ClientError
  PROVE  IndInv'
<1> USE DEF IndInv
<1>t. /\ s2c \in Seq(ServerPoto) /\ c2s \in Seq(ClientPoto) /\ skept \in BOOLEAN /\ ckept \in BOOLEAN
      /\ (skept => s2c # <<>>) /\ (ckept => c2s # <<>>) /\ stream \in [Visitors -> Jobs \cup {NoJob}]
  BY DEF TypeOK
<1>u. /\ UNCHANGED <<sess, wait_list, vst, vid, chan, stream, jid, dst, target, asked, denied, twice>>
      /\ s2c' = Kept(s2c, skept) /\ c2s' = Written(c2s, ckept)
      /\ job' = [j \in Jobs |->
                   IF job[j] \in {"connect", "connerr", "refuse", "send"} THEN "failed" ELSE job[j]]
      /\ dconn' = [j \in Jobs |-> IF dconn[j] = "open" THEN "dropped" ELSE dconn[j]]
  BY DEF ClientError, serverVars, history
<1>a. \A k \in 1 .. Len(c2s') : ErrorAt(k)' => k \in 1 .. Len(c2s) /\ ErrorAt(k) /\ c2s'[k] = c2s[k]
  <2>1. \A k \in 1 .. Len(Written(c2s, ckept)) : Written(c2s, ckept)[k] = c2s[k] /\ k \in 1 .. Len(c2s)
    BY <1>t, WrittenAt
  <2> QED BY <1>u, <2>1 DEF ErrorAt
<1>b. /\ \A k \in 1 .. Len(s2c') : MapAt(k)' => \E n \in 1 .. Len(s2c) : MapAt(n) /\ s2c'[k] = s2c[n]
      /\ \A k, l \in 1 .. Len(s2c') : k = l
  <2>1. \A k \in 1 .. Len(Kept(s2c, skept)) :
          k = 1 /\ Kept(s2c, skept)[k] = s2c[Len(s2c)] /\ Len(s2c) \in 1 .. Len(s2c)
    BY <1>t, KeptAt
  <2> QED BY <1>u, <2>1 DEF MapAt
<1>c. /\ \A j \in Jobs : job'[j] = job[j] \/ (job'[j] = "failed" /\ job[j] \notin {"none", "ready"})
      /\ \A j \in Jobs : dconn'[j] = dconn[j] \/ (dconn'[j] = "dropped" /\ dconn[j] = "open")
      /\ \A j \in Jobs : Unanswered(j)' => Unanswered(j)
  BY <1>u DEF Unanswered
<1>1. EntryInv'
  BY <1>u DEF EntryInv
<1>2. LifeInv'
  BY <1>t, <1>u, <1>a, <1>b, <1>c DEF LifeInv
<1>3. OnceInv'
  <2>1. \A k, l \in 1 .. Len(c2s') :
          ErrorAt(k)' /\ ErrorAt(l)' /\ c2s'[k].of = c2s'[l].of => k = l \/ c2s'[k].id \in twice
    BY <1>a DEF OnceInv
  <2>2. \A k, l \in 1 .. Len(s2c') :
          MapAt(k)' /\ MapAt(l)' /\ s2c'[k].dst = s2c'[l].dst => k = l \/ s2c'[k].id \in twice
    BY <1>b
  <2>3. \A k \in 1 .. Len(s2c') : \A j \in Jobs :
          MapAt(k)' /\ dst[j] = s2c'[k].dst => s2c'[k].id \in twice
    BY <1>b DEF OnceInv
  <2> QED BY <1>u, <2>1, <2>2, <2>3 DEF OnceInv
<1>4. ReservedInv'
  BY <1>u, <1>a, <1>b, <1>c DEF ReservedInv
<1>5. RouteCorrect'
  BY <1>t, <1>u, <1>c DEF RouteCorrect
<1>6. RefusalCorrect'
  BY <1>u DEF RefusalCorrect
<1> QED
  BY <1>1, <1>2, <1>3, <1>4, <1>5, <1>6

\* The request becomes a job of the client.
LEMMA ClientRecvInd ==
  ASSUME IndInv, TypeOK', ClientRecv
  PROVE  IndInv'
<1> USE DEF IndInv
<1> DEFINE m == Head(s2c)
<1>t. /\ s2c \in Seq(ServerPoto) /\ job \in [Jobs -> JobState] /\ jid \in [Jobs -> Ids]
      /\ dst \in [Jobs -> Visitors \cup {NoVisitor}] /\ asked \subseteq Visitors
      /\ denied \subseteq Jobs /\ stream \in [Visitors -> Jobs \cup {NoJob}]
  BY DEF TypeOK
<1>u. /\ UNCHANGED <<sess, wait_list, vst, vid, chan, stream, target, c2s, dconn, asked, denied, twice>>
      /\ s2c' = Tail(s2c) /\ s2c # <<>>
  BY ShortWritten, <1>t DEF ClientRecv, serverVars, history, TypeOK
<1>a. /\ \A k \in 1 .. Len(s2c') : s2c'[k] = s2c[k + 1] /\ k + 1 \in 1 .. Len(s2c) /\ k + 1 # 1
      /\ m = s2c[1] /\ m \in ServerPoto /\ 1 \in 1 .. Len(s2c)
  <2>1. \A k \in 1 .. Len(Tail(s2c)) : Tail(s2c)[k] = s2c[k + 1] /\ k + 1 \in 1 .. Len(s2c)
    BY <1>t, <1>u, TailAt
  <2>2. Head(s2c) = s2c[1] /\ Head(s2c) \in ServerPoto /\ 1 \in 1 .. Len(s2c)
    BY <1>t, <1>u, TailAt
  <2>3. \A k \in 1 .. Len(Tail(s2c)) : k + 1 # 1
    OBVIOUS
  <2> QED BY <1>u, <2>1, <2>2, <2>3
<1>b. \A k \in 1 .. Len(s2c') : MapAt(k)' =>
        k + 1 \in 1 .. Len(s2c) /\ MapAt(k + 1) /\ s2c'[k] = s2c[k + 1]
  BY <1>a DEF MapAt
<1>c. \A k \in 1 .. Len(s2c') : MapAt(k)' => s2c'[k].dst \in asked /\ s2c'[k].id = vid[s2c'[k].dst]
  BY <1>b DEF LifeInv
<1>d. \A k, l \in 1 .. Len(s2c') :
        MapAt(k)' /\ MapAt(l)' /\ s2c'[k].dst = s2c'[l].dst => k = l \/ s2c'[k].id \in twice
  <2> SUFFICES ASSUME NEW k \in 1 .. Len(s2c'), NEW l \in 1 .. Len(s2c'), MapAt(k)', MapAt(l)',
                      s2c'[k].dst = s2c'[l].dst
               PROVE  k = l \/ s2c'[k].id \in twice
    OBVIOUS
  <2>1. k + 1 = l + 1 \/ s2c[k + 1].id \in twice
    BY <1>b DEF OnceInv
  <2>2. k \in Int /\ l \in Int
    OBVIOUS
  <2> QED BY <1>b, <2>1, <2>2
<1>e. \A k \in 1 .. Len(s2c') : \A j \in Jobs :
        MapAt(k)' /\ dst[j] = s2c'[k].dst => s2c'[k].id \in twice
  BY <1>b DEF OnceInv
<1>1. EntryInv'
  BY <1>u DEF EntryInv
<1>4. CASE m.type = "Map"
  <2>a. PICK j \in Jobs :
          /\ job[j] = "none"
          /\ \E s \in {"connect", "refuse"} : job' = [job EXCEPT ![j] = s]
          /\ jid' = [jid EXCEPT ![j] = m.id]
          /\ dst' = [dst EXCEPT ![j] = m.dst]
    BY <1>4 DEF ClientRecv
  <2>b. /\ \A l \in Jobs \ {j} : job'[l] = job[l] /\ jid'[l] = jid[l] /\ dst'[l] = dst[l]
        /\ job'[j] \in {"connect", "refuse"} /\ jid'[j] = m.id /\ dst'[j] = m.dst
    BY <1>t, <2>a
  <2>c. /\ MapAt(1) /\ s2c[1] = m /\ m.dst \in asked /\ m.id = vid[m.dst]
        /\ m.dst \in Visitors /\ m.dst # NoVisitor
    BY <1>4, <1>a, <1>t, VisitorsAssumption DEF MapAt, LifeInv
  <2>d. j \notin denied /\ dst[j] = NoVisitor /\ dconn[j] = "none" /\ \A v \in Visitors : stream[v] # j
    <3>1. j \notin denied /\ dst[j] = NoVisitor /\ dconn[j] = "none"
      BY <2>a DEF LifeInv
    <3>2. ASSUME NEW v \in Visitors, stream[v] = j PROVE FALSE
      <4>1. stream[v] # NoJob
        BY <3>2, VisitorsAssumption
      <4> QED BY <2>a, <3>2, <4>1 DEF RouteCorrect
    <3> QED BY <3>1, <3>2
  <2> HIDE DEF m
  <2>2. LifeInv'
    <3>1. \A l \in Jobs :
            /\ job'[l] # "none" => dst'[l] \in asked /\ jid'[l] = vid[dst'[l]]
            /\ job'[l] = "none" => dst'[l] = NoVisitor /\ dconn[l] = "none"
            /\ dconn[l] \in {"sent", "taken"} => job'[l] = "ready"
            /\ job'[l] \in {"send", "ready"} => target[l] /\ dconn[l] # "none"
            /\ l \in denied => job'[l] \in {"connerr", "refuse", "failed"}
      BY <2>b, <2>c, <2>d DEF LifeInv
    <3>2. \A k \in 1 .. Len(c2s) : ErrorAt(k) => c2s[k].of \in denied /\ c2s[k].id = jid'[c2s[k].of]
      BY <1>t, <2>b, <2>d DEF LifeInv
    <3> QED BY <1>u, <1>c, <3>1, <3>2 DEF LifeInv, ErrorAt
  <2>3. OnceInv'
    <3>1. \A k \in 1 .. Len(s2c') : \A l \in Jobs :
            MapAt(k)' /\ dst'[l] = s2c'[k].dst => s2c'[k].id \in twice
      <4> SUFFICES ASSUME NEW k \in 1 .. Len(s2c'), NEW l \in Jobs, MapAt(k)', dst'[l] = s2c'[k].dst
                   PROVE  s2c'[k].id \in twice
        OBVIOUS
      <4>1. CASE l = j
        BY <1>a, <1>b, <2>b, <2>c, <4>1 DEF OnceInv
      <4>2. CASE l # j
        BY <1>e, <2>b, <4>2
      <4> QED BY <4>1, <4>2
    <3>2. \A l, n \in Jobs : dst'[l] = dst'[n] => l = n \/ dst'[l] = NoVisitor \/ jid'[l] \in twice
      <4>1. \A l \in Jobs \ {j} : dst[l] = m.dst => m.id \in twice /\ jid[l] = m.id
        <5> SUFFICES ASSUME NEW l \in Jobs \ {j}, dst[l] = m.dst PROVE m.id \in twice /\ jid[l] = m.id
          OBVIOUS
        <5>1. m.id \in twice
          BY <1>a, <2>c DEF OnceInv
        <5>2. jid[l] = vid[dst[l]]
          BY <2>c, AskedFirst DEF LifeInv
        <5> QED BY <2>c, <5>1, <5>2
      <4> QED BY <2>b, <4>1 DEF OnceInv
    <3> QED BY <1>u, <1>d, <3>1, <3>2 DEF OnceInv, ErrorAt
  <2>4. ReservedInv'
    <3> SUFFICES ASSUME sess # "down"
                 PROVE  /\ \A k \in 1 .. Len(s2c') : MapAt(k)' /\ s2c'[k].id \notin twice =>
                             wait_list[s2c'[k].id] = s2c'[k].dst
                        /\ \A k \in 1 .. Len(c2s) : ErrorAt(k) /\ c2s[k].id \notin twice =>
                             wait_list[c2s[k].id] = dst'[c2s[k].of]
                        /\ \A l \in Jobs : Unanswered(l)' /\ jid'[l] \notin twice =>
                             wait_list[jid'[l]] = dst'[l]
      BY <1>u DEF ReservedInv, ErrorAt
    <3>1. \A k \in 1 .. Len(s2c') : MapAt(k)' /\ s2c'[k].id \notin twice =>
            wait_list[s2c'[k].id] = s2c'[k].dst
      BY <1>b DEF ReservedInv
    <3>2. \A k \in 1 .. Len(c2s) : ErrorAt(k) /\ c2s[k].id \notin twice =>
            wait_list[c2s[k].id] = dst'[c2s[k].of]
      BY <1>t, <2>b, <2>d DEF ReservedInv, LifeInv
    <3>3. \A l \in Jobs : Unanswered(l)' /\ jid'[l] \notin twice => wait_list[jid'[l]] = dst'[l]
      <4> SUFFICES ASSUME NEW l \in Jobs, Unanswered(l)', jid'[l] \notin twice
                   PROVE  wait_list[jid'[l]] = dst'[l]
        OBVIOUS
      <4>1. CASE l = j
        BY <1>a, <2>b, <2>c, <4>1 DEF ReservedInv
      <4>2. CASE l # j
        <5>1. Unanswered(l)
          BY <1>u, <2>b, <4>2 DEF Unanswered
        <5> QED BY <2>b, <4>2, <5>1 DEF ReservedInv
      <4> QED BY <4>1, <4>2
    <3> QED BY <3>1, <3>2, <3>3
  <2>5. RouteCorrect'
    BY <1>t, <1>u, <2>b, <2>d DEF RouteCorrect
  <2>6. RefusalCorrect'
    BY <1>t, <1>u, <2>b, <2>d DEF RefusalCorrect
  <2> QED
    BY <1>1, <2>2, <2>3, <2>4, <2>5, <2>6
<1>5. CASE m.type # "Map"
  <2>1. job' = job /\ jid' = jid /\ dst' = dst
    BY <1>5 DEF ClientRecv
  <2>2. LifeInv'
    BY <1>u, <1>c, <2>1 DEF LifeInv, ErrorAt
  <2>3. OnceInv'
    BY <1>u, <1>d, <1>e, <2>1 DEF OnceInv, ErrorAt
  <2>4. ReservedInv'
    BY <1>u, <1>b, <2>1 DEF ReservedInv, ErrorAt, Unanswered
  <2>5. RouteCorrect' /\ RefusalCorrect'
    BY <1>u, <2>1 DEF RouteCorrect, RefusalCorrect
  <2> QED
    BY <1>1, <2>2, <2>3, <2>4, <2>5
<1> QED
  BY <1>4, <1>5

\* Every step preserves the inductive invariant.
LEMMA StepIndInv == IndInv /\ [Next]_vars => IndInv'
<1> SUFFICES ASSUME IndInv, [Next]_vars PROVE IndInv'
  OBVIOUS
<1>1. TypeOK'
  BY StepTypeOK DEF IndInv
<1>2. CASE UNCHANGED vars
  <2> USE <1>2 DEF vars, serverVars, clientVars, wire, history
  <2>1. EntryInv' /\ LifeInv' /\ OnceInv'
    BY DEF IndInv, EntryInv, LifeInv, OnceInv, MapAt, ErrorAt
  <2>2. ReservedInv' /\ RouteCorrect' /\ RefusalCorrect'
    BY DEF IndInv, ReservedInv, RouteCorrect, RefusalCorrect, MapAt, ErrorAt, Unanswered
  <2> QED BY <1>1, <2>1, <2>2 DEF IndInv
<1>3. ASSUME NEW v \in Visitors, VisitorStep(v) PROVE IndInv'
  BY <1>1, <1>3, VisitorInd, PushInd, NotifyClientInd DEF VisitorStep
<1>4. ASSUME NEW j \in Jobs, DataStep(j) PROVE IndInv'
  BY <1>1, <1>4, ServeClientInd, DropClientInd DEF DataStep
<1>5. ASSUME NEW j \in Jobs, JobStep(j) PROVE IndInv'
  BY <1>1, <1>5, JobInd, SendMapErrorInd DEF JobStep
<1>6. CASE HandleRecv \/ Heartbeat \/ ServerError \/ ClientRecv \/ ClientHeartbeat \/ ClientError
  BY <1>1, <1>6, HandleRecvInd, HeartbeatInd, ServerErrorInd, ClientRecvInd, ClientErrorInd
<1> QED
  BY <1>2, <1>3, <1>4, <1>5, <1>6 DEF Next

\* IndInv holds in every state of every session, for any number of visitors, ids and jobs,
\* any buffer size and any number of frames that find the connection full: whatever is
\* under way holds the entry it was made for, up to the ids of packets encrypted twice.
THEOREM Invariance == Spec => []IndInv
BY InitIndInv, StepIndInv, PTL DEF Spec

\* No visitor is ever handed a data connection opened for another one, although
\* MQueue reuses ids at once and both sides give up on their own timers, unless a packet
\* with its id was encrypted twice.
THEOREM RoutesAreCorrect == Spec => []RouteCorrect
<1>1. IndInv => RouteCorrect
  BY DEF IndInv
<1> QED
  BY <1>1, Invariance, PTL

\* A MapError closes the channel of the visitor it is about and of no other, with the same
\* exception.
THEOREM RefusalsAreCorrect == Spec => []RefusalCorrect
<1>1. IndInv => RefusalCorrect
  BY DEF IndInv
<1> QED
  BY <1>1, Invariance, PTL

-----------------------------------------------------------------------------
(* Action properties and refinement. *)

\* Sends leave the entries, the visitors' channels and the data connections alone.
LEMMA SendFrame ==
  /\ \A v \in Visitors : NotifyClient(v) => UNCHANGED <<sess, wait_list, chan, stream, vid, dst>>
  /\ \A j \in Jobs : SendMapError(j) => UNCHANGED <<serverVars, dst, asked>>
BY DEF NotifyClient, SendMapError, clientVars, serverVars

\* Only an answer to the visitor of the entry, or the end of the session, frees an id.
LEMMA StepFreed == IndInv /\ [Next]_vars => FreedStep
<1> SUFFICES ASSUME IndInv, Next \/ UNCHANGED vars,
                    NEW i \in Ids, wait_list[i] # NoVisitor, wait_list'[i] # wait_list[i]
             PROVE  \/ sess' = "down"
                    \/ \E j \in Jobs :
                         jid[j] = i /\ AnswerRead(j) /\ (dst[j] = wait_list[i] \/ i \in twice)
  BY DEF FreedStep
<1>t. /\ wait_list \in [Ids -> Visitors \cup {NoVisitor}] /\ c2s \in Seq(ClientPoto)
      /\ dconn \in [Jobs -> DataState]
  BY DEF IndInv, TypeOK
<1>1. CASE UNCHANGED vars
  BY <1>1 DEF vars, serverVars
<1>2. ASSUME NEW v \in Visitors, VisitorStep(v) PROVE FALSE
  <2>1. CASE Push(v)
    BY <1>t, <2>1 DEF Push, PushId
  <2>2. CASE ~Push(v)
    BY <1>2, <2>2, SendFrame DEF VisitorStep, AcceptVisitor, MockFails, PushHangs, FinishVisitor,
                                 VisitorRefused, VisitorTimeout
  <2> QED BY <2>1, <2>2
<1>3. ASSUME NEW d \in Jobs, ServeClient(d)
      PROVE  \E j \in Jobs :
               jid[j] = i /\ AnswerRead(j) /\ (dst[j] = wait_list[i] \/ i \in twice)
  <2>1. i = jid[d] /\ sess = "up" /\ dconn[d] = "sent" /\ dconn'[d] # "sent"
    BY <1>t, <1>3 DEF ServeClient, Remove
  <2>2. dst[d] = wait_list[i] \/ i \in twice
    BY <2>1 DEF IndInv, ReservedInv, Unanswered
  <2> QED
    BY <2>1, <2>2 DEF AnswerRead
<1>4. ASSUME NEW j \in Jobs, DropClient(j) \/ JobStep(j) PROVE FALSE
  BY <1>4, SendFrame DEF DropClient, JobStep, ConnectServer, ConnectTarget, ConnectFails, Connected,
              ClientTimeout, SendMap, serverVars
<1>5. ASSUME HandleRecv
      PROVE  \E j \in Jobs :
               jid[j] = i /\ AnswerRead(j) /\ (dst[j] = wait_list[i] \/ i \in twice)
  <2>0. c2s # <<>> /\ c2s' = Tail(c2s) /\ sess = "up"
    BY <1>5, <1>t, ShortWritten DEF HandleRecv, IndInv, TypeOK
  <2>1. Head(c2s) = c2s[1] /\ 1 \in 1 .. Len(c2s)
    BY <1>t, <2>0, TailAt
  <2>2. ErrorAt(1) /\ i = c2s[1].id
    BY <1>t, <1>5, <2>1 DEF HandleRecv, Remove, ErrorAt
  <2>3. c2s[1].of \in Jobs /\ c2s[1] = MapError(i, c2s[1].of) /\ jid[c2s[1].of] = i
    <3>1. /\ \A k \in 1 .. Len(c2s) : ErrorAt(k) =>
               c2s[k].of \in Jobs /\ c2s[k] = MapError(c2s[k].id, c2s[k].of)
          /\ \A k \in 1 .. Len(c2s) : ErrorAt(k) => c2s[k].id = jid[c2s[k].of]
      BY PacketFields DEF IndInv, LifeInv
    <3> QED BY <2>1, <2>2, <3>1
  <2>4. dst[c2s[1].of] = wait_list[i] \/ i \in twice
    BY <2>0, <2>2 DEF IndInv, ReservedInv
  <2> QED
    BY <2>0, <2>1, <2>3, <2>4 DEF AnswerRead
<1>6. CASE ServerError
  BY <1>6 DEF ServerError
<1>7. CASE Heartbeat \/ ClientRecv \/ ClientHeartbeat \/ ClientError
  BY <1>7 DEF Heartbeat, ClientRecv, ClientHeartbeat, ClientError, serverVars
<1> QED
  BY <1>1, <1>2, <1>3, <1>4, <1>5, <1>6, <1>7 DEF Next, DataStep

\* An entry of wait_list is removed by the client's answer to its visitor or with the
\* session, never by the visitor's own timeout; only with an id of a packet encrypted twice
\* can the answer be to another visitor.
THEOREM EntriesFreedByAnswer == Spec => FreedByAnswer
BY StepFreed, Invariance, PTL DEF FreedByAnswer, Spec

\* Initial states are initial states of Rendezvous.
LEMMA InitPromise == Init => Promise!Init
BY DEF Init, Promise!Init, Phase, Peer, Pending, Crossed

\* A visitor that is crossed stays so.
LEMMA StepCrossed == IndInv /\ [Next]_vars => Crossed \subseteq Crossed'
<1> SUFFICES ASSUME IndInv, Next \/ UNCHANGED vars PROVE Crossed \subseteq Crossed'
  OBVIOUS
<1>t. vst \in [Visitors -> VisitorState] /\ vid \in [Visitors -> Ids]
  BY DEF IndInv, TypeOK
<1>1. ASSUME twice \subseteq twice',
             \A u \in Visitors : vst[u] \notin {"idle", "mock"} =>
               vst'[u] \notin {"idle", "mock"} /\ vid'[u] = vid[u]
      PROVE  Crossed \subseteq Crossed'
  BY <1>1 DEF Crossed
<1>2. CASE UNCHANGED vars
  BY <1>1, <1>2 DEF vars, serverVars, history
<1>3. ASSUME NEW v \in Visitors, VisitorStep(v) PROVE Crossed \subseteq Crossed'
  <2>1. CASE NotifyClient(v)
    <3>1. vst' \in [Visitors -> {vst[u] : u \in Visitors} \cup {"notify", "wait"}] /\ vid' = vid
          /\ \A u \in Visitors : vst'[u] = vst[u] \/ vst'[u] \in {"notify", "wait"}
      BY <1>t, <2>1 DEF NotifyClient
    <3>2. twice \subseteq twice'
      BY <2>1 DEF NotifyClient
    <3> QED BY <1>1, <3>1, <3>2
  <2>2. CASE Push(v)
    <3>1. /\ vst[v] = "mock" /\ twice' = twice
          /\ \A u \in Visitors \ {v} : vst'[u] = vst[u] /\ vid'[u] = vid[u]
      BY <1>t, <2>2 DEF Push, history
    <3> QED BY <1>1, <3>1
  <2>3. CASE ~NotifyClient(v) /\ ~Push(v)
    <3>1. twice' = twice /\ vid' = vid
      BY <1>3, <2>3 DEF VisitorStep, AcceptVisitor, MockFails, PushHangs, FinishVisitor,
                        VisitorRefused, VisitorTimeout, history
    <3>2. \A u \in Visitors : vst[u] \notin {"idle", "mock"} => vst'[u] \notin {"idle", "mock"}
      BY <1>t, <1>3, <2>3 DEF VisitorStep, AcceptVisitor, MockFails, PushHangs, FinishVisitor,
                              VisitorRefused, VisitorTimeout
    <3> QED BY <1>1, <3>1, <3>2
  <2> QED BY <2>1, <2>2, <2>3
<1>4. ASSUME NEW j \in Jobs, DataStep(j) \/ JobStep(j) PROVE Crossed \subseteq Crossed'
  <2>1. vst' = vst /\ vid' = vid
    BY <1>4, SendFrame DEF DataStep, ServeClient, DropClient, JobStep, ConnectServer, ConnectTarget,
           ConnectFails, Connected, ClientTimeout, SendMap, serverVars
  <2>2. twice \subseteq twice'
    BY <1>4 DEF DataStep, ServeClient, DropClient, JobStep, ConnectServer, ConnectTarget,
           ConnectFails, Connected, ClientTimeout, SendMap, SendMapError, history
  <2> QED BY <1>1, <2>1, <2>2
<1>5. CASE HandleRecv \/ Heartbeat \/ ClientRecv \/ ClientHeartbeat \/ ClientError
  BY <1>1, <1>5 DEF HandleRecv, Heartbeat, ClientRecv, ClientHeartbeat, ClientError, serverVars,
                    history
<1>6. CASE ServerError
  <2>1. vid' = vid /\ twice' = twice
        /\ \A u \in Visitors : vst[u] \notin {"idle", "mock"} => vst'[u] \notin {"idle", "mock"}
    BY <1>6 DEF ServerError, history
  <2> QED BY <1>1, <2>1
<1> QED
  BY <1>2, <1>3, <1>4, <1>5, <1>6 DEF Next

\* Every step is one of Rendezvous or leaves it as it is.
LEMMA StepPromise == IndInv /\ [Next]_vars => [Promise!Next]_Promise!vars
<1> DEFINE Quiet == Phase' = Phase /\ Peer' = Peer /\ dst' = dst
           Ends == \E V \in SUBSET Visitors : Promise!LetDown(V)
           Steps == \E v \in Visitors :
                      Promise!Ask(v) \/ \E c \in Jobs : Promise!Make(c, v) \/ Promise!Join(v, c)
<1> SUFFICES ASSUME IndInv, Next \/ UNCHANGED vars
             PROVE  Quiet \/ Steps \/ Ends
  BY StepCrossed DEF Promise!Next
<1>t. /\ vst \in [Visitors -> VisitorState] /\ stream \in [Visitors -> Jobs \cup {NoJob}]
      /\ dst \in [Jobs -> Visitors \cup {NoVisitor}] /\ asked \subseteq Visitors
  BY DEF IndInv, TypeOK
<1>1. ASSUME vst' = vst, stream' = stream, dst' = dst PROVE Quiet
  BY <1>1 DEF Phase, Peer, Pending
<1>2. CASE UNCHANGED vars
  BY <1>1, <1>2 DEF vars, serverVars, clientVars
<1>3. ASSUME NEW v \in Visitors, Pending(v), stream' = stream, dst' = dst,
             vst' = [vst EXCEPT ![v] = "failed"] \/ vst' = [vst EXCEPT ![v] = "closed"]
      PROVE  Ends
  <2>1. Phase' = [u \in Visitors |-> IF u \in {v} THEN "failed" ELSE Phase[u]]
    BY <1>t, <1>3 DEF Phase, Pending
  <2>2. Peer' = Peer
    BY <1>t, <1>3 DEF Peer, Pending
  <2>3. {v} # {} /\ {v} \in SUBSET Visitors /\ \A u \in {v} : Phase[u] = "pending"
    BY <1>3 DEF Phase, Pending
  <2>4. Promise!LetDown({v})
    BY <1>3, <2>1, <2>2, <2>3 DEF Promise!LetDown
  <2> QED
    BY <2>3, <2>4
<1>4. ASSUME NEW v \in Visitors, VisitorStep(v) PROVE Quiet \/ Steps \/ Ends
  <2>1. CASE AcceptVisitor(v)
    <3>1. Promise!Ask(v)
      BY <1>t, <2>1 DEF AcceptVisitor, Promise!Ask, Phase, Peer, Pending, clientVars
    <3> QED
      BY <3>1
  <2>2. CASE MockFails(v) \/ VisitorRefused(v) \/ VisitorTimeout(v)
    BY <1>3, <2>2 DEF MockFails, VisitorRefused, VisitorTimeout, Pending, clientVars
  <2>3. CASE Push(v)
    <3>1. CASE vst' = [vst EXCEPT ![v] = "notify"]
      BY <1>t, <2>3, <3>1 DEF Push, Phase, Peer, Pending, clientVars
    <3>2. CASE vst' = [vst EXCEPT ![v] = "closed"]
      BY <1>3, <2>3, <3>2 DEF Push, Pending, clientVars
    <3> QED
      BY <2>3, <3>1, <3>2 DEF Push
  <2>4. CASE NotifyClient(v)
    <3>1. /\ vst[v] = "notify" /\ stream' = stream /\ dst' = dst
          /\ \E s \in {"notify", "wait"} : vst' = [vst EXCEPT ![v] = s]
      BY <2>4, SendFrame DEF NotifyClient
    <3> QED
      BY <1>t, <3>1 DEF Phase, Peer, Pending
  <2>5. CASE PushHangs(v)
    BY <1>1, <2>5 DEF PushHangs, clientVars
  <2>6. CASE FinishVisitor(v)
    <3>1. CASE vst' = [vst EXCEPT ![v] = "failed"]
      BY <1>3, <2>6, <3>1 DEF FinishVisitor, Pending, clientVars
    <3>2. CASE vst' = [vst EXCEPT ![v] = "routed"]
      <4>1. /\ stream' = stream /\ dst' = dst /\ vst[v] = "wait" /\ chan[v] = "full"
        BY <2>6 DEF FinishVisitor, clientVars
      <4>2. /\ stream[v] \in Jobs /\ stream[v] # NoJob /\ job[stream[v]] = "ready"
            /\ dst[stream[v]] = v \/ vid[v] \in twice
        BY <1>t, <4>1 DEF IndInv, RouteCorrect
      <4>3. dst[stream[v]] # NoVisitor
        BY <4>2, AskedFirst
      <4>4. dst[stream[v]] = v \/ (dst[stream[v]] # NoVisitor /\ v \in Crossed)
        BY <4>1, <4>2, <4>3 DEF Crossed
      <4>5. \A u \in Visitors : Peer[u] # stream[v]
        BY <1>t, <4>1, <4>2 DEF Peer, IndInv, RouteCorrect
      <4>6. Phase[v] = "pending" /\ Phase' = [Phase EXCEPT ![v] = "joined"]
            /\ Peer' = [Peer EXCEPT ![v] = stream[v]]
        BY <1>t, <3>2, <4>1 DEF Phase, Peer, Pending
      <4>7. Promise!Join(v, stream[v])
        BY <4>1, <4>4, <4>5, <4>6 DEF Promise!Join
      <4> QED
        BY <4>2, <4>7
    <3> QED
      BY <2>6, <3>1, <3>2 DEF FinishVisitor
  <2> QED
    BY <1>4, <2>1, <2>2, <2>3, <2>4, <2>5, <2>6 DEF VisitorStep
<1>5. ASSUME NEW d \in Jobs, ServeClient(d) PROVE Quiet
  <2>1. /\ vst' = vst /\ dst' = dst
        /\ \A u \in Visitors : vst[u] = "routed" => stream'[u] = stream[u]
    BY <1>t, <1>5, VisitorsAssumption DEF ServeClient, Pending, clientVars
  <2> QED
    BY <2>1 DEF Phase, Peer, Pending
<1>6. ASSUME NEW j \in Jobs, DropClient(j) \/ JobStep(j) PROVE Quiet
  BY <1>1, <1>6, SendFrame DEF DropClient, JobStep, ConnectServer, ConnectTarget, ConnectFails,
                    Connected, ClientTimeout, SendMap, serverVars, clientVars
<1>7. CASE HandleRecv \/ Heartbeat \/ ClientHeartbeat \/ ClientError
  BY <1>1, <1>7 DEF HandleRecv, Heartbeat, ClientHeartbeat, ClientError, serverVars, clientVars
<1>8. CASE ClientRecv
  <2>1. vst' = vst /\ stream' = stream
    BY <1>8 DEF ClientRecv, serverVars
  <2>2. CASE Head(s2c).type # "Map"
    BY <1>1, <1>8, <2>1, <2>2 DEF ClientRecv
  <2>3. CASE Head(s2c).type = "Map"
    <3>1. PICK j \in Jobs : job[j] = "none" /\ dst' = [dst EXCEPT ![j] = Head(s2c).dst]
      BY <1>8, <2>3 DEF ClientRecv
    <3>2. dst[j] = NoVisitor
      BY <3>1 DEF IndInv, LifeInv
    <3>3. Head(s2c).dst \in asked
      <4>1. s2c \in Seq(ServerPoto) /\ s2c # <<>>
        BY <1>8, ShortWritten DEF IndInv, TypeOK, ClientRecv
      <4>2. Head(s2c) = s2c[1] /\ 1 \in 1 .. Len(s2c)
        BY <4>1, TailAt
      <4> QED BY <2>3, <4>2 DEF IndInv, LifeInv, MapAt
    <3>4. Phase[Head(s2c).dst] # "new" /\ Head(s2c).dst \in Visitors
      BY <1>t, <3>3 DEF IndInv, EntryInv, Phase
    <3>5. Promise!Make(j, Head(s2c).dst)
      BY <2>1, <3>1, <3>2, <3>4 DEF Promise!Make, Phase, Peer, Pending
    <3> QED
      BY <3>4, <3>5
  <2> QED
    BY <2>2, <2>3
<1>9. CASE ServerError
  <2> DEFINE V == {v \in Visitors : Pending(v)}
  <2>0. stream' = stream /\ dst' = dst
        /\ vst' = [v \in Visitors |-> IF Pending(v) THEN "failed" ELSE vst[v]]
    BY <1>9 DEF ServerError, clientVars
  <2>1. CASE V = {}
    <3>1. vst' = vst
      BY <1>t, <2>0, <2>1
    <3> QED
      BY <1>1, <2>0, <3>1
  <2>2. CASE V # {}
    <3>1. \A v \in V : Phase[v] = "pending"
      BY DEF Phase, Pending
    <3>2. Phase' = [v \in Visitors |-> IF v \in V THEN "failed" ELSE Phase[v]]
      BY <2>0 DEF Phase, Pending
    <3>3. Peer' = Peer
      BY <2>0 DEF Peer, Pending
    <3>4. Promise!LetDown(V)
      BY <2>0, <2>2, <3>1, <3>2, <3>3 DEF Promise!LetDown
    <3> QED
      BY <3>4
  <2> QED
    BY <2>1, <2>2
<1> QED
  BY <1>2, <1>4, <1>5, <1>6, <1>7, <1>8, <1>9 DEF Next, DataStep

\* A session implements Rendezvous: each visitor has one final outcome, and is
\* joined only with a connection of its own, one made for it unless it is crossed.
THEOREM TunnelImplementsRendezvous == Spec => KeepsPromise
BY InitPromise, StepPromise, Invariance, PTL DEF KeepsPromise, Promise!Spec, Spec

-----------------------------------------------------------------------------
(* One id, one request.                                                     *)

\* Whoever a request or an answer with an id is for holds the entry of that id.
LEMMA IdsApart == IndInv => DistinctIds
<1> SUFFICES ASSUME IndInv, sess # "down", NEW i \in Ids \ twice,
                    NEW x \in UnderWay(i), NEW y \in UnderWay(i)
             PROVE  x = y
  BY DEF DistinctIds
<1> DEFINE v == wait_list[i]
           InMap(z, k) == k \in 1 .. Len(s2c) /\ z = <<"s2c", k>> /\ MapAt(k) /\ s2c[k].dst = v
                          /\ s2c[k].id = i
           InJob(z, j) == j \in Jobs /\ z = <<"job", j>> /\ Unanswered(j) /\ dst[j] = v /\ jid[j] = i
           InError(z, k) == k \in 1 .. Len(c2s) /\ z = <<"c2s", k>> /\ ErrorAt(k)
                            /\ dst[c2s[k].of] = v /\ c2s[k].of \in denied /\ c2s[k].of \in Jobs
                            /\ jid[c2s[k].of] = i /\ c2s[k].id = i
<1>1. ASSUME NEW z \in UnderWay(i)
      PROVE  (\E k : InMap(z, k)) \/ (\E k : InError(z, k)) \/ (\E j : InJob(z, j))
  <2>1. CASE \E k \in 1 .. Len(s2c) : z = <<"s2c", k>> /\ MapAt(k) /\ s2c[k].id = i
    BY <2>1 DEF IndInv, ReservedInv
  <2>2. CASE \E k \in 1 .. Len(c2s) : z = <<"c2s", k>> /\ ErrorAt(k) /\ c2s[k].id = i
    <3>1. PICK k \in 1 .. Len(c2s) : z = <<"c2s", k>> /\ ErrorAt(k) /\ c2s[k].id = i
      BY <2>2
    <3>2. c2s[k].of \in Jobs /\ c2s[k].of \in denied /\ jid[c2s[k].of] = i
      BY <3>1, PacketFields DEF IndInv, LifeInv
    <3>3. dst[c2s[k].of] = v
      BY <3>1 DEF IndInv, ReservedInv
    <3> QED BY <3>1, <3>2, <3>3
  <2>3. CASE \E j \in Jobs : z = <<"job", j>> /\ Unanswered(j) /\ jid[j] = i
    BY <2>3 DEF IndInv, ReservedInv
  <2> QED BY <1>1, <2>1, <2>2, <2>3 DEF UnderWay
<1>2. v \in Visitors \cup {NoVisitor}
  BY DEF IndInv, TypeOK
<1>3. \A j \in Jobs : Unanswered(j) \/ j \in denied => dst[j] # NoVisitor
  BY AskedFirst DEF IndInv, LifeInv
<1>4. \A z, w, k, j : ~(InMap(z, k) /\ InJob(w, j)) /\ ~(InMap(z, k) /\ InError(w, j))
  BY DEF IndInv, OnceInv
<1>5. \A z, w, k, j : ~(InError(z, k) /\ InJob(w, j))
  <2> SUFFICES ASSUME NEW z, NEW w, NEW k, NEW j, InError(z, k), InJob(w, j) PROVE FALSE
    OBVIOUS
  <2>1. c2s[k].of = j
    BY <1>3 DEF IndInv, OnceInv
  <2> QED BY <2>1 DEF IndInv, LifeInv, Unanswered
<1>6. \A k, l : InMap(x, k) /\ InMap(y, l) => x = y
  BY DEF IndInv, OnceInv
<1>7. \A j, l : InJob(x, j) /\ InJob(y, l) => x = y
  BY <1>3 DEF IndInv, OnceInv
<1>8. \A k, l : InError(x, k) /\ InError(y, l) => x = y
  <2> SUFFICES ASSUME NEW k, NEW l, InError(x, k), InError(y, l) PROVE k = l
    OBVIOUS
  <2>1. c2s[k].of = c2s[l].of
    BY <1>3 DEF IndInv, OnceInv
  <2> QED BY <2>1 DEF IndInv, OnceInv
<1> HIDE DEF InMap, InJob, InError
<1> QED BY <1>1, <1>4, <1>5, <1>6, <1>7, <1>8

\* At any time at most one of all requests and answers under way carries an id, for any
\* number of visitors, however soon MQueue hands an id out again, if no packet with that id
\* was encrypted twice.
THEOREM IdsAreDistinct == Spec => []DistinctIds
BY IdsApart, Invariance, PTL

-----------------------------------------------------------------------------
(* Full only of visitors without an answer.                                 *)

\* The visitors that were accepted.
Started == {v \in Visitors : vst[v] # "idle"}

\* The session hangs in the push of a visitor without an entry.
ExhaustInv ==
  /\ sess = "hung" => Full /\ \E v \in Visitors : vst[v] = "mock"
  /\ IsFiniteSet(Started)

\* No visitor was accepted.
LEMMA InitExhaust == Init => ExhaustInv
<1> SUFFICES ASSUME Init PROVE ExhaustInv
  OBVIOUS
<1>1. Started = {}
  BY DEF Init, Started
<1>2. IsFiniteSet(Started)
  BY <1>1, FS_EmptySet
<1> QED BY <1>2 DEF Init, ExhaustInv

\* At most one visitor more is accepted.
LEMMA StartedFinite ==
  ASSUME TypeOK, IsFiniteSet(Started), NEW v \in Visitors,
         \A u \in Visitors \ {v} : vst'[u] # "idle" => vst[u] # "idle"
  PROVE  IsFiniteSet(Started')
<1>1. Started' \subseteq Started \cup {v}
  BY DEF Started
<1>2. IsFiniteSet(Started \cup {v})
  BY FS_AddElement
<1> QED BY <1>1, <1>2, FS_Subset

\* The steps of a visitor.
LEMMA VisitorExhaust ==
  ASSUME IndInv, ExhaustInv, NEW v \in Visitors, VisitorStep(v)
  PROVE  ExhaustInv'
<1>t. vst \in [Visitors -> VisitorState]
  BY DEF IndInv, TypeOK
<1>1. \A u \in Visitors \ {v} : vst'[u] = vst[u]
  <2>1. CASE NotifyClient(v)
    BY <1>t, <2>1 DEF NotifyClient
  <2>2. CASE ~NotifyClient(v)
    BY <1>t, <2>2 DEF VisitorStep, AcceptVisitor, MockFails, Push, PushHangs, FinishVisitor,
                      VisitorRefused, VisitorTimeout
  <2> QED BY <2>1, <2>2
<1>2. IsFiniteSet(Started')
  BY <1>1, StartedFinite DEF ExhaustInv, IndInv
<1>3. sess' = "hung" => Full' /\ \E u \in Visitors : vst'[u] = "mock"
  <2> SUFFICES ASSUME sess' = "hung" PROVE Full' /\ vst'[v] = "mock"
    OBVIOUS
  <2>1. PushHangs(v)
    BY SendFrame DEF VisitorStep, NotifyClient, AcceptVisitor, MockFails, Push, FinishVisitor,
                     VisitorRefused, VisitorTimeout
  <2> QED BY <2>1 DEF PushHangs, Full
<1> QED BY <1>2, <1>3 DEF ExhaustInv

\* What is left of the steps starts no visitor, and a session that hangs does nothing more.
LEMMA StepExhaust == IndInv /\ ExhaustInv /\ [Next]_vars => ExhaustInv'
<1> SUFFICES ASSUME IndInv, ExhaustInv, Next \/ UNCHANGED vars PROVE ExhaustInv'
  OBVIOUS
<1>1. ASSUME UNCHANGED <<sess, wait_list, vst>> PROVE ExhaustInv'
  BY <1>1 DEF ExhaustInv, Started, Full
<1>2. ASSUME vst' = vst, sess' = "up" PROVE ExhaustInv'
  BY <1>2 DEF ExhaustInv, Started
<1>3. CASE UNCHANGED vars
  BY <1>1, <1>3 DEF vars, serverVars
<1>4. ASSUME NEW j \in Jobs, DataStep(j) \/ JobStep(j) PROVE ExhaustInv'
  <2>1. CASE ServeClient(j)
    BY <1>2, <2>1 DEF ServeClient
  <2>2. CASE ~ServeClient(j)
    BY <1>1, <1>4, <2>2, SendFrame DEF DataStep, DropClient, JobStep, ConnectServer, ConnectTarget,
                    ConnectFails, Connected, ClientTimeout, SendMap, serverVars
  <2> QED BY <2>1, <2>2
<1>5. CASE HandleRecv
  BY <1>2, <1>5 DEF HandleRecv
<1>6. CASE Heartbeat \/ ClientRecv \/ ClientHeartbeat \/ ClientError
  BY <1>1, <1>6 DEF Heartbeat, ClientRecv, ClientHeartbeat, ClientError, serverVars
<1>7. CASE ServerError
  <2>1. /\ sess' = "down"
        /\ vst' = [v \in Visitors |-> IF Pending(v) THEN "failed" ELSE vst[v]]
    BY <1>7 DEF ServerError
  <2>2. Started' = Started
    BY <2>1 DEF Started, Pending
  <2> QED BY <2>1, <2>2 DEF ExhaustInv
<1> QED BY <1>3, <1>4, <1>5, <1>6, <1>7, VisitorExhaust DEF Next

\* Each id is the entry of a visitor of its own, and one more waits for an id.
LEMMA HangsWhenExhausted == IndInv /\ ExhaustInv => HangsOnlyWhenExhausted
<1> SUFFICES ASSUME IndInv, ExhaustInv, sess = "hung"
             PROVE  Cardinality({v \in Visitors : vst[v] # "idle" /\ chan[v] = "empty"}) > IdMod
  BY DEF HangsOnlyWhenExhausted
<1> DEFINE Waiting == {v \in Visitors : vst[v] # "idle" /\ chan[v] = "empty"}
           holder == [i \in Ids |-> wait_list[i]]
           Holders == {wait_list[i] : i \in Ids}
<1>1. PICK u \in Visitors : vst[u] = "mock" /\ chan[u] = "empty" /\ Full
  BY DEF ExhaustInv, IndInv, EntryInv
<1>2. \A i \in Ids : /\ wait_list[i] \in Visitors /\ vid[wait_list[i]] = i
                     /\ vst[wait_list[i]] \notin {"idle", "mock"} /\ chan[wait_list[i]] = "empty"
  BY <1>1 DEF Full, IndInv, TypeOK, EntryInv
<1>3. Holders \subseteq Waiting /\ u \in Waiting /\ u \notin Holders
  BY <1>1, <1>2
<1>4. IsFiniteSet(Waiting)
  <2>1. Waiting \subseteq Started
    BY DEF Started
  <2> QED BY <2>1, FS_Subset DEF ExhaustInv
<1>5. IsFiniteSet(Ids) /\ Cardinality(Ids) = IdMod
  <2>1. 0 \in Int /\ IdMod - 1 \in Int /\ 0 <= IdMod - 1 /\ (IdMod - 1) - 0 + 1 = IdMod
    BY IdModAssumption
  <2> QED BY <2>1, FS_Interval DEF Ids
<1>6. IsFiniteSet(Holders) /\ Cardinality(Holders) = IdMod
  <2>1. holder \in Bijection(Ids, Holders)
    BY <1>2 DEF Bijection, Injection, Surjection, IsInjective
  <2> QED BY <1>5, <2>1, FS_Bijection DEF ExistsBijection
<1>7. IsFiniteSet(Holders \cup {u}) /\ Cardinality(Holders \cup {u}) = IdMod + 1
  BY <1>3, <1>6, FS_AddElement
<1>8. Cardinality(Holders \cup {u}) <= Cardinality(Waiting) /\ Cardinality(Waiting) \in Nat
  BY <1>3, <1>4, FS_Subset, FS_CardinalityType
<1> QED BY <1>7, <1>8, IdModAssumption

\* push never returns only after more visitors than there are ids were accepted and got no
\* answer, for any number of visitors and ids.
THEOREM PushHangsWhenExhausted == Spec => []HangsOnlyWhenExhausted
<1>1. IndInv /\ ExhaustInv /\ [Next]_vars => ExhaustInv'
  BY StepExhaust
<1> QED BY <1>1, InitExhaust, HangsWhenExhausted, Invariance, PTL DEF Spec
=============================================================================
