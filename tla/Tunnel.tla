------------------------------- MODULE Tunnel -------------------------------
(***************************************************************************)
(* One established penetrate session: the server half (Penetrate in        *)
(* net/penetrate/server.rs), the client half (PenetrateClient in           *)
(* net/penetrate/client.rs), the control connection between them and the   *)
(* data connections the client opens.                                      *)
(*                                                                         *)
(* A visitor that connects to the public port is given an id in MQueue,    *)
(* the id travels to the client in Map, and the client answers either on a *)
(* new data connection that starts with Map(id) or with MapError(id) on    *)
(* the control connection.  Ids are reused as soon as they are removed.    *)
(*                                                                         *)
(* All futures of a half share clones of one writer.  A frame for which    *)
(* the transport has no room is kept in the RSA encryptor under them, and  *)
(* whoever polls a send next writes it, in place of a packet of its own:   *)
(* packets can be lost and sent twice (core/encryption/rsa/mod.rs).        *)
(*                                                                         *)
(* A visitor stands for itself and for the destination it asks for.  A job *)
(* is a future the client starts for a Map, and the data connection that   *)
(* this future opens.                                                      *)
(***************************************************************************)
EXTENDS Integers, Sequences, FiniteSets

CONSTANTS
  Visitors,    \* the connections made to the public port
  NoVisitor,   \* not a visitor: an empty slot
  Jobs,        \* names for the futures of the client
  NoJob,       \* not a job: no data connection
  Precedes,    \* pairs of jobs of which the first is used first; {} for any order
  IdMod,       \* number of ids; u32 in MQueue, hence 2^32 in the program
  ChanCap,     \* packets the control connection buffers in one direction
  MaxBlocked,  \* bound: how many frames find the control connection full
  Faults       \* which of "timeout", "io" and "session" faults may happen

ASSUME VisitorsAssumption == NoVisitor \notin Visitors /\ NoJob \notin Jobs
ASSUME IdModAssumption == IdMod \in Nat \ {0}
ASSUME ChanCapAssumption == ChanCap \in Nat \ {0} /\ MaxBlocked \in Nat
ASSUME FaultsAssumption == Faults \subseteq {"timeout", "io", "session"}

VARIABLES
  sess,        \* server session: "up", "hung" (push never returns), "down"
  identify,    \* MQueue.identify
  wait_list,   \* MQueue.wait_list: id -> whose Sender is stored
  vst,         \* where the future of a visitor stands
  vid,         \* the id push returned to a visitor
  chan,        \* the bounded(1) channel of a visitor
  stream,      \* the data connection put in that channel
  s2c, c2s,    \* the control connection: the frames that were encrypted
  skept, ckept,  \* wbuf is Some: the last frame is not yet written in full
  blocked,     \* how many frames were kept so far
  csess,       \* client session: "up" or "down"
  job,         \* where the client's future for a Map stands
  jid, dst,    \* the id that Map carried, the visitor whose destination it names
  target,      \* has the client connected to the destination
  dconn,       \* the data connection of a job, as the server sees it
  asked,       \* history: visitors of which a Map was encrypted
  denied,      \* history: jobs of which a MapError was encrypted
  twice        \* history: ids of a Map or MapError that was encrypted once more

serverVars == <<sess, identify, wait_list, vst, vid, chan, stream>>
clientVars == <<csess, job, jid, dst, target>>
wire == <<s2c, skept, c2s, ckept, blocked>>
history == <<asked, denied, twice>>
vars == <<serverVars, clientVars, wire, history, dconn>>

-----------------------------------------------------------------------------
Ids == 0 .. IdMod - 1

Ping == [type |-> "Ping"]
Map(i, v) == [type |-> "Map", id |-> i, dst |-> v]
\* of names the connect error the message text reports; no code reads it.
MapError(i, j) == [type |-> "MapError", id |-> i, of |-> j]

ServerPoto == {Ping} \cup [type : {"Map"}, id : Ids, dst : Visitors]
ClientPoto == {Ping} \cup [type : {"MapError"}, id : Ids, of : Jobs]

VisitorState == {"idle", "mock", "notify", "wait", "routed", "closed", "failed"}
JobState == {"none", "connect", "connerr", "refuse", "send", "ready", "failed"}
DataState == {"none", "open", "sent", "taken", "dropped"}

TypeOK ==
  /\ sess \in {"up", "hung", "down"}
  /\ identify \in Ids
  /\ wait_list \in [Ids -> Visitors \cup {NoVisitor}]
  /\ vst \in [Visitors -> VisitorState]
  /\ vid \in [Visitors -> Ids]
  /\ chan \in [Visitors -> {"empty", "full", "closed"}]
  /\ stream \in [Visitors -> Jobs \cup {NoJob}]
  /\ s2c \in Seq(ServerPoto) /\ skept \in BOOLEAN /\ (skept => s2c # <<>>)
  /\ c2s \in Seq(ClientPoto) /\ ckept \in BOOLEAN /\ (ckept => c2s # <<>>)
  /\ blocked \in 0 .. MaxBlocked
  /\ csess \in {"up", "down"}
  /\ job \in [Jobs -> JobState]
  /\ jid \in [Jobs -> Ids]
  /\ dst \in [Jobs -> Visitors \cup {NoVisitor}]
  /\ target \in [Jobs -> BOOLEAN]
  /\ dconn \in [Jobs -> DataState]
  /\ asked \subseteq Visitors /\ denied \subseteq Jobs /\ twice \subseteq Ids

Init ==
  /\ sess = "up"
  /\ identify = 0
  /\ wait_list = [i \in Ids |-> NoVisitor]
  /\ vst = [v \in Visitors |-> "idle"]
  /\ vid = [v \in Visitors |-> 0]
  /\ chan = [v \in Visitors |-> "empty"]
  /\ stream = [v \in Visitors |-> NoJob]
  /\ s2c = <<>> /\ skept = FALSE
  /\ c2s = <<>> /\ ckept = FALSE
  /\ blocked = 0
  /\ csess = "up"
  /\ job = [j \in Jobs |-> "none"]
  /\ jid = [j \in Jobs |-> 0]
  /\ dst = [j \in Jobs |-> NoVisitor]
  /\ target = [j \in Jobs |-> FALSE]
  /\ dconn = [j \in Jobs |-> "none"]
  /\ asked = {} /\ denied = {} /\ twice = {}

-----------------------------------------------------------------------------
(* The control connection: poll_write of the RSA encryptor under the clones *)
(* of a writer, as SendPacket calls it.                                     *)

\* No frame is left over: the packet is encrypted, and its frame written or kept.
ServerEncrypts(m) ==
  /\ ~skept
  /\ s2c' = Append(s2c, m)
  /\ \/ Len(s2c) < ChanCap /\ UNCHANGED <<skept, blocked>>
     \/ Len(s2c) >= ChanCap /\ blocked < MaxBlocked /\ skept' = TRUE /\ blocked' = blocked + 1
  /\ UNCHANGED <<c2s, ckept>>

\* A frame is left over, whoever it belongs to: it is written, and the caller is told
\* that its own packet is.
ServerFlushes ==
  /\ skept /\ Len(s2c) <= ChanCap
  /\ skept' = FALSE
  /\ UNCHANGED <<s2c, c2s, ckept, blocked>>

ClientEncrypts(m) ==
  /\ ~ckept
  /\ c2s' = Append(c2s, m)
  /\ \/ Len(c2s) < ChanCap /\ UNCHANGED <<ckept, blocked>>
     \/ Len(c2s) >= ChanCap /\ blocked < MaxBlocked /\ ckept' = TRUE /\ blocked' = blocked + 1
  /\ UNCHANGED <<s2c, skept>>

ClientFlushes ==
  /\ ckept /\ Len(c2s) <= ChanCap
  /\ ckept' = FALSE
  /\ UNCHANGED <<s2c, skept, c2s, blocked>>

\* The frames on the way, and the one an encryptor keeps.
Written(q, kept) == IF kept THEN SubSeq(q, 1, Len(q) - 1) ELSE q
Kept(q, kept) == IF kept THEN <<q[Len(q)]>> ELSE <<>>

-----------------------------------------------------------------------------
(* MQueue *)

\* Mutant: push does not look whether the id is taken.
PushIdUnchecked(i) == i = identify

\* The loop of push stops at the first free id at or after identify.
PushId(i) ==
  \E k \in Ids :
    /\ i = (identify + k) % IdMod
    /\ wait_list[i] = NoVisitor
    /\ \A j \in 0 .. k - 1 : wait_list[(identify + j) % IdMod] # NoVisitor

Full == \A i \in Ids : wait_list[i] # NoVisitor

Remove(i) == wait_list' = [wait_list EXCEPT ![i] = NoVisitor]

-----------------------------------------------------------------------------
(* Server: the future of a visitor *)

Pending(v) == vst[v] \in {"mock", "notify", "wait"}

AcceptVisitor(v) ==
  /\ sess = "up"
  /\ vst[v] = "idle"
  /\ vst' = [vst EXCEPT ![v] = "mock"]
  /\ UNCHANGED <<sess, identify, wait_list, vid, chan, stream, clientVars, wire, history, dconn>>

\* peer_addr, mark or the selector fails: nothing was pushed yet.
MockFails(v) ==
  /\ sess = "up"
  /\ vst[v] = "mock"
  /\ vst' = [vst EXCEPT ![v] = "failed"]
  /\ UNCHANGED <<sess, identify, wait_list, vid, chan, stream, clientVars, wire, history, dconn>>

\* Mutant: identify is advanced past the inserted id, without the wrap.
PushAdvances(v) ==
  /\ sess = "up"
  /\ vst[v] = "mock"
  /\ \E i \in Ids :
       /\ PushId(i)
       /\ identify' = i + 1
       /\ wait_list' = [wait_list EXCEPT ![i] = v]
       /\ vid' = [vid EXCEPT ![v] = i]
  /\ \E s \in {"notify", "closed"} : vst' = [vst EXCEPT ![v] = s]
  /\ UNCHANGED <<sess, chan, stream, clientVars, wire, history, dconn>>

\* The sender is pushed whatever the selector said; Peer::Finished and
\* Peer::Unknown then close the visitor and leave the entry behind.
Push(v) ==
  /\ sess = "up"
  /\ vst[v] = "mock"
  /\ \E i \in Ids :
       /\ PushId(i)
       /\ identify' = i
       /\ wait_list' = [wait_list EXCEPT ![i] = v]
       /\ vid' = [vid EXCEPT ![v] = i]
  /\ \E s \in {"notify", "closed"} : vst' = [vst EXCEPT ![v] = s]
  /\ UNCHANGED <<sess, chan, stream, clientVars, wire, history, dconn>>

\* With no free id the loop of push never ends, and nothing else of the
\* session is polled again.
PushHangs(v) ==
  /\ sess = "up"
  /\ vst[v] = "mock"
  /\ Full
  /\ sess' = "hung"
  /\ UNCHANGED <<identify, wait_list, vst, vid, chan, stream, clientVars, wire, history, dconn>>

\* One poll of the send.  A visitor whose frame was written by another one is polled
\* again, and encrypts its Map once more.
NotifyClient(v) ==
  /\ sess = "up"
  /\ vst[v] = "notify"
  /\ \/ /\ ServerEncrypts(Map(vid[v], v))
        /\ asked' = asked \cup {v}
        /\ twice' = twice \cup (IF v \in asked THEN {vid[v]} ELSE {})
     \/ ServerFlushes /\ UNCHANGED <<asked, twice>>
  /\ vst' = [vst EXCEPT ![v] = IF skept' THEN "notify" ELSE "wait"]
  /\ UNCHANGED <<sess, identify, wait_list, vid, chan, stream, clientVars, denied, dconn>>

\* recv yields the data connection: the visitor is spliced with it, or
\* backward, write_all or peer_addr fails and both are dropped.
FinishVisitor(v) ==
  /\ sess = "up"
  /\ vst[v] = "wait"
  /\ chan[v] = "full"
  /\ \/ vst' = [vst EXCEPT ![v] = "routed"]
     \/ "io" \in Faults /\ vst' = [vst EXCEPT ![v] = "failed"]
  /\ UNCHANGED <<sess, identify, wait_list, vid, chan, stream, clientVars, wire, history, dconn>>

\* recv fails on a channel that poll_handle_recv closed.
VisitorRefused(v) ==
  /\ sess = "up"
  /\ vst[v] = "wait"
  /\ chan[v] = "closed"
  /\ vst' = [vst EXCEPT ![v] = "failed"]
  /\ UNCHANGED <<sess, identify, wait_list, vid, chan, stream, clientVars, wire, history, dconn>>

\* Mutant: the entry is removed when the visitor times out.
VisitorTimeoutFrees(v) ==
  /\ sess = "up"
  /\ Pending(v)
  /\ vst' = [vst EXCEPT ![v] = "failed"]
  /\ wait_list' = [i \in Ids |-> IF wait_list[i] = v THEN NoVisitor ELSE wait_list[i]]
  /\ UNCHANGED <<sess, identify, vid, chan, stream, clientVars, wire, history, dconn>>

\* Mutant: wait_for covers only the wait for the client's answer.
VisitorTimeoutLate(v) ==
  /\ sess = "up"
  /\ vst[v] = "wait"
  /\ vst' = [vst EXCEPT ![v] = "failed"]
  /\ UNCHANGED <<sess, identify, wait_list, vid, chan, stream, clientVars, wire, history, dconn>>

\* wait_for drops the future and its receiver; the sender stays in wait_list, and a
\* frame of the future that was kept is still to be written.
VisitorTimeout(v) ==
  /\ sess = "up"
  /\ Pending(v)
  /\ vst' = [vst EXCEPT ![v] = "failed"]
  /\ UNCHANGED <<sess, identify, wait_list, vid, chan, stream, clientVars, wire, history, dconn>>

-----------------------------------------------------------------------------
(* Server: data connections, the control connection, the end of the session *)

\* Mutant: the entry is read, not removed.
ServeClientKeeps(d) ==
  /\ sess = "up"
  /\ dconn[d] = "sent"
  /\ LET v == wait_list[jid[d]]
     IN IF v # NoVisitor /\ Pending(v)
        THEN /\ chan' = [chan EXCEPT ![v] = "full"]
             /\ stream' = [stream EXCEPT ![v] = d]
             /\ dconn' = [dconn EXCEPT ![d] = "taken"]
        ELSE /\ dconn' = [dconn EXCEPT ![d] = "dropped"]
             /\ UNCHANGED <<chan, stream>>
  /\ UNCHANGED <<sess, identify, wait_list, vst, vid, clientVars, wire, history>>

\* The future of an accepted data connection: Map(id, _) is read from it, the
\* sender of id is removed, and the connection goes to whoever waits there.
ServeClient(d) ==
  /\ sess = "up"
  /\ dconn[d] = "sent"
  /\ Remove(jid[d])
  /\ LET v == wait_list[jid[d]]
     IN IF v # NoVisitor /\ Pending(v)
        THEN /\ chan' = [chan EXCEPT ![v] = "full"]
             /\ stream' = [stream EXCEPT ![v] = d]
             /\ dconn' = [dconn EXCEPT ![d] = "taken"]
        ELSE /\ dconn' = [dconn EXCEPT ![d] = "dropped"]
             /\ UNCHANGED <<chan, stream>>
  /\ UNCHANGED <<sess, identify, vst, vid, clientVars, wire, history>>

\* That future times out or fails (decorate, recv_packet) before it is done.
DropClient(d) ==
  /\ Faults \cap {"timeout", "io"} # {}
  /\ sess = "up"
  /\ dconn[d] \in {"open", "sent"}
  /\ dconn' = [dconn EXCEPT ![d] = "dropped"]
  /\ UNCHANGED <<serverVars, clientVars, wire, history>>

\* poll_handle_recv: MapError removes the sender and closes its channel, any
\* other message is ignored.
HandleRecv ==
  /\ sess = "up"
  /\ Written(c2s, ckept) # <<>>
  /\ LET m == Head(c2s)
     IN IF m.type = "MapError"
        THEN /\ Remove(m.id)
             /\ IF wait_list[m.id] # NoVisitor
                THEN chan' = [chan EXCEPT ![wait_list[m.id]] = "closed"]
                ELSE UNCHANGED chan
        ELSE UNCHANGED <<wait_list, chan>>
  /\ c2s' = Tail(c2s)
  /\ UNCHANGED <<sess, identify, vst, vid, stream, clientVars, s2c, skept, ckept, blocked,
                 history, dconn>>

Heartbeat ==
  /\ sess = "up"
  /\ ServerEncrypts(Ping) \/ ServerFlushes
  /\ UNCHANGED <<serverVars, clientVars, history, dconn>>

\* Mutant: the end of the control connection is not taken for an error.
ServerErrorNoEof ==
  /\ sess = "up"
  /\ "session" \in Faults
  /\ csess = "up"
  /\ sess' = "down"
  /\ wait_list' = [i \in Ids |-> NoVisitor]
  /\ vst' = [v \in Visitors |-> IF Pending(v) THEN "failed" ELSE vst[v]]
  /\ dconn' = [j \in Jobs |-> IF dconn[j] \in {"open", "sent"} THEN "dropped" ELSE dconn[j]]
  /\ s2c' = Written(s2c, skept) /\ skept' = FALSE
  /\ c2s' = Kept(c2s, ckept)
  /\ UNCHANGED <<identify, vid, chan, stream, clientVars, ckept, blocked, history>>

\* A State::Error of any future, or an error of the accepter, ends the session:
\* its futures, its MQueue, its listeners and its control connection go, with the
\* frame that was kept.
ServerError ==
  /\ sess = "up"
  /\ "session" \in Faults \/ (csess = "down" /\ c2s = <<>>)
  /\ sess' = "down"
  /\ wait_list' = [i \in Ids |-> NoVisitor]
  /\ vst' = [v \in Visitors |-> IF Pending(v) THEN "failed" ELSE vst[v]]
  /\ dconn' = [j \in Jobs |-> IF dconn[j] \in {"open", "sent"} THEN "dropped" ELSE dconn[j]]
  /\ s2c' = Written(s2c, skept) /\ skept' = FALSE
  /\ c2s' = Kept(c2s, ckept)
  /\ UNCHANGED <<identify, vid, chan, stream, clientVars, ckept, blocked, history>>

-----------------------------------------------------------------------------
(* Client *)

\* The client lets go of its end of the data connection of job j.
Hangup(j) == dconn' = [dconn EXCEPT ![j] = IF @ = "open" THEN "dropped" ELSE @]

\* register_server_handle and the State::Map arm of poll_generate: a Map
\* starts a future, which refuses at once when server.select fails.
ClientRecv ==
  /\ csess = "up"
  /\ Written(s2c, skept) # <<>>
  /\ LET m == Head(s2c)
     IN IF m.type = "Map"
        THEN \E j \in Jobs :
               /\ job[j] = "none" /\ \A l \in Jobs : <<l, j>> \in Precedes => job[l] # "none"
               /\ \E s \in {"connect", "refuse"} : job' = [job EXCEPT ![j] = s]
               /\ jid' = [jid EXCEPT ![j] = m.id]
               /\ dst' = [dst EXCEPT ![j] = m.dst]
        ELSE UNCHANGED <<job, jid, dst>>
  /\ s2c' = Tail(s2c)
  /\ UNCHANGED <<serverVars, csess, target, skept, c2s, ckept, blocked, history, dconn>>

\* The two futures under join_output.  The second goes on while the first
\* reports its failure.
ConnectServer(j) ==
  /\ csess = "up"
  /\ job[j] \in {"connect", "connerr"}
  /\ dconn[j] = "none"
  /\ sess # "down"
  /\ dconn' = [dconn EXCEPT ![j] = "open"]
  /\ UNCHANGED <<serverVars, clientVars, wire, history>>

ConnectTarget(j) ==
  /\ csess = "up"
  /\ job[j] \in {"connect", "connerr"}
  /\ ~target[j]
  /\ target' = [target EXCEPT ![j] = TRUE]
  /\ UNCHANGED <<serverVars, csess, job, jid, dst, wire, history, dconn>>

ConnectFails(j) ==
  /\ csess = "up"
  /\ job[j] = "connect"
  /\ dconn[j] = "none" \/ ~target[j]
  /\ job' = [job EXCEPT ![j] = "connerr"]
  /\ UNCHANGED <<serverVars, csess, jid, dst, target, wire, history, dconn>>

\* Both connections are there: decorate, whose failure ends the future without
\* a word to the server.
Connected(j) ==
  /\ csess = "up"
  /\ job[j] = "connect"
  /\ dconn[j] # "none" /\ target[j]
  /\ \/ job' = [job EXCEPT ![j] = "send"] /\ UNCHANGED dconn
     \/ "io" \in Faults /\ job' = [job EXCEPT ![j] = "failed"] /\ Hangup(j)
  /\ UNCHANGED <<serverVars, csess, jid, dst, target, wire, history>>

\* wait_for around join_output, or a MapError of async_connect that cannot be
\* written: the future ends without a word to the server.
ClientTimeout(j) ==
  /\ csess = "up"
  /\ \/ "timeout" \in Faults /\ job[j] \in {"connect", "connerr"}
     \/ "io" \in Faults /\ job[j] = "connerr"
  /\ job' = [job EXCEPT ![j] = "failed"]
  /\ Hangup(j)
  /\ UNCHANGED <<serverVars, csess, jid, dst, target, wire, history>>

\* Map(id, target) on the data connection.  A connection the server dropped
\* may still take the bytes; when it does not, the failure is reported.
SendMap(j) ==
  /\ csess = "up"
  /\ job[j] = "send"
  /\ \/ /\ job' = [job EXCEPT ![j] = "ready"]
        /\ dconn' = [dconn EXCEPT ![j] = IF @ = "open" THEN "sent" ELSE @]
     \/ /\ dconn[j] = "dropped" \/ "io" \in Faults
        /\ job' = [job EXCEPT ![j] = "refuse"]
        /\ Hangup(j)
  /\ UNCHANGED <<serverVars, csess, jid, dst, target, wire, history>>

\* One poll of the send, as in NotifyClient.
SendMapError(j) ==
  /\ csess = "up"
  /\ job[j] \in {"connerr", "refuse"}
  /\ \/ /\ ClientEncrypts(MapError(jid[j], j))
        /\ denied' = denied \cup {j}
        /\ twice' = twice \cup (IF j \in denied THEN {jid[j]} ELSE {})
     \/ ClientFlushes /\ UNCHANGED <<denied, twice>>
  /\ IF ckept' THEN UNCHANGED <<job, dconn>>
               ELSE job' = [job EXCEPT ![j] = "failed"] /\ Hangup(j)
  /\ UNCHANGED <<serverVars, csess, jid, dst, target, asked>>

ClientHeartbeat ==
  /\ csess = "up"
  /\ ClientEncrypts(Ping) \/ ClientFlushes
  /\ UNCHANGED <<serverVars, clientVars, history, dconn>>

\* State::Error in poll_generate: the futures that are not yet spawned and the
\* control connection go; a spliced connection lives on in its own task.
ClientError ==
  /\ csess = "up"
  /\ "session" \in Faults \/ (sess = "down" /\ s2c = <<>>)
  /\ csess' = "down"
  /\ job' = [j \in Jobs |->
               IF job[j] \in {"connect", "connerr", "refuse", "send"} THEN "failed" ELSE job[j]]
  /\ dconn' = [j \in Jobs |-> IF dconn[j] = "open" THEN "dropped" ELSE dconn[j]]
  /\ c2s' = Written(c2s, ckept) /\ ckept' = FALSE
  /\ s2c' = Kept(s2c, skept)
  /\ UNCHANGED <<serverVars, jid, dst, target, skept, blocked, history>>

-----------------------------------------------------------------------------
VisitorStep(v) ==
  \/ AcceptVisitor(v) \/ MockFails(v) \/ Push(v) \/ PushHangs(v) \/ NotifyClient(v)
  \/ FinishVisitor(v) \/ VisitorRefused(v) \/ VisitorTimeout(v)

DataStep(j) == ServeClient(j) \/ DropClient(j)

JobStep(j) ==
  \/ ConnectServer(j) \/ ConnectTarget(j) \/ ConnectFails(j) \/ Connected(j)
  \/ ClientTimeout(j) \/ SendMap(j) \/ SendMapError(j)

Next ==
  \/ \E v \in Visitors : VisitorStep(v)
  \/ \E j \in Jobs : DataStep(j) \/ JobStep(j)
  \/ HandleRecv \/ Heartbeat \/ ServerError
  \/ ClientRecv \/ ClientHeartbeat \/ ClientError

Spec == Init /\ [][Next]_vars

\* What a half reads from the control connection: packets, and then its end.
ServerReads == HandleRecv \/ (csess = "down" /\ c2s = <<>> /\ ServerError)
ClientReads == ClientRecv \/ (sess = "down" /\ s2c = <<>> /\ ClientError)

\* An armed timer fires, and a half that is up reads what there is to read.  No send and
\* no step of the client's futures is relied on.
Fairness ==
  /\ \A v \in Visitors : WF_vars(VisitorTimeout(v))
  /\ WF_vars(ServerReads) /\ WF_vars(ClientReads)

FairSpec == Spec /\ Fairness

-----------------------------------------------------------------------------
(* The inductive invariant *)

MapAt(k) == k \in 1 .. Len(s2c) /\ s2c[k].type = "Map"
ErrorAt(k) == k \in 1 .. Len(c2s) /\ c2s[k].type = "MapError"

\* The client has yet to answer for j: nothing was said so far, or on the data
\* connection, from which the server has not read it.
Unanswered(j) ==
  \/ job[j] \in {"connect", "connerr", "refuse", "send"} /\ j \notin denied
  \/ dconn[j] = "sent"

\* A visitor that holds an id has the one entry of that id, and no answer yet.
EntryInv ==
  /\ \A i \in Ids : wait_list[i] # NoVisitor =>
       /\ vid[wait_list[i]] = i /\ vst[wait_list[i]] \notin {"idle", "mock"}
       /\ chan[wait_list[i]] = "empty" /\ stream[wait_list[i]] = NoJob
  /\ \A v \in Visitors :
       vst[v] \in {"idle", "mock"} => v \notin asked /\ chan[v] = "empty" /\ stream[v] = NoJob
  /\ sess # "down" => \A v \in Visitors :
       vst[v] \in {"notify", "wait"} /\ chan[v] = "empty" => wait_list[vid[v]] = v

\* Requests and answers carry the id of the visitor they are made for, and a job is in
\* the state its connections are in.
LifeInv ==
  /\ \A k \in 1 .. Len(s2c) : MapAt(k) => s2c[k].dst \in asked /\ s2c[k].id = vid[s2c[k].dst]
  /\ \A k \in 1 .. Len(c2s) : ErrorAt(k) => c2s[k].of \in denied /\ c2s[k].id = jid[c2s[k].of]
  /\ \A j \in Jobs :
       /\ job[j] # "none" => dst[j] \in asked /\ jid[j] = vid[dst[j]]
       /\ job[j] = "none" => dst[j] = NoVisitor /\ dconn[j] = "none"
       /\ dconn[j] \in {"sent", "taken"} => job[j] = "ready"
       /\ job[j] \in {"send", "ready"} => target[j] /\ dconn[j] # "none"
       /\ j \in denied => job[j] \in {"connerr", "refuse", "failed"}
  /\ \A v \in Visitors : stream[v] # NoJob => chan[v] = "full" /\ dconn[stream[v]] = "taken"

\* The request of a visitor is in one place, in s2c, at the client or in c2s, unless it
\* was encrypted twice.
OnceInv ==
  /\ \A k, l \in 1 .. Len(s2c) :
       MapAt(k) /\ MapAt(l) /\ s2c[k].dst = s2c[l].dst => k = l \/ s2c[k].id \in twice
  /\ \A k \in 1 .. Len(s2c) : \A j \in Jobs :
       MapAt(k) /\ dst[j] = s2c[k].dst => s2c[k].id \in twice
  /\ \A j, l \in Jobs : dst[j] = dst[l] => j = l \/ dst[j] = NoVisitor \/ jid[j] \in twice
  /\ \A k, l \in 1 .. Len(c2s) :
       ErrorAt(k) /\ ErrorAt(l) /\ c2s[k].of = c2s[l].of => k = l \/ c2s[k].id \in twice

\* Wherever it is, its id is still reserved for that visitor: the entry of an
\* id outlives a visitor that timed out until the client's answer is in.
ReservedInv ==
  sess # "down" =>
    /\ \A k \in 1 .. Len(s2c) :
         MapAt(k) /\ s2c[k].id \notin twice => wait_list[s2c[k].id] = s2c[k].dst
    /\ \A k \in 1 .. Len(c2s) :
         ErrorAt(k) /\ c2s[k].id \notin twice => wait_list[c2s[k].id] = dst[c2s[k].of]
    /\ \A j \in Jobs : Unanswered(j) /\ jid[j] \notin twice => wait_list[jid[j]] = dst[j]

-----------------------------------------------------------------------------
(* Safety *)

\* A visitor is only ever given a data connection the client opened for its own Map,
\* with the destination connected behind it: no id reuse, timeout or late answer
\* crosses two visitors (mqueue.remove, tx.send, accept_ax.recv), unless a Map or
\* MapError of that id was encrypted twice.  Even then, no connection is given away
\* twice, and none to a visitor with another id.
RouteCorrect ==
  /\ \A v \in Visitors :
       /\ chan[v] = "full" \/ vst[v] = "routed" => stream[v] # NoJob
       /\ stream[v] # NoJob =>
            /\ job[stream[v]] = "ready" /\ target[stream[v]] /\ jid[stream[v]] = vid[v]
            /\ dst[stream[v]] = v \/ vid[v] \in twice
  /\ \A u, v \in Visitors : stream[u] = stream[v] => u = v \/ stream[u] = NoJob

\* poll_handle_recv closes the channel of a visitor only on the client's refusal of
\* that very visitor, never of an earlier holder of its id, with the same exception.
RefusalCorrect ==
  \A v \in Visitors : chan[v] = "closed" =>
    /\ stream[v] = NoJob
    /\ (\E j \in denied : dst[j] = v) \/ vid[v] \in twice

\* The strengthening that makes RouteCorrect and RefusalCorrect inductive: the
\* id of every request or answer under way is reserved in wait_list for the
\* visitor it was made for, whatever became of that visitor's future.
IndInv ==
  TypeOK /\ EntryInv /\ LifeInv /\ OnceInv /\ ReservedInv /\ RouteCorrect /\ RefusalCorrect

\* The requests and answers under way with one id: Map and MapError on the control
\* connection, and jobs of the client up to the MapError, or the Map on their data
\* connection.
UnderWay(i) ==
  {<<"s2c", k>> : k \in {n \in 1 .. Len(s2c) : MapAt(n) /\ s2c[n].id = i}}
    \cup {<<"c2s", k>> : k \in {n \in 1 .. Len(c2s) : ErrorAt(n) /\ c2s[n].id = i}}
    \cup {<<"job", j>> : j \in {l \in Jobs : Unanswered(l) /\ jid[l] = i}}

\* No id is outstanding twice: of all requests and answers under way at most one carries
\* an id, although push hands out a removed id at once, unless the encryptor made two
\* packets of one.
DistinctIds == sess # "down" => \A i \in Ids \ twice : \A x, y \in UnderWay(i) : x = y

\* The endless loop of push needs more unanswered visitors than there are ids:
\* an answer gives its id back, wherever the search starts, and every entry,
\* leaked or not, is the entry of a visitor of its own.
HangsOnlyWhenExhausted ==
  sess = "hung" =>
    Cardinality({v \in Visitors : vst[v] # "idle" /\ chan[v] = "empty"}) > IdMod

\* The answer of the client for j is read by the server.
AnswerRead(j) ==
  \/ c2s # <<>> /\ Head(c2s) = MapError(jid[j], j) /\ c2s' = Tail(c2s)
  \/ dconn[j] = "sent" /\ dconn'[j] # "sent"

FreedStep ==
  \A i \in Ids :
    wait_list[i] # NoVisitor /\ wait_list'[i] # wait_list[i] =>
      \/ sess' = "down"
      \/ \E j \in Jobs :
           jid[j] = i /\ AnswerRead(j) /\ (dst[j] = wait_list[i] \/ i \in twice)

\* An entry leaves wait_list only when the client's answer to it arrives, or
\* with the session: a timeout of the visitor never frees the id.  The answer is to
\* the visitor of the entry, with the same exception.
FreedByAnswer == [][FreedStep]_vars

-----------------------------------------------------------------------------
(* The abstract specification *)

Phase ==
  [v \in Visitors |->
     IF vst[v] = "idle" THEN "new"
     ELSE IF Pending(v) THEN "pending"
     ELSE IF vst[v] = "routed" THEN "joined"
     ELSE "failed"]

Peer == [v \in Visitors |-> IF vst[v] = "routed" THEN stream[v] ELSE NoJob]

\* The visitors whose id had a packet encrypted twice.
Crossed == {v \in Visitors : vst[v] \notin {"idle", "mock"} /\ vid[v] \in twice}

Promise == INSTANCE Rendezvous
  WITH Connections <- Jobs, NoConnection <- NoJob,
       phase <- Phase, peer <- Peer, made <- dst, crossed <- Crossed

\* The session keeps the promise of Rendezvous: one outcome per visitor, final, and a
\* joined visitor is joined with a connection of its own, one that was made for it
\* unless the encryptor made two packets of one that carried its id.
KeepsPromise == Promise!Spec

-----------------------------------------------------------------------------
(* Liveness *)

\* wait_for(maximum_wait) bounds the whole future of a visitor: unless push
\* hangs, a visitor is never left waiting, whatever the client does.
VisitorsResolved ==
  \A v \in Visitors : Pending(v) ~> (~Pending(v) \/ sess = "hung")

\* Neither half outlives the other: the end of a session is read as an error
\* on the control connection by the half that is left, unless that half hangs.
SessionsEndTogether ==
  "down" \in {sess, csess} ~> (csess = "down" /\ sess \in {"down", "hung"})
=============================================================================
