----------------------------- MODULE KcpSessions -----------------------------
(***************************************************************************)
(* Many KCP conversations between one KcpConnector and one KcpListener     *)
(* over one pair of UDP sockets (net/kcp/mod.rs): how connect chooses the  *)
(* number of a conversation, how a datagram finds its session by that      *)
(* number, and how the numbers of sessions that ended are kept for thirty  *)
(* seconds and then used again.  What happens within a conversation is     *)
(* KcpLink; of its handshakes only CLS, CLF and their timer are kept here. *)
(***************************************************************************)
EXTENDS Integers, FiniteSets

CONSTANTS
  Streams,    \* calls of connect
  NoStream,   \* not one of them
  ConvMod,    \* conversations are numbered modulo this, 2^32 in the code
  Held,       \* numbers of other streams of the connector, open all the time
  MaxNet      \* bound: nothing is sent unasked while that much is under way

ASSUME SessionsAssumption ==
  /\ NoStream \notin Streams /\ ConvMod \in Nat \ {0} /\ MaxNet \in Nat
  /\ Held \subseteq 0..(ConvMod - 1)

Convs == 0..(ConvMod - 1)

VARIABLES
  increment,  \* where the search for a number starts
  st,         \* st[c]: the connect of c, then its stream
  conv,       \* conv[c]: the number it chose
  core,       \* core[c]: the control block of c at the connector
  sessions,   \* sessions[k]: entry of the connector's map
  manager,    \* manager[k]: entry of the listener's map
  lcore,      \* lcore[k]: the control block behind manager[k]
  net,        \* datagrams under way
  overlapped, \* history: streams whose connect overlapped with another one
  untidy,     \* history: streams of which an end stopped without a word, which were
              \* refused because the listener still buried another's session, or whose
              \* number was given up while a CLF was under way with it
  mixed       \* history: <<c, d>> when a session of c took a datagram of d # c

history == <<overlapped, untidy, mixed>>
vars == <<increment, st, conv, core, sessions, manager, lcore, net, history>>

\* A block is "closing" while its CLS is not answered and "ended" when its task is
\* over; a KLife::Dead becomes "old" when thirty seconds have passed.
Core == {"none", "open", "closing", "ended", "cleaned"}
Entry == [kind : {"none", "active", "dead", "old"}, of : Streams \union {NoStream}]
Datagram == [to : {"connector", "listener"}, conv : Convs, of : Streams,
             type : {"data", "cls", "clf"}]

Free == [kind |-> "none", of |-> NoStream]
Active(c) == [kind |-> "active", of |-> c]

Init ==
  /\ increment = 1 % ConvMod
  /\ st = [c \in Streams |-> "idle"]
  /\ conv = [c \in Streams |-> 0]
  /\ core = [c \in Streams |-> "none"]
  /\ sessions = [k \in Convs |-> IF k \in Held THEN Active(NoStream) ELSE Free]
  /\ manager = [k \in Convs |-> Free]
  /\ lcore = [k \in Convs |-> "none"]
  /\ net = {}
  /\ overlapped = {} /\ untidy = {} /\ mixed = {}

Msg(to, k, c, type) == [to |-> to, conv |-> k, of |-> c, type |-> type]

-----------------------------------------------------------------------------
(* KcpConnector::connect                                                   *)

Overlaps(c) ==
  LET others == {d \in Streams : st[d] = "chosen"}
  IN overlapped' = overlapped \union others \union (IF others = {} THEN {} ELSE {c})

\* Mutant: the current number is taken without a look at the map.
ChooseCurrent(c) ==
  /\ st[c] = "idle"
  /\ conv' = [conv EXCEPT ![c] = increment]
  /\ st' = [st EXCEPT ![c] = "chosen"]
  /\ Overlaps(c)
  /\ UNCHANGED <<increment, core, sessions, manager, lcore, net, untidy, mixed>>

\* Mutant: the next number is counted without regard to overflow.
ChooseUnwrapped(c) ==
  /\ st[c] = "idle"
  /\ \E n \in 0..(ConvMod - 1) :
       /\ \A m \in 0..(n - 1) : sessions[(increment + m) % ConvMod].kind # "none"
       /\ sessions[(increment + n) % ConvMod].kind = "none"
       /\ conv' = [conv EXCEPT ![c] = increment + n]
       /\ increment' = increment + n
  /\ st' = [st EXCEPT ![c] = "chosen"]
  /\ Overlaps(c)
  /\ UNCHANGED <<core, sessions, manager, lcore, net, untidy, mixed>>

\* The search holds the lock of the map and leaves increment at the number found.
Choose(c) ==
  /\ st[c] = "idle"
  /\ \E n \in 0..(ConvMod - 1) :
       /\ \A m \in 0..(n - 1) : sessions[(increment + m) % ConvMod].kind # "none"
       /\ sessions[(increment + n) % ConvMod].kind = "none"
       /\ conv' = [conv EXCEPT ![c] = (increment + n) % ConvMod]
       /\ increment' = (increment + n) % ConvMod
  /\ st' = [st EXCEPT ![c] = "chosen"]
  /\ Overlaps(c)
  /\ UNCHANGED <<core, sessions, manager, lcore, net, untidy, mixed>>

NoMoreConv(c) ==
  /\ st[c] = "idle" /\ \A k \in Convs : sessions[k].kind # "none"
  /\ st' = [st EXCEPT ![c] = "failed"]
  /\ UNCHANGED <<increment, conv, core, sessions, manager, lcore, net, history>>

\* It is taken again for the insertion, which replaces whatever is there by now.
Insert(c) ==
  /\ st[c] = "chosen"
  /\ st' = [st EXCEPT ![c] = "open"]
  /\ core' = [core EXCEPT ![c] = "open"]
  /\ sessions' = [sessions EXCEPT ![conv[c]] = Active(c)]
  /\ UNCHANGED <<increment, conv, manager, lcore, net, history>>

-----------------------------------------------------------------------------
(* Control blocks and their tasks.                                         *)

SetCore(c, s) == core' = [core EXCEPT ![c] = s]
SetLcore(k, s) == lcore' = [lcore EXCEPT ![k] = s]

ConnectorSends(c) ==
  /\ Cardinality(net) < MaxNet
  /\ \/ core[c] = "open" /\ net' = net \union {Msg("listener", conv[c], c, "data")}
     \/ core[c] = "closing" /\ net' = net \union {Msg("listener", conv[c], c, "cls")}
  /\ UNCHANGED <<increment, st, conv, core, sessions, manager, lcore, history>>

ListenerSends(k) ==
  /\ Cardinality(net) < MaxNet
  /\ \/ lcore[k] = "open" /\ net' = net \union {Msg("connector", k, manager[k].of, "data")}
     \/ lcore[k] = "closing" /\ net' = net \union {Msg("connector", k, manager[k].of, "cls")}
  /\ UNCHANGED <<increment, st, conv, core, sessions, manager, lcore, history>>

\* The callback of a stream closes the session its number leads to.
CloseStream(c) ==
  /\ st[c] = "open"
  /\ st' = [st EXCEPT ![c] = "closed"]
  /\ LET s == sessions[conv[c]]
     IN IF s.kind = "active" /\ core[s.of] = "open" THEN SetCore(s.of, "closing")
                                                    ELSE UNCHANGED core
  /\ UNCHANGED <<increment, conv, sessions, manager, lcore, net, history>>

CloseAccepted(k) ==
  /\ lcore[k] = "open" /\ SetLcore(k, "closing")
  /\ UNCHANGED <<increment, st, conv, core, sessions, manager, net, history>>

\* Ten seconds in KCP_CLS_WAIT, a dead link or an I/O error: the task ends, and
\* whether the peer was told is not known.
ConnectorStops(c) ==
  /\ core[c] \in {"open", "closing"} /\ SetCore(c, "ended")
  /\ untidy' = untidy \union {c}
  /\ UNCHANGED <<increment, st, conv, sessions, manager, lcore, net, overlapped, mixed>>

ListenerStops(k) ==
  /\ lcore[k] \in {"open", "closing"} /\ SetLcore(k, "ended")
  /\ untidy' = untidy \union {manager[k].of}
  /\ UNCHANGED <<increment, st, conv, core, sessions, manager, net, overlapped, mixed>>

\* clean_callback goes by the number as well: the entry it buries, and closes, may
\* be that of a later session.
Clean(c) ==
  /\ core[c] = "ended"
  /\ LET k == conv[c]  s == sessions[k]
     IN IF s.kind = "active"
        THEN /\ sessions' = [sessions EXCEPT ![k].kind = "dead"]
             /\ core' = [core EXCEPT ![c] = "cleaned",
                                     ![s.of] = IF s.of = c THEN "cleaned"
                                               ELSE IF @ = "open" THEN "closing" ELSE @]
        ELSE SetCore(c, "cleaned") /\ UNCHANGED sessions
  /\ UNCHANGED <<increment, st, conv, manager, lcore, net, history>>

CleanAccepted(k) ==
  /\ lcore[k] = "ended" /\ SetLcore(k, "cleaned")
  /\ manager' = [manager EXCEPT ![k].kind = "dead"]
  /\ UNCHANGED <<increment, st, conv, core, sessions, net, history>>

-----------------------------------------------------------------------------
(* Thirty seconds.                                                         *)

\* A number that two connects which overlapped have both chosen.
Tangled(k) == \E c \in overlapped : conv[c] = k

\* A number all of whose streams were chosen apart and ended at both ends by CLS and CLF,
\* the last of which had arrived or was lost when the connector gave the number up.
Orderly(k) == ~Tangled(k) /\ \A c \in untidy : conv[c] # k

\* A session that was closing has run into its ten seconds by then.
Settled(k) ==
  /\ lcore[k] \notin {"closing", "ended"}
  /\ \A c \in Streams : conv[c] = k => core[c] \notin {"closing", "ended"}

\* Two ends that are dead answer CLF with CLF all the while: some may be under way yet.
Refusals(k) == {m \in net : m.conv = k /\ m.type = "clf"}

\* Of an orderly number, which both ends gave up by CLS and CLF within seconds of each
\* other, nothing else has been sent for long, unless by a session that is open: it has
\* arrived or is lost.  Of any other, a session may have sent something just before.
StillUnderWay(k, late) ==
  {m \in net : \/ m.conv # k \/ ~Orderly(k) \/ m \in late
               \/ /\ m.type # "clf"
                  /\ IF m.to = "connector" THEN lcore[k] = "open"
                     ELSE \E c \in Streams : conv[c] = k /\ core[c] = "open"}

\* Mutant: the number of a session is free as soon as the session has ended.
AgesAtOnce(k) ==
  /\ sessions[k].kind = "dead"
  /\ sessions' = [sessions EXCEPT ![k].kind = "old"]
  /\ UNCHANGED <<increment, st, conv, core, manager, lcore, net, history>>

Ages(k) ==
  /\ sessions[k].kind = "dead" /\ Settled(k)
  /\ sessions' = [sessions EXCEPT ![k].kind = "old"]
  /\ \E late \in SUBSET Refusals(k) :
       /\ net' = StillUnderWay(k, late)
       /\ untidy' = untidy \union (IF late = {} THEN {} ELSE {sessions[k].of})
  /\ UNCHANGED <<increment, st, conv, core, manager, lcore, overlapped, mixed>>

AgesAccepted(k) ==
  /\ manager[k].kind = "dead" /\ Settled(k)
  /\ manager' = [manager EXCEPT ![k].kind = "old"]
  /\ \E late \in SUBSET Refusals(k) : net' = StillUnderWay(k, late)
  /\ UNCHANGED <<increment, st, conv, core, sessions, lcore, history>>

Retain(map) == [k \in Convs |-> IF map[k].kind = "old" THEN Free ELSE map[k]]

-----------------------------------------------------------------------------
(* run_connect and run_accept.                                             *)

Foreign(c, d) == IF c = d THEN {} ELSE {<<c, d>>}

\* The connector refuses with CLF what belongs to no session of its own.
ConnectorReceives(m) ==
  /\ m.to = "connector"
  /\ sessions' = Retain(sessions)
  /\ LET s == sessions'[m.conv]
         reply == IF s.kind # "active" THEN {Msg("listener", m.conv, m.of, "clf")}
                  ELSE IF m.type = "cls" /\ core[s.of] = "open"
                       THEN {Msg("listener", m.conv, s.of, "cls")} ELSE {}
     IN /\ net' = (net \ {m}) \union reply
        /\ IF s.kind = "active" /\ m.type # "data" /\ core[s.of] \in {"open", "closing"}
           THEN SetCore(s.of, "ended") ELSE UNCHANGED core
        /\ mixed' = mixed \union (IF s.kind = "active" THEN Foreign(s.of, m.of) ELSE {})
  /\ UNCHANGED <<increment, st, conv, manager, lcore, overlapped, untidy>>

\* The listener opens a session for it, even when it is a CLF that refuses one.
ListenerReceives(m) ==
  /\ m.to = "listener"
  /\ LET map == Retain(manager)
         new == map[m.conv].kind = "none"
         of == IF new THEN m.of ELSE map[m.conv].of
         state == IF new THEN "open" ELSE lcore[m.conv]
         dead == map[m.conv].kind = "dead"
         reply == IF dead THEN {Msg("connector", m.conv, m.of, "clf")}
                  ELSE IF m.type = "cls" /\ state = "open"
                       THEN {Msg("connector", m.conv, of, "cls")} ELSE {}
     IN /\ manager' = IF new THEN [map EXCEPT ![m.conv] = Active(of)] ELSE map
        /\ net' = (net \ {m}) \union reply
        /\ lcore' = [k \in Convs |->
             IF k = m.conv /\ ~dead
             THEN IF m.type # "data" /\ state \in {"open", "closing"} THEN "ended" ELSE state
             ELSE IF map[k].kind = "none" THEN "none" ELSE lcore[k]]
        /\ mixed' = mixed \union (IF dead THEN {} ELSE Foreign(of, m.of))
        /\ untidy' = untidy \union (IF dead /\ of # m.of THEN {m.of} ELSE {})
  /\ UNCHANGED <<increment, st, conv, core, sessions, overlapped>>

\* Datagrams of the other streams: each end looks through its map for every one of them.
ConnectorReceivesHeld ==
  /\ Held # {} /\ sessions' = Retain(sessions)
  /\ UNCHANGED <<increment, st, conv, core, manager, lcore, net, history>>

ListenerReceivesHeld ==
  /\ Held # {} /\ manager' = Retain(manager)
  /\ lcore' = [k \in Convs |-> IF manager'[k].kind = "none" THEN "none" ELSE lcore[k]]
  /\ UNCHANGED <<increment, st, conv, core, sessions, net, history>>

-----------------------------------------------------------------------------
Next ==
  \/ \E c \in Streams :
       \/ Choose(c) \/ NoMoreConv(c) \/ Insert(c) \/ CloseStream(c)
       \/ ConnectorSends(c) \/ ConnectorStops(c) \/ Clean(c)
  \/ \E k \in Convs :
       \/ ListenerSends(k) \/ CloseAccepted(k) \/ ListenerStops(k) \/ CleanAccepted(k)
       \/ Ages(k) \/ AgesAccepted(k)
  \/ \E m \in net : ConnectorReceives(m) \/ ListenerReceives(m)
  \/ ConnectorReceivesHeld \/ ListenerReceivesHeld

Spec == Init /\ [][Next]_vars

-----------------------------------------------------------------------------
(* Properties.                                                             *)

TypeOK ==
  /\ increment \in Convs
  /\ st \in [Streams -> {"idle", "chosen", "open", "closed", "failed"}]
  /\ conv \in [Streams -> Convs]
  /\ core \in [Streams -> Core] /\ lcore \in [Convs -> Core]
  /\ sessions \in [Convs -> Entry] /\ manager \in [Convs -> Entry]
  /\ net \subseteq Datagram
  /\ overlapped \subseteq Streams /\ untidy \subseteq Streams
  /\ mixed \subseteq Streams \X Streams
  /\ \A k \in Convs : /\ (sessions[k].kind = "none" \/ k \in Held) <=> sessions[k].of = NoStream
                      /\ manager[k].kind = "none" <=> manager[k].of = NoStream

Live(c) == core[c] \in {"open", "closing", "ended"}

\* Two sessions of the connector have the same number only if connects overlapped:
\* the number is looked up under one lock and put in the map under another.
SharedOnlyIfOverlapped ==
  \A c, d \in Streams : c # d /\ Live(c) /\ Live(d) /\ conv[c] = conv[d] => Tangled(conv[c])

\* A stream that is still open although its session is over and buried.
Outlived(k) == \E c \in Streams : conv[c] = k /\ st[c] = "open" /\ core[c] = "cleaned"

\* The stream, and the callback that cleans up, close no session but their own, short
\* of such an overlap, or of a stream that is closed only after its number was given
\* to another: both find the session by its number.
ClosesOwn ==
  [][\A c \in Streams :
       core[c] = "open" /\ core'[c] = "closing" /\ ~Tangled(conv[c]) /\ ~Outlived(conv[c])
         => st[c] = "open" /\ st'[c] = "closed"]_vars

\* Thirty seconds of KLife::Dead are enough for an orderly number: used again, it leads
\* to no session of a former stream, at either end.  Of the CLFs with which two dead ends
\* answer each other none may be under way by then: it would end the next stream.
NeverMixed == \A p \in mixed : ~Orderly(conv[p[1]])
=============================================================================
