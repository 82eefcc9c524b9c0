------------------------------- MODULE Session -------------------------------
(***************************************************************************)
(* How a client gets a session and gets it back: the reconnect loop of     *)
(* Client::run (client/mod.rs), the task Server::run spawns for each       *)
(* connection (server/mod.rs), the key exchange between them               *)
(* (net/penetrate/handshake/mod.rs) and the set-up dialogue                *)
(*   Bind::Setup -> Bind::Success | Bind::Failed, config -> YES | error    *)
(* of PenetrateClientProvider (client.rs) and PenetrateProvider            *)
(* (server.rs).  What a session does once it is up is module Tunnel.       *)
(*                                                                         *)
(* One client that always asks for the same ports talks to one server over *)
(* connections taken from a pool; an old connection may outlive its        *)
(* client, whose port the server then still holds.                         *)
(***************************************************************************)
EXTENDS Naturals, Sequences, FiniteSets

CONSTANTS
  Conns,        \* connections that can exist at a time
  NoConn,       \* not a connection
  Limits,       \* values of maximum_retries: {} for None, {n} for Some(n)
  RetryCap,     \* bound on retries_count
  Faults,       \* which of "reset", "cut", "cutsetup", "crash", "restart", "config" happen
  MaxFaults     \* bound on their number

ASSUME NoConnAssumption == NoConn \notin Conns
ASSUME RetriesAssumption == Limits \subseteq SUBSET Nat /\ RetryCap \in Nat
ASSUME FaultsAssumption ==
  Faults \subseteq {"reset", "cut", "cutsetup", "crash", "restart", "config"} /\ MaxFaults \in Nat

VARIABLES
  pc,         \* the client: what it waits for
  cur,        \* the connection it uses
  limit,      \* maximum_retries, as configured
  retries,    \* retries_count
  link,       \* "free", "up", "cut" (silently lost) or "reset"
  copen,      \* has the client its end open
  sst,        \* the server task of a connection: what it waits for
  ready,      \* has that task sent YES
  c2s, s2c,   \* what is in flight
  listening,  \* is the server up
  faults      \* faults so far

clientVars == <<pc, cur, limit, retries, copen>>
serverVars == <<sst, ready, listening>>
netVars == <<link, c2s, s2c>>
vars == <<clientVars, serverVars, netVars, faults>>

Setting == {"srvkey", "reply", "yes"}      \* client, on a connection
Waiting == {"key", "ivkey", "setup", "config"}   \* server, before YES
Exited == {"exit_retries", "exit_handshake"}
Message == {"key", "srvkey", "ivkey", "setup", "success", "failed", "config", "yes", "bad"}

TypeOK ==
  /\ pc \in {"connect", "serve"} \cup Setting \cup Exited
  /\ cur \in Conns \cup {NoConn}
  /\ cur = NoConn <=> pc \in {"connect"} \cup Exited
  /\ limit \in Limits
  /\ retries \in 0 .. RetryCap
  /\ link \in [Conns -> {"free", "up", "cut", "reset"}]
  /\ copen \in [Conns -> BOOLEAN]
  /\ sst \in [Conns -> {"none", "serve", "gone"} \cup Waiting]
  /\ ready \in [Conns -> BOOLEAN]
  /\ c2s \in [Conns -> Seq(Message)]
  /\ s2c \in [Conns -> Seq(Message)]
  /\ listening \in BOOLEAN
  /\ faults \in 0 .. MaxFaults

Init ==
  /\ pc = "connect"
  /\ cur = NoConn
  /\ limit \in Limits
  /\ retries = 0
  /\ link = [c \in Conns |-> "free"]
  /\ copen = [c \in Conns |-> FALSE]
  /\ sst = [c \in Conns |-> "none"]
  /\ ready = [c \in Conns |-> FALSE]
  /\ c2s = [c \in Conns |-> <<>>]
  /\ s2c = [c \in Conns |-> <<>>]
  /\ listening \in BOOLEAN
  /\ faults = 0

-----------------------------------------------------------------------------
(* Connections.  What is sent on a lost connection disappears. *)

Sent(ch, c, msgs) == [ch EXCEPT ![c] = IF link[c] = "up" THEN @ \o msgs ELSE @]
Taken(ch, c) == [ch EXCEPT ![c] = Tail(@)]

Fault(kind) == kind \in Faults /\ faults < MaxFaults /\ faults' = faults + 1

Arrived(ch, c, m) == link[c] \in {"up", "cut"} /\ ch[c] # <<>> /\ Head(ch[c]) = m

\* The ends learn of the other's close, or of a reset, by reading.
ClientReadsError(c) ==
  link[c] = "reset" \/ (link[c] = "up" /\ sst[c] = "gone" /\ s2c[c] = <<>>)

ServerReadsError(c) ==
  link[c] = "reset" \/ (link[c] = "up" /\ ~copen[c] /\ c2s[c] = <<>>)

Reclaim(c) ==
  /\ link[c] # "free"
  /\ ~copen[c] /\ sst[c] = "gone"
  /\ link' = [link EXCEPT ![c] = "free"]
  /\ sst' = [sst EXCEPT ![c] = "none"]
  /\ ready' = [ready EXCEPT ![c] = FALSE]
  /\ c2s' = [c2s EXCEPT ![c] = <<>>]
  /\ s2c' = [s2c EXCEPT ![c] = <<>>]
  /\ UNCHANGED <<clientVars, listening, faults>>

-----------------------------------------------------------------------------
(* Client::run *)

\* Mutant: the connection is kept when the loop starts over.
LeaveKeeps(next) ==
  /\ pc' = next
  /\ UNCHANGED <<cur, copen>>

Leave(next) ==
  /\ pc' = next
  /\ cur' = NoConn
  /\ copen' = [copen EXCEPT ![cur] = FALSE]

\* connect succeeds; client_handshake sends its public key.
Connect(c) ==
  /\ pc = "connect"
  /\ link[c] = "free"
  /\ listening
  /\ pc' = "srvkey"
  /\ cur' = c
  /\ link' = [link EXCEPT ![c] = "up"]
  /\ copen' = [copen EXCEPT ![c] = TRUE]
  /\ c2s' = [c2s EXCEPT ![c] = <<"key">>]
  /\ UNCHANGED <<limit, retries, s2c, serverVars, faults>>

ConnectFails ==
  /\ pc = "connect"
  /\ ~listening
  /\ IF \E n \in limit : n > retries
     THEN pc' = "exit_retries" /\ UNCHANGED retries
     ELSE retries' = (IF retries < RetryCap THEN retries + 1 ELSE retries) /\ UNCHANGED pc
  /\ UNCHANGED <<cur, limit, copen, serverVars, netVars, faults>>

\* The handshake ends with iv and key; the handler then sends Bind::Setup.
Handshake ==
  /\ pc = "srvkey"
  /\ Arrived(s2c, cur, "srvkey")
  /\ pc' = "reply"
  /\ s2c' = Taken(s2c, cur)
  /\ c2s' = Sent(c2s, cur, <<"ivkey", "setup">>)
  /\ UNCHANGED <<cur, limit, retries, copen, link, serverVars, faults>>

\* A failed handshake ends the program.
HandshakeFails ==
  /\ pc = "srvkey"
  /\ ClientReadsError(cur)
  /\ Leave("exit_handshake")
  /\ UNCHANGED <<limit, retries, serverVars, netVars, faults>>

\* Mutant: the client serves as soon as the ports are bound.
BoundNoConfig ==
  /\ pc = "reply"
  /\ Arrived(s2c, cur, "success")
  /\ pc' = "serve"
  /\ s2c' = Taken(s2c, cur)
  /\ c2s' = Sent(c2s, cur, <<"config">>)
  /\ UNCHANGED <<cur, limit, retries, copen, link, serverVars, faults>>

Bound ==
  /\ pc = "reply"
  /\ Arrived(s2c, cur, "success")
  /\ pc' = "yes"
  /\ s2c' = Taken(s2c, cur)
  /\ c2s' = Sent(c2s, cur, <<"config">>)
  /\ UNCHANGED <<cur, limit, retries, copen, link, serverVars, faults>>

Configured ==
  /\ pc = "yes"
  /\ Arrived(s2c, cur, "yes")
  /\ pc' = "serve"
  /\ s2c' = Taken(s2c, cur)
  /\ UNCHANGED <<cur, limit, retries, copen, link, c2s, serverVars, faults>>

\* Bind::Failed, an answer that is not YES, or a read error: sleep, start over.
SetupFails ==
  /\ \/ pc = "reply" /\ Arrived(s2c, cur, "failed")
     \/ pc = "yes" /\ Arrived(s2c, cur, "bad")
     \/ pc \in {"reply", "yes"} /\ ClientReadsError(cur)
  /\ Leave("connect")
  /\ UNCHANGED <<limit, retries, serverVars, netVars, faults>>

\* State::Error of the generator: a read error, or a heartbeat that cannot be
\* written any more.
SessionFails ==
  /\ pc = "serve"
  /\ ClientReadsError(cur) \/ link[cur] = "cut"
  /\ Leave("connect")
  /\ UNCHANGED <<limit, retries, serverVars, netVars, faults>>

-----------------------------------------------------------------------------
(* The task of a connection in Server::run *)

\* Which task has the listeners of the client's ports.
Holds(c) == sst[c] \in {"config", "serve"}

Accept(c) ==
  /\ listening
  /\ link[c] # "free" /\ sst[c] = "none"
  /\ sst' = [sst EXCEPT ![c] = "key"]
  /\ UNCHANGED <<clientVars, ready, listening, netVars, faults>>

Step(c, at, m, next, reply) ==
  /\ sst[c] = at
  /\ Arrived(c2s, c, m)
  /\ sst' = [sst EXCEPT ![c] = next]
  /\ c2s' = Taken(c2s, c)
  /\ s2c' = Sent(s2c, c, reply)
  /\ UNCHANGED <<clientVars, listening, link>>

ServerHandshake(c) ==
  /\ \/ Step(c, "key", "key", "ivkey", <<"srvkey">>)
     \/ Step(c, "ivkey", "ivkey", "setup", <<>>)
  /\ UNCHANGED <<ready, faults>>

Bind(c) ==
  /\ IF \E d \in Conns : Holds(d)
     THEN Step(c, "setup", "setup", "gone", <<"failed">>)
     ELSE Step(c, "setup", "setup", "config", <<"success">>)
  /\ UNCHANGED <<ready, faults>>

Start(c) ==
  /\ Step(c, "config", "config", "serve", <<"yes">>)
  /\ ready' = [ready EXCEPT ![c] = TRUE]
  /\ UNCHANGED faults

\* The configuration does not deserialize.
StartFails(c) ==
  /\ Fault("config")
  /\ Step(c, "config", "config", "gone", <<"bad">>)
  /\ UNCHANGED ready

\* Mutant: the server relies on reading alone, it sends no heartbeat.
TaskFailsNoHeartbeat(c) ==
  /\ sst[c] \in Waiting \cup {"serve"} /\ ServerReadsError(c)
  /\ sst' = [sst EXCEPT ![c] = "gone"]
  /\ UNCHANGED <<clientVars, ready, listening, netVars, faults>>

\* A read error at any point, or a heartbeat that cannot be written: the task
\* ends and its listeners are dropped.
TaskFails(c) ==
  /\ \/ sst[c] \in Waiting \cup {"serve"} /\ ServerReadsError(c)
     \/ sst[c] = "serve" /\ link[c] = "cut"
  /\ sst' = [sst EXCEPT ![c] = "gone"]
  /\ UNCHANGED <<clientVars, ready, listening, netVars, faults>>

-----------------------------------------------------------------------------
(* Faults *)

Reset(c) ==
  /\ Fault("reset")
  /\ link[c] = "up"
  /\ link' = [link EXCEPT ![c] = "reset"]
  /\ c2s' = [c2s EXCEPT ![c] = <<>>]
  /\ s2c' = [s2c EXCEPT ![c] = <<>>]
  /\ UNCHANGED <<clientVars, serverVars>>

\* The peer vanishes without a trace; what is in flight may be lost as well.
Cut(c) ==
  /\ IF sst[c] = "serve" /\ (pc = "serve" \/ cur # c) THEN Fault("cut") ELSE Fault("cutsetup")
  /\ link[c] = "up"
  /\ link' = [link EXCEPT ![c] = "cut"]
  /\ c2s' \in {c2s, [c2s EXCEPT ![c] = <<>>]}
  /\ s2c' \in {s2c, [s2c EXCEPT ![c] = <<>>]}
  /\ UNCHANGED <<clientVars, serverVars>>

Crash ==
  /\ Fault("crash")
  /\ listening
  /\ listening' = FALSE
  /\ sst' = [c \in Conns |-> IF link[c] = "free" THEN "none" ELSE "gone"]
  /\ link' = [c \in Conns |-> IF link[c] = "up" THEN "reset" ELSE link[c]]
  /\ UNCHANGED <<clientVars, ready, c2s, s2c>>

\* The client's process is started again: run begins with no connection.
ClientRestart ==
  /\ Fault("restart")
  /\ cur # NoConn
  /\ Leave("connect")
  /\ retries' = 0
  /\ UNCHANGED <<limit, serverVars, netVars>>

Restart ==
  /\ ~listening
  /\ listening' = TRUE
  /\ UNCHANGED <<clientVars, sst, ready, netVars, faults>>

-----------------------------------------------------------------------------
ClientStep ==
  \/ \E c \in Conns : Connect(c)
  \/ ConnectFails \/ Handshake \/ HandshakeFails \/ Bound \/ Configured
  \/ SetupFails \/ SessionFails

TaskStep(c) ==
  \/ Accept(c) \/ ServerHandshake(c) \/ Bind(c) \/ Start(c) \/ TaskFails(c)

Next ==
  \/ ClientStep
  \/ \E c \in Conns : TaskStep(c) \/ StartFails(c) \/ Reclaim(c) \/ Reset(c) \/ Cut(c)
  \/ Crash \/ ClientRestart \/ Restart

Spec == Init /\ [][Next]_vars

\* The loop and the tasks run on an executor; a lost connection makes the
\* writes of a heartbeat fail in the end; the server is started again.
Fairness ==
  /\ WF_vars(ClientStep)
  /\ \A c \in Conns : WF_vars(TaskStep(c)) /\ WF_vars(Reclaim(c))
  /\ WF_vars(Restart)

FairSpec == Spec /\ Fairness

-----------------------------------------------------------------------------
(* Safety *)

\* A client that serves was told YES: the server has bound its ports, read its
\* configuration and started the session on that very connection.
ServesOnlyWhenReady == pc = "serve" => ready[cur]

-----------------------------------------------------------------------------
(* What builder.rs:40 says of maximum_retries *)

\* The client ends only after that number of reconnect attempts, and with None
\* it never does.
GivesUpAfterRetries ==
  pc \in Exited => \E n \in limit : retries >= n

-----------------------------------------------------------------------------
(* Liveness *)

Serving == pc = "serve" /\ sst[cur] = "serve" /\ link[cur] = "up"

\* Set-up has no timer: a peer lost without a trace leaves the client waiting
\* for an answer, or the server holding the ports while it waits for the
\* configuration.  Short of an exit, for a limit or for a failed handshake,
\* nothing else keeps the client from a session.
Stuck ==
  \/ pc \in Setting /\ link[cur] = "cut"
  \/ \E c \in Conns : sst[c] = "config" /\ link[c] = "cut"

GaveUp == pc = "exit_handshake" \/ (pc = "exit_retries" /\ limit # {})

RecoversUnlessStuck == <>[](Serving \/ GaveUp \/ Stuck)
=============================================================================
