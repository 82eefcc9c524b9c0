-------------------------------- MODULE Bridge --------------------------------
(***************************************************************************)
(* Bridge::run_bridge (net/penetrate/bridge/mod.rs): a program that takes  *)
(* the control connection of one client, sets it up with the server for    *)
(* it, and from then on forwards it, and each data connection the client   *)
(* opens, to the server.  "near" is the client's side of a link, "far" the *)
(* server's.                                                               *)
(***************************************************************************)
EXTENDS Forward

CONSTANTS
  Control,  \* the link of the control connection
  Data,     \* those of data connections
  Faults    \* "fail": a connect, a bind or a handshake fails; "early": see ResetEarly

ASSUME BridgeAssumption ==
  Links = {Control} \union Data /\ Control \notin Data /\ Faults \subseteq {"fail", "early"}

VARIABLES
  run,       \* where run_bridge is
  listening, \* proxy_accepter
  client,    \* what the client has asked for and been told
  server,    \* what the server was asked for and has said
  lost       \* data connections that were reset before they were accepted

session == <<run, listening, client, server, lost>>
vars == <<session, forward>>

Init ==
  /\ ForwardInit
  /\ run = "await" /\ listening = FALSE /\ lost = {}
  /\ client = "new" /\ server = "none"

-----------------------------------------------------------------------------
(* Set-up.                                                                 *)

Near == <<Control, "near">>
Far == <<Control, "far">>

\* The end of run_bridge drops the listener and the control streams; the tasks of data
\* connections go on.
Finish == run' = "done" /\ listening' = FALSE
DropControl == phase' = [phase EXCEPT ![Control] = "off"]

ClientAsks ==
  /\ client = "new" /\ client' \in {"asking", "odd"}
  /\ phase' = [phase EXCEPT ![Control] = "joining"]
  /\ UNCHANGED <<run, listening, server, lost, streams, cut>>

\* Setup is passed on over a new connection; anything else is sent back.
PassSetup ==
  /\ run = "await"
  /\ \/ /\ client = "asking" /\ run' = "asked" /\ server' = "asked"
        /\ UNCHANGED <<listening, client, phase>>
     \/ /\ client = "asking" /\ "fail" \in Faults
        /\ Finish /\ DropControl /\ UNCHANGED <<client, server>>
     \/ /\ client = "odd" /\ client' = "refused"
        /\ Finish /\ DropControl /\ UNCHANGED server
  /\ UNCHANGED <<lost, streams, cut>>

ServerAnswers ==
  /\ server = "asked" /\ ~closed[Far] /\ server' \in {"bound", "refused"}
  /\ UNCHANGED <<run, listening, client, lost, forward>>

\* Mutant: Success is sent before the listener is bound.
PassAnswerFirst ==
  /\ run = "asked" /\ server = "bound"
  /\ client' = "bound"
  /\ \/ /\ run' = "relay" /\ listening' = TRUE /\ phase' = [phase EXCEPT ![Control] = "on"]
     \/ /\ run' = "relay" /\ phase' = [phase EXCEPT ![Control] = "on"] /\ UNCHANGED listening
  /\ UNCHANGED <<server, lost, streams, cut>>

\* The client is told of success once its own listener is bound as well; any other
\* answer is passed on as it is.
PassAnswer ==
  /\ run = "asked"
  /\ \/ /\ server = "bound" /\ client' = "bound"
        /\ run' = "relay" /\ listening' = TRUE /\ phase' = [phase EXCEPT ![Control] = "on"]
     \/ /\ server = "bound" /\ ("fail" \in Faults \/ closed[Near])
        /\ Finish /\ DropControl /\ UNCHANGED client
     \/ /\ server = "refused" /\ client' = "refused" /\ Finish /\ DropControl
     \/ /\ server = "asked" /\ closed[Far] /\ Finish /\ DropControl /\ UNCHANGED client
  /\ UNCHANGED <<server, lost, streams, cut>>

-----------------------------------------------------------------------------
(* Relay: io::forward of the control connection under one Select with the  *)
(* loop that accepts data connections.                                     *)

\* Mutant: the accept loop is waited for as well.
ControlDoneJoins ==
  /\ run = "relay" /\ phase[Control] = "off" /\ ~listening
  /\ Finish
  /\ UNCHANGED <<client, server, lost, forward>>

\* The first of the two that returns drops the other.
ControlDone ==
  /\ run = "relay" /\ phase[Control] = "off"
  /\ Finish
  /\ UNCHANGED <<client, server, lost, forward>>

Offer(d) ==
  /\ client = "bound" /\ ~closed[Near] /\ listening /\ phase[d] = "none"
  /\ phase' = [phase EXCEPT ![d] = "offered"]
  /\ UNCHANGED <<session, streams, cut>>

\* The client resets a data connection that still waits to be accepted.
ResetEarly(d) ==
  /\ "early" \in Faults /\ phase[d] = "offered" /\ d \notin lost
  /\ lost' = lost \union {d} /\ closed' = [closed EXCEPT ![<<d, "near">>] = TRUE]
  /\ UNCHANGED <<run, listening, client, server, phase, sent, read, written, got, over, cut>>

\* A connection the server has no address of its kind for is dropped.  One that is
\* reset already has no peer_addr, and the error ends the whole session.
Accept(d) ==
  /\ run = "relay" /\ phase[Control] = "on" /\ phase[d] = "offered"
  /\ \/ d \notin lost /\ phase' = [phase EXCEPT ![d] = "joining"] /\ UNCHANGED <<run, listening, cut>>
     \/ d \notin lost /\ Off(d) /\ cut' = cut \union {d} /\ UNCHANGED <<run, listening>>
     \/ /\ d \in lost /\ Finish
        /\ phase' = [phase EXCEPT ![d] = "off", ![Control] = "off"]
        /\ cut' = cut \union {d, Control}
  /\ UNCHANGED <<client, server, lost, streams>>

\* The listener is gone, and what still waited in it.
Refuse(d) ==
  /\ run = "done" /\ phase[d] = "offered"
  /\ Off(d) /\ cut' = cut \union {d}
  /\ UNCHANGED <<session, streams>>

\* Both decorators and the connection to the server.
Join(d) ==
  /\ phase[d] = "joining"
  /\ \/ server = "bound" /\ phase' = [phase EXCEPT ![d] = "on"] /\ UNCHANGED cut
     \/ ("fail" \in Faults \/ closed[<<d, "near">>]) /\ Off(d) /\ cut' = cut \union {d}
  /\ UNCHANGED <<session, streams>>

\* Ten seconds, for joining and forwarding together.
Expire(d) ==
  /\ phase[d] \in {"joining", "on"}
  /\ Off(d) /\ cut' = cut \union {d}
  /\ UNCHANGED <<session, streams>>

-----------------------------------------------------------------------------
Relay == PassSetup \/ PassAnswer \/ ControlDone \/ \E d \in Data : Accept(d) \/ Refuse(d)
Copies(l) == Forwards(l) /\ UNCHANGED session
Outside(l) == Ends(l) /\ UNCHANGED session
Task(d) == Join(d) \/ Expire(d)
Hears(s) == (Get(s) \/ Told(s)) /\ UNCHANGED session

Next ==
  \/ ClientAsks \/ ServerAnswers \/ Relay
  \/ \E d \in Data : Offer(d) \/ ResetEarly(d) \/ Task(d)
  \/ \E l \in Links : Copies(l) \/ Outside(l)

Spec == Init /\ [][Next]_vars

\* Tasks that can go on are polled, timers fire, a server that was asked answers.
FairSpec ==
  /\ Spec
  /\ WF_vars(Relay) /\ WF_vars(ServerAnswers)
  /\ \A d \in Data : WF_vars(Task(d))
  /\ \A l \in Links : \A s \in Both(l) :
       /\ WF_vars((CopyRead(s) \/ CopyWrite(s) \/ CopyEof(s)) /\ UNCHANGED session)
       /\ WF_vars(Hears(s))

-----------------------------------------------------------------------------
(* Properties.                                                             *)

TypeOK ==
  /\ ForwardTypeOK
  /\ run \in {"await", "asked", "relay", "done"} /\ listening \in BOOLEAN
  /\ client \in {"new", "asking", "odd", "bound", "refused"}
  /\ server \in {"none", "asked", "bound", "refused"}
  /\ lost \subseteq Data

\* A client that was told of success has both listeners behind it as long as its
\* session lasts: that of the server, bound first, and that of the bridge.
BoundIsListening == client = "bound" => server = "bound" /\ (listening \/ run = "done")

\* When an end of the control connection closes, or a data connection reset too early
\* ends the session, everybody hears of it: the client, the server, and both ends of
\* every data connection, none of which outlives its ten seconds.
EndsAll ==
  []<>(/\ closed[Near] \/ closed[Far] =>
            run = "done" /\ \A l \in Links : phase[l] \in {"none", "off"}
       /\ \A s \in Sides : phase[s[1]] = "off" => closed[s] \/ over[s] # "no")
=============================================================================
